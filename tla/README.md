# A TLA+ model of the uthread library

The repository is a user-level thread library (`src/`, `include/`, namespace
`uthread`) with a menu program (`test/test_main.cpp`) and a few stand-alone
simulations of operating-system algorithms. This directory holds TLA+ modules
translated from that code, TLC configurations that check them on small
instances, and TLAPS proofs for all instances. Paths below are relative to the
repository root.

## 1. The system

One operating-system thread executes everything. Threads are `ucontext`
contexts that give up the CPU only in `Scheduler::yield`, `blockCurrent` and
`exitCurrent`; between two such calls whatever they do is atomic. The main
program calls `step`, `run` or `joinThread`, which select a READY thread and
switch to it; it runs again when the thread switches back. The hard behaviour
is therefore not parallelism but the *order of switches*: what another thread
does between the moment a waiter is woken and the moment it gets the CPU, what
the main program does to threads that are suspended in the middle of a call,
and what state survives from one call to the next.

| component | state | operations that change it | what makes it correct | model |
|---|---|---|---|---|
| TCB (`tcb.cpp`) | state, finished flag, priority, burst, logical ticks | `setState`, `markFinished`, setters | only legal transitions; FINISHED is final | `Tcb` |
| ThreadPool (`thread_pool.cpp`) | vector of TCBs, `next_tid_` | `createThread`, `removeThread`, `clear` | creation order, no tid twice | `CoopSched`, `UThread` |
| Scheduler (`scheduler.cpp`) | policy, quantum, `rr_index_`, clock, `current_`, switch reason | `selectNext`, `step`, `run`, `yield`, `blockCurrent`, `exitCurrent`, `wakeThread`, `adjustRRIndex` | one RUNNING thread, the right thread selected, no starvation under round robin, ordered ticks | `CoopSched`, `UThread` |
| UThreadRuntime (`uthread.cpp`) | the two above | create, remove, wake, join, run, step, clear | implements cooperative scheduling | `UThread` |
| Context (`context.cpp`) | stacks, contexts | `initContext`, `switchContext` | control goes where the scheduler expects it | the executing context in `CoopSched` and `UThread` |
| Mutex (`mutex.cpp`) | locked, owner, wait queue | `lock`, `tryLock`, `unlock` | exclusion, no lost wakeup | `Mutex` |
| DeadlockDetector (`deadlock_detector.cpp`) | wait-for graph | four edge operations, `detect` | reports exactly the real deadlocks | `Mutex`, `MC_Mutex` |
| Semaphore (`semaphore.cpp`) | count, wait queue | `wait`, `signal` | count not negative, no permit beside sleepers | `Semaphore` |
| ConditionVariable (`condition_variable.cpp`) | wait queue | `wait`, `signal`, `broadcast` | a signal finds a sleeping thread, nothing else wakes it | `CondVar` |
| RingBuffer (`ring_buffer.cpp`) | buffer, head, tail, count | `produce`, `consume` | a bounded FIFO queue, no sleepers beside work | `RingBuffer`, `BoundedQueue` |
| PartitionAllocator (`partition_allocator.cpp`) | list of partitions, algorithm | `allocate`, `reclaim`, `setAlgorithm` | the list tiles the memory, free neighbours are merged, first fit and best fit are what they say | `PartitionAllocator`, `MemoryMap` |
| VirtualMemory (`virtual_memory.cpp`) | page table, frames, FIFO queue, LRU list, counters | `accessPage`, `setAlgorithm`, `reset` | the three records agree, the oldest page goes | `VirtualMemory` |
| VirtualFS (`virtual_fs.cpp`) | inodes, bitmap, blocks | `my_create`, `my_write`, `my_read`, `my_delete` | bitmap and inodes agree, a read returns what was written, nothing of old content survives | `VirtualFS`, `FileStore` |
| menu and demonstrations (`test_main.cpp`) | globals of each demo | handlers, demo threads | every demo ends, its verdict is right, writers write alone | handlers in `UThread`, `Mutex`, `Semaphore`; eight demos in `Demos` |

Interaction: every synchronisation object calls `Scheduler::blockCurrent` and
`Scheduler::wakeThread` and keeps the tids of its waiters in a queue of its own;
Mutex reports each wait, hold and release to the DeadlockDetector;
ConditionVariable uses a Mutex, RingBuffer a Mutex and two condition variables.
The pool knows nothing of those queues, so `removeThread` and a wake from the
menu leave stale tids behind in them.

## 2. The modules

`Tcb` has the constant-level parts of a thread control block: the table of
transitions that `setState` accepts, what a refused one leaves, what
`markFinished` records, and the clamps of the setters.

`CoopSched` is the abstract specification: cooperative threads with the policy
left open. `Dispatch(t)` is a new step that has selected a READY thread of the
pool, or a round-robin slice that resumes the thread that just switched out;
`Yield`, `Block`, `Exit` and `Return` are the ways out; `EndStep` clears
`current_`. `on_cpu` says whether the thread `current_` points to is executing.
Two things are kept for the properties: `ended` (the entry function has
returned) and `self_woken` (`wakeThread` hit the thread while it was RUNNING,
which `setState` accepts). A thread woken while it runs cannot be marked
finished from READY; it is dispatched again after its entry function returned
and leaves `threadWrapper` through `uc_link` (`LinkReturn`). What a further
resumption of such a context does is undefined in the code; the model keeps the
outcome that it returns once more.

`UThread` is the runtime in detail: the vector of threads in order, `rr_index_`,
`quantum_`, the remaining slice, `last_switch_reason_`, the logical clock and the
ticks it stamps, and which of `step`, `run` and `joinThread` is in progress. The
loops of `selectFIFO`, `selectPriority` and `selectSJF` are stated by what they
return; `MC_UThread` has these and `selectRR` as folds and a run compares. `UThread`
implements `CoopSched` with `pool` as the set of the vector's tids and `on_cpu`
as `pc = "thread"`.

`Mutex` extends `CoopSched`, so what it shows holds under every policy. Thread
bodies are arbitrary sequences of `lock`, `tryLock`, `unlock` and `yield` that
end by returning. `LockBusy` and `LockResume` are the two ways into a turn of
the loop in `lock()`: the first test of `locked_`, and the test after
`blockCurrent` returned. `waiting[t]` is the program counter of a thread
suspended inside `lock()`; `held` is what each thread believes it holds. The
detector's graph is two sets of edges: an edge is removed before the same one
is added, so the vectors of the code hold no duplicates. `Detect` states the
existence of a cycle; `MC_Mutex` has the depth-first search itself. `Meddle` is
the menu: it wakes, blocks or removes any thread between two steps.

`Semaphore` is built in the same way. The main program may signal too.

`CondVar` extends `Mutex`. `wait()` is three actions, because the thread is
suspended in between: `WaitRelease` pushes the tid and unlocks (with the wakeup
that `unlock` gives), `WaitBlock` is `blockCurrent`, and `WaitRelock` is the
`lock()` after it, which may block again. No other thread runs between the first
two, since the thread keeps the CPU.

`RingBuffer` extends `CondVar` with the circular array; a turn of the loops in
`produce` and `consume` is one action, and the signal belongs to the action that
changes the array. `BoundedQueue` is its abstract specification: `queue` is the
occupied part of the array from `head_` on, `last` the item consumed last.

`PartitionAllocator` has one action per call; the loop of `mergeAdjacentFree` is
an action per turn (`MergeTurn`), with the list iterator as the variable `it`, and
no other call is possible while it runs: in the code the merge is the end of
`reclaim`. Its abstract specification `MemoryMap` has no partitions, only the
owner of each unit of memory; first fit and best fit are stated there on runs of
free units, and `cells` is read off the list. A merge is a stutter there.

`VirtualMemory` keeps the two replacement lists apart as the code does. The times
at which a page was last loaded and last accessed are history variables that
`EvictsOldest` compares the victim with.

`VirtualFS` has inodes, bitmap and the bytes of every block. `my_write` is one
action: it frees the old blocks, and then the blocks that the calls of
`allocBlock` return are the lowest free ones in order (`AllocBlocks`), as many as
are needed or as there are. `FileStore` is the abstract specification: named
byte strings and the number of blocks each keeps from the others. A file name is
a model value; the names that `my_create` refuses are one value.

`Demos` composes `CondVar` (with `Mutex` and the detector in it) and an instance
of `Semaphore` on the same threads. A user picks menu entries from a session; a
demo is `resetDemoState`, fresh objects, its threads and `run()`. A thread
function is a script of calls, so that the module says what each function does in
a line; the loops `while (...) wait(...)` are calls that stay where they are until
the condition holds. Deadlock demo and avoidance demo share their thread
functions, as in the code, and differ in `g_dl_ordered`. Without calls from the
menu in the middle of a demo no thread is woken while it runs, so that no context
ends through `uc_link` here.

Left out of all modules: output, wall-clock times, pids, and calls that return
at once without an effect (they are stuttering steps). Entering the scheduler
from inside a thread is excluded, as no caller in the repository does it.

## 3. What TLC checks

| run | instance | properties |
|---|---|---|
| `coop_sched` | 3 threads, every call | `CoopTypeOK`, `OneRunning`, `CpuIsRunning`, `EndedIsFinished`, `FreshTids`, `FinishedIsFinal` |
| `uthread_api` | 2 threads, all policies, clamped arguments, quantum 1 and 2, clock not counted | `TypeOK`, `PoolOrdered`, `ImplementsCoopSched` |
| `uthread_rr` | 3 threads, round robin, `clear` between runs, clock up to 2, with fairness | `SliceResumesReady`, `TicksOrdered`, `SelectLoopsAgree`, `RotationPreserved`, `TurnAdvances`, `RRNoStarvation` |
| `mutex` | 3 threads, 2 mutexes, 2 condition variables, 1 call from the menu | `TypeOK`, `MutualExclusion`, `NoLostWakeup`, `QueueIsBlocked`, `DetectorExact`, `DfsExact`, `CvQueueIsAsleep`, `DeadlockIsStable` |
| `mutex_stale_wake` | 2 threads, 1 mutex, 1 wake | `ExitMarksFinished`, violated |
| `semaphore` | 3 threads, 2 permits, 2 calls from the menu, with fairness | `SemTypeOK`, `NoStrandedPermit`, `QueueIsBlocked`, `PermitTaken` |
| `ring_buffer` | 4 threads, 2 places, 2 items, 1 call from the menu | `NoSleepBesideWork`, `ImplementsQueue` |
| `partition` | 6 units, 3 jobs, sizes 0 to 3 and 7 | `PartitionsTile`, `Coalesced`, `ImplementsMemoryMap` |
| `virtual_memory` | 3 frames, 5 pages, 7 accesses between resets | `TablesAgree`, `EvictsOldest` |
| `vfs` | 3 inodes, 3 blocks of 2 bytes, 2 blocks per file, 5 names | `DiskConsistent`, `FreedIsErased`, `ImplementsFileStore` |
| `demos` | sessions of up to 4 menu entries and 6 threads, 5 philosophers, with fairness | `VerdictIsRight`, `WriterAlone`, `DemoEnds` |
| `philosopher_numbers` | one thread created first, or philosophers twice | `PhilosopherNumbers`, violated |

Bounds. `MaxThreads` bounds the calls of `createThread`, not the threads alive;
three are enough for a waiter, an owner and a newcomer that takes the mutex in
between, and for removing an entry before, at and after the round-robin cursor.
Two mutexes give the cycle of two threads and a third thread outside or behind
it. `MaxClock` is where the logical clock saturates: 2 lets a thread start and
finish at different ticks, and `TicksOrdered` asks for a strict order only below
the bound. `MaxMeddling` counts calls from the menu: one is needed for a stale
queue entry, two (in `semaphore`) for a stale entry of a thread that is gone or
for two permits stranded at once. `MaxCount` of two
permits lets two signals come before the first woken thread runs. In `mutex` the
threads use mutexes and condition variables in any order; without condition
variables (as in `mutex_stale_wake`, where `Conds` is empty) its steps are those
of `Mutex!Next`. In `uthread_rr` the clock is reset only while the pool is empty,
as its only caller `runSchedDemo` does, and `clear` leaves the cursor beyond the
vector of the next batch. `SelectLoopsAgree` is about the result of a loop on a
vector, so it does not wait for such states: wherever the scheduler is about to
select, it compares the loops for each cursor up to six on vectors of up to three
threads in any states, and for each order of their priorities and burst times with
ties. Four threads
on a buffer of two places let producers and consumers sleep at the same time
with a newcomer of either kind, and the indices wrap. Six units of memory hold
partitions with holes of different sizes on both sides of an allocation, three
free neighbours in a row, and a job with several partitions; five pages on three
frames leave hits and two candidates for every replacement, and seven accesses
replace each frame once with hits in between. The disk of three blocks and three
inodes runs out of either; the strings have every length up to one byte more than
a file may have, among them multiples of the block size. Mutexes, condition
variables, items, jobs and legal names are symmetric where they occur; the
properties checked there beside the invariants are safety properties, which
symmetry does not disturb. The sessions of `demos` have each demo once and
start after a deadlock, after unused threads and on a fresh program; the
philosophers come first in theirs, since otherwise the forks are indexed out of
bounds (below). Deadlock checking is off for the modules with threads, as a
program in which every thread has finished or is blocked stops, and on for the
other three.

Fairness. `UThread!Fairness` says that the scheduler's loop goes on when it can
(ordinary sequential code) and that a body that is executing reaches its next
switch (a body that never does would stop the whole process). No fairness is
assumed between threads there: `RRNoStarvation` is a result, for programs that
create threads finitely often. That condition is part of the property because the
code needs it: with vector [t0, t1, t2] and the cursor on t1, if t1 creates t3 and
exits, t2 creates t4 and exits, and so on, the cursor never wraps and t0 stays
READY for ever. `MaxThreads` makes the condition true in every instance, so TLC
shows what follows from it and not that it is needed; `TurnAdvances` exempts
creations step by step. `Semaphore!Fairness` uses that result: strong fairness for
the dispatch of each thread is what round robin gives to a main program that keeps
calling `run` on finitely many threads, and strong fairness for the end of a slice
holds because a slice is resumed fewer than `quantum_` times.
`Demos` assumes least: the loop of `run()` goes on while it can, nothing about
which READY thread it selects. The demos end under every policy because a thread
that waits again does so only after another one has made progress.

What the runs show. The TCB states, the finished flag and the CPU stay
consistent under all orders of calls, with one documented exception: a thread
woken while it is RUNNING. `adjustRRIndex` keeps the rotation of the threads
that remain. The re-test in `lock()` and in `wait()` is what exclusion and a
non-negative count rest on, and one wake per release or signal is enough as long
as the queues hold only sleeping threads. The detector is exact in *every*
state, although it runs only when a thread starts to wait: taking a free mutex
or releasing one cannot close or open a cycle. The ring buffer is a FIFO queue
even when the menu wakes or removes threads in the middle of a call, and without
such calls producers and consumers never sleep beside work they could do. A
wake, block or removal from the menu costs a semaphore at most one wakeup, and
this is counted: `NoStrandedPermit` allows one permit beside sleepers per call.

The allocator merges every pair of free neighbours and is first fit and best fit
on the memory itself, not only on its list. A write that runs out of space loses
the old content and keeps the blocks it got, with size 0: they are still the
file's, later writes and `my_delete` give them back, and until then other files
cannot use them, which `FileStore` says in so many words. No byte of an old
content survives in a free block or behind the end of a file. The demos end
under any policy, readers and writers exclude each other, and the detector says
"deadlock" after a demo exactly if one happened, also after a demo that left a
deadlock behind.

The violations. `mutex_stale_wake` finds a thread that returned from its entry
function and is not FINISHED, against `include/scheduler.h:96`. A lock waiter is
woken from the menu, finds the mutex still locked and queues up a second time;
after it has got and released the mutex, its own `unlock` pops its stale entry
and wakes the thread itself, RUNNING to READY; `markFinished` is then refused.
`philosopher_numbers` shows that the comment "0..4" at `test/test_main.cpp:255`
holds only for the first threads of the program: `clear()` keeps `next_tid_`, and
after any other thread the philosophers index `g_forks` beyond its end. What that
does is undefined; the model stops there.

## 4. What is proved

All theorems hold for every value of the constants under the named assumptions
of the modules (`MaxThreadsAssumption`, `UThreadAssumption`, `MutexAssumption`,
`SemaphoreAssumption`, `RingBufferAssumption`, `PartitionAssumption`,
`VirtualMemoryAssumption`, `VirtualFSAssumption`, `SeatsAssumption`,
`CondsAssumption`: bounds are natural numbers, arguments integers, `NoMutex` is no
mutex, `NoJob` no job, `NoItem` no item and `NoName` no name or string, a ring
buffer has one mutex and two condition variables, a memory has at least one unit
or frame, a block at least one byte, the philosophers are at least two, and the
demos have their three condition variables). Nothing is assumed about which
threads, mutexes, jobs or sizes there are, nor that there are any. `RingBuffer`
and `Demos` make different assumptions on the condition variables, and no module
uses both.

* `CoopSchedProofs`: `CoopTypeCorrect`, `CoopOneRunning`, `CoopCpuIsRunning`,
  `CoopEndedIsFinished`, `CoopFreshTids`, `CoopFinishedIsFinal`. The inductive
  invariant `CoopInv` joins type, `OneRunning`, `CpuIsRunning`,
  `EndedIsFinished` and `FreshTids`. None of the parts is inductive alone:
  `OneRunning` needs to know that a thread leaving through `uc_link` is one that
  was woken while running, and `createThread` overwrites the record of a tid,
  which is harmless only for a fresh one. The lemmas on queues of tids
  (`PushFacts`, `PopFacts`) that all wait queues rest on, and the table of
  `setState` (`SetStateTable`), are here too.
* `UThreadProofs`: `UThreadTypeCorrect`, `UThreadPoolOrdered`,
  `UThreadSliceReady` and the refinement `UThreadRefinesCoopSched`. The invariant
  `UInv` adds `CpuState`: the thread on the CPU is RUNNING or READY with reason
  NONE, and one that switched out with reason YIELD is READY. That is what makes
  a resumed slice a legal `Dispatch` of `CoopSched`. Each action is mapped to one
  abstract action or to a stutter. `UThreadTicksOrdered` rests on `TickInv`: the
  finish tick is written in the last slice of a thread because the finished flag
  and the state agree, so that a finished thread is never selected, and the first
  run is never in the future of the clock. `UThreadRotationPreserved` and
  `UThreadTurnAdvances` are about the round-robin cursor: while it is inside the
  vector no index reaches twice the size, so `%` subtracts the size at most once
  (`ModWrapped`), and the turn of an entry is a difference of positions (`Place`).
  `AdjustFacts` is the arithmetic of `adjustRRIndex`, for a removal before, at and
  after the cursor and at the end of the vector.
* `MutexProofs`, on `Mutex!Spec`: `MutexTypeCorrect`, `MutexExcludes` (invariant
  `LockInv`: `locked_`, `owner_tid_` and the threads' own account agree),
  `DetectorIsExact` and `DeadlockForEver` (invariant `DetectorInv`: the edges are
  exactly the waits and owners), `MutexNoLostWakeup` and `MutexQueueIsBlocked`
  (invariant `WakeInv`: without meddling every waiter is in the pool and nothing
  was woken while running). Steps of `Mutex` are steps of `CoopSched`, so
  `CoopInv` comes for free.
* `MutexProofs`, on `CondVar!CvSpec`: `CvMutexes` carries the results on mutexes
  over to programs that also wait, signal and broadcast, `CvDeadlockForEver` the
  action property, and `CvQueuesAreAsleep` is the property of the condition
  variables. A step of `CondVar` is a step of `Mutex` or one beside it
  (`CvStepKinds`): a thread blocks in `wait()`, or one is woken there. Such a
  step touches neither locks nor edges. What keeps it from waking a thread out of
  `lock()` is `CvPlaces`: no thread in `wait()` waits for a mutex, and one between
  its `unlock` and its `blockCurrent` has the CPU; conversely an `unlock` wakes
  only threads queued at the mutex, so that nobody leaves `wait()` unsignalled.
  `CvInv` joins both invariants.
* `RingBufferProofs`: every step of `RingBuffer` is one of `CondVar` as far as
  mutex and condition variables go (`RbStepIsCv`), so `CvInv` holds. The
  refinement `RingBufferImplementsQueue` rests on `RingOK` (`tail` is `head` plus
  `count`, wrapped): `produce` appends to the contents, `consume` takes their
  head. A buffer of capacity 0 stays empty. `RingBufferKeepsAwake` is
  `NoSleepBesideWork`; `WorkInv` adds that a condition variable holds only
  threads of its own operation, in the loop on `count_` (`Roles`). An operation
  takes one piece of work and one awake thread from its own side and adds a
  piece to the other, with the thread its signal wakes.
* `DemosProofs`, on `Demos!DemosSpec`, for any session of menu entries:
  `DemosKeepPromises`, `DemosWriterAlone` and `DemosVerdictIsRight`. A demo is a
  step of `CondVar`, a call of the semaphore beside it, or the creation of a cast
  on fresh objects, and `BaseInv` carries `CvInv` through all three, together
  with what the semaphore's queue and the scripts guarantee. That alone does not
  say where a thread is in its script. `PlaceInv` does: a thread owns or waits
  for mutexes only between a `lock` and its `unlock` in the script (`HeldAt`), is
  in `wait()` only at a call that waits, and is BLOCKED for one of three reasons.
  It rests on lemmas that go through the scripts once (`CallFacts`,
  `ScriptsPaired`).
* `DemosWriterAlone` needs more than that no two threads have the permit, since
  the reader that takes it is seldom the one that gives it back. `PermitInv` says
  that `g_rw_read_count` is the number of readers between `++` and `--`, and that
  the permit is either free, or with these readers, or with one writer. The
  readers' part holds between a reader's `++` and its `wait()` only because both
  are inside the count mutex, which `TurnsInv` says reader by reader: one that
  sleeps in the semaphore's `wait()` is the only one counted.
* `DemosVerdictIsRight` compares the detector with the threads left over. That
  a reported deadlock leaves threads behind is `DetectorExact`. The converse is
  that nothing but a mutex can keep a thread: by `PlaceInv` a thread left over is
  asleep in a mutex, in the semaphore or on a condition. `WaitersInv` rules out
  the last two: permits beside sleepers have woken threads on their way
  (`PermitsWanted`), the semaphore demo's permits are with its threads
  (`CustomerInv`), each side of a condition is one thread (`CastInv`), and a
  thread sleeps on a condition only as long as it has reason to (`ReasonInv`,
  with `g_demo_buffer` as the difference of what the two scripts have done). So
  each thread left over waits for a mutex whose owner is left over too, and
  together they are a deadlock (`VerdictOfStopped`).
* `SemaphoreProofs`: `SemaphoreTypeCorrect`, `SemaphoreQueueIsBlocked`, and
  `SemaphoreNoStrandedPermit`. The last one is not inductive: that every permit
  has a woken thread on its way says nothing of the queue entries that a signal
  may be spent on in vain. `PermitBound` counts those as well: permits and queue
  entries together are at most the woken threads, the sleepers and the calls
  from the menu. `StaleBound` says that stale entries come from such
  calls only. Both are sums of cardinalities that each action changes by one.
* `PartitionAllocatorProofs`: `PartitionsAlwaysTile`, `PartitionsCoalesced`
  (invariant `TileInv`, the two together; that the merge may stop at its
  iterator rests on everything before it being merged), and the refinement
  `AllocatorImplementsMap`. Its core is that the free partitions of a list that
  tiles the memory and is merged are exactly the runs of free units of the map
  (`HoleBlock`, `RunBlock`), so that the first partition that fits is the lowest
  run that fits. Where a run or a partition exists because there must be a first
  one, the proof uses `LeastNat`: a set of natural numbers that is not empty has
  a least member, which follows from the library's theorem on well-founded
  orders, without an induction rule. `Allocate` and `Reclaim` are mapped to an
  abstract action, each `MergeTurn` to a stutter.
* `VirtualProofs`, on `VirtualMemory!VmSpec`: `MemoryTypes`, `MemoryTablesAgree` and the action
  property `MemoryEvictsOldest`. The invariant `MemoryInv` says more than the
  tables' agreement: the FIFO queue is sorted by the time of loading and the LRU
  list by that of the last access, strictly, and no time lies in the future.
  The strictness is what puts a page loaded or hit now behind all others.
* `VirtualProofs`, on `VirtualFS!Spec`: `DiskStaysConsistent` and `FreedStaysErased`. The invariant
  `DiskInv` joins the parts of both, which need each other: that the bytes after
  the end of a file are zero rests on `allocBlock` handing out erased blocks,
  that is on every unmarked block being zero, and that freeing one file leaves
  the others alone on no block being held twice. `FreeStep` is shared by
  `my_delete` and by the beginning of `my_write`; `StoreStep` covers complete
  writes and those cut off by a full disk. The refinement
  `FileSystemImplementsStore` adds `UsedIsNamed`, so that the used inodes are as
  many as the files of the store (`TableCount`, by an injection that is onto
  exactly if no inode is free). `FreeCount` is the account of free blocks for an
  exchange of a file's blocks against those just allocated, from which it follows
  that `allocBlock` gives up exactly when the store has too few blocks;
  `ReadsBack` is the arithmetic of blocks and offsets by which `my_read` returns
  the string that was cut up, and `KeptBytes` says that no other file changes.

Only model-checked: liveness (`RRNoStarvation`, `PermitTaken`,
`DemoEnds`), which needs fairness and `ENABLED`; the depth-first search
(`DfsExact`), which is recursive; and the selection loops (`SelectLoopsAgree`),
whose folds would need induction over the vector. Every other property that a
passing run checks is proved, the four refinements among them.

## 5. Not modelled

The text of reports and menus, the wall-clock fields, stack allocation and its
failure, and the ucontext calls below `switchContext`; the averages that the
scheduling comparison prints; `VirtualMemory` with no frame at all, where
`front()` of an empty list is undefined and which no caller asks for; file names
with a zero byte in them. The unit tests are single paths of the modules.
`hazards` in `PROJECT.json` lists for each hazard the property that covers it, or
why none does.

## 6. Plan

Liveness of `lock()` under round robin: which waiters may starve, since `unlock`
does not hand the mutex over.
