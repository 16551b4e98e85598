\* Three threads, two mutexes and two condition variables; one wake, block or
\* removal from the menu.
CONSTANTS
    MaxThreads = 3
    Mutexes = {m1, m2}
    NoMutex = NoMutex
    Conds = {c1, c2}
    MaxMeddling = 1
SPECIFICATION CvSpec
SYMMETRY Symmetric
CHECK_DEADLOCK FALSE
INVARIANTS TypeOK MutualExclusion NoLostWakeup QueueIsBlocked DetectorExact DfsExact CvQueueIsAsleep
PROPERTIES DeadlockIsStable
