\* Four threads that produce and consume on a buffer of two places.
CONSTANTS
    MaxThreads = 4
    Mutexes = {m1}
    NoMutex = NoMutex
    MaxMeddling = 1
    Conds = {"not_full", "not_empty"}
    Items = {a, b}
    NoItem = NoItem
    capacity = 2
SPECIFICATION RbSpec
SYMMETRY Symmetric
CHECK_DEADLOCK FALSE
INVARIANTS NoSleepBesideWork
PROPERTIES ImplementsQueue
