\* Philosophers whose thread ids do not start at 1.
CONSTANTS
    MaxThreads = 10
    Mutexes = {0, 1, 2, 3, 4}
    NoMutex = NoMutex
    Conds = {"condition", "not_full", "not_empty"}
    MaxMeddling = 0
    Seats = 5
    Sessions <- LateSessions
SPECIFICATION DemosSpec
CHECK_DEADLOCK FALSE
INVARIANTS PhilosopherNumbers
