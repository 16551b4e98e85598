\* All demos, five philosophers, at most six threads in a session.
CONSTANTS
    MaxThreads = 6
    Mutexes = {0, 1, 2, 3, 4}
    NoMutex = NoMutex
    Conds = {"condition", "not_full", "not_empty"}
    MaxMeddling = 0
    Seats = 5
    Sessions <- MCSessions
SPECIFICATION DemosSpec
CHECK_DEADLOCK FALSE
INVARIANTS VerdictIsRight WriterAlone
PROPERTIES DemoEnds
