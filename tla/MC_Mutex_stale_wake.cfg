\* One wake from the menu is enough for a thread that never finishes.
CONSTANTS
    MaxThreads = 2
    Mutexes = {m1}
    NoMutex = NoMutex
    Conds = {}
    MaxMeddling = 1
SPECIFICATION CvSpec
CHECK_DEADLOCK FALSE
INVARIANTS ExitMarksFinished
