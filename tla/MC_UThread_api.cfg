\* The whole API on two threads: every policy, priorities and bursts that
\* differ and that tie, arguments that the setters clamp or refuse.
CONSTANTS
    MaxThreads = 2
    MaxClock = 0
    Policies = {"RR", "PRIORITY", "SJF"}
    QuantumArgs = {0, 1}
    PriorityArgs = {0, 2}
    BurstArgs = {2}
SPECIFICATION Spec
CHECK_DEADLOCK FALSE
INVARIANTS TypeOK PoolOrdered
PROPERTIES ImplementsCoopSched
