\* Round robin on three threads, slices of the default length, the logical clock
\* with its reset, and clear() between two runs.
CONSTANTS
    MaxThreads = 3
    MaxClock = 2
    Policies = {"RR"}
    QuantumArgs = {}
    PriorityArgs = {1}
    BurstArgs = {}
SPECIFICATION RunLiveSpec
CHECK_DEADLOCK FALSE
INVARIANTS SliceResumesReady TicksOrdered SelectLoopsAgree
PROPERTIES RotationPreserved TurnAdvances RRNoStarvation
