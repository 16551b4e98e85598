\* Every interleaving of three threads, with any READY thread dispatched next.
CONSTANTS
    MaxThreads = 3
SPECIFICATION CoopSpec
\* The main program may stop, with every thread finished or blocked.
CHECK_DEADLOCK FALSE
INVARIANTS CoopTypeOK OneRunning CpuIsRunning EndedIsFinished FreshTids
PROPERTIES FinishedIsFinal
