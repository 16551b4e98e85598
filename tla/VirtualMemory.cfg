\* Three frames and five pages; seven accesses replace every page once and
\* leave room for hits in between.
CONSTANTS
    NumFrames = 3
    NumPages = 5
    MaxAccesses = 7
SPECIFICATION VmSpec
INVARIANTS TablesAgree
PROPERTIES EvictsOldest
