\* Six units of memory, three jobs that may own several partitions each, and
\* sizes from 0 to one unit more than there are.
CONSTANTS
    TotalSize = 6
    Jobs = {j1, j2, j3}
    NoJob = NoJob
    Sizes = {0, 1, 2, 3, 7}
SPECIFICATION Spec
SYMMETRY Symmetric
INVARIANTS PartitionsTile Coalesced
PROPERTIES ImplementsMemoryMap
