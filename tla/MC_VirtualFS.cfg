\* Four legal names and a refused one on three inodes and three blocks of two
\* bytes: the inode table and the disk both fill up.
CONSTANTS
    Names = {a, b, c, d, long}
    LegalNames = {a, b, c, d}
    NoName = NoName
    Bytes = {0, 1, 2}
    Zero = 0
    Data <- MCData
    MaxFiles = 3
    MaxBlocks = 3
    BlockSize = 2
    BlocksPerFile = 2
SPECIFICATION Spec
SYMMETRY Symmetric
INVARIANTS DiskConsistent FreedIsErased
PROPERTIES ImplementsFileStore
