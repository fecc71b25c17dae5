CONSTANTS
    f = f
    g = g
    long = long
    ZERO = ZERO
    BLOCK_SIZE = 2
    INODE_DIRECT_COUNT = 1
    INODE_INDIRECT1_COUNT = 2
    TotalBlocks = 23
    InodeBitmapBlocks = 1
    BLOCK_BITS = 3
    InodesPerBlock = 2
    Name <- MCName
    LongName = {long}
    Request <- MCRequest
SYMMETRY NameSymmetry
SPECIFICATION Spec
INVARIANTS
    AllocationExact
    DirectoryExact
    NoAssertionFails
    WritesUseAllSpace
PROPERTIES
    ImplementsFlatFs
