CONSTANTS
    f = f
    g = g
    h = h
    ZERO = ZERO
    BLOCK_SIZE = 2
    INODE_DIRECT_COUNT = 1
    INODE_INDIRECT1_COUNT = 2
    TotalBlocks = 22
    InodeBitmapBlocks = 1
    BLOCK_BITS = 4
    InodesPerBlock = 2
    Name <- MCName
    LongName = {}
    Request = {}
    apps <- MCApps
SPECIFICATION PackerSpec
INVARIANT
    AllAppsFound
