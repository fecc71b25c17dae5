CONSTANTS
    b1 = b1
    b2 = b2
    b3 = b3
    c1 = c1
    c2 = c2
    c3 = c3
    Block <- MCBlock
    Cache <- MCCache
    Data = {0, 1}
    BLOCK_CACHE_SIZE = 2
    MaxHeld = 3
SYMMETRY BlockCacheSymmetry
SPECIFICATION Spec
INVARIANTS
    OneCopy
    ReadsSeeWrites
    FullOnlyWhenAllHeld
PROPERTIES
    SyncMakesDurable
    ImplementsDisk
