\* INITPROC and two more TCBs on 45 frames, of which the kernel's own tables
\* take 11: three processes fit, and one exec more does not.
CONSTANTS
    INITPROC = INITPROC
    Task = {INITPROC, t1, t2}
    None = None
    ENTRIES = 8
    ZERO = ZERO
    a = a
    b = b
    d = d
    STRAMPOLINE = 1
    SECTIONS <- MCSections
    MMIO <- MCMMIO
    EKERNEL = 5
    MEMORY_END = 50
    USER_STACK_PAGES = 2
    KERNEL_STACK_PAGES = 1
    InitElf <- ElfA
    Commands <- MCCommands
    Value = {d}
    Targets <- MCTargets
    Buffers <- MCBuffers
    MaxBuilt = 4
SPECIFICATION MSpec
SYMMETRY TaskSymmetry
INVARIANTS
    FramesPartitioned
    TablesMatchAreas
    TrapContextsOwn
    OnlyOutOfMemoryPanics
PROPERTIES
    ArgumentsArrive
    ImplementsPrivateMemory
