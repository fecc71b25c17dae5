\* INITPROC and three more TCBs: a shell that stays, and below it a parent
\* that exits before its child, so that orphans keep reaching INITPROC, and
\* a pid that is recycled while the others live.
CONSTANTS
    INITPROC = INITPROC
    t1 = t1
    t2 = t2
    t3 = t3
    Task = {INITPROC, t1, t2, t3}
    None = None
SPECIFICATION ISpec
INVARIANTS
    OnlyInitprocExitPanics
    OnePlace
    FamilyTree
    PidMapExact
    PidsPartitioned
PROPERTIES
    ImplementsProcesses
    ReadyRuns
    OrphansCollected
