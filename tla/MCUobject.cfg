SPECIFICATION Spec
CONSTANTS
    Threads = {t1, t2}
    Uobjs = {u1, u2, f1}
    FdUobjs = {f1}
    Handles = {h1, h2}
    Free = Free
    Null = Null
SYMMETRY Symm
CHECK_DEADLOCK FALSE
INVARIANTS
    TypeOK
    UsecntIsALock
    KrefIsExact
    HwObjectStable
    CleanupMeetsNoCommand
    FdReleaseGetsLock
    RemovalLeavesNothing
    ReleaseFindsNoHw
PROPERTIES
    FreedStaysFreed
    NoCreationAfterGrace
