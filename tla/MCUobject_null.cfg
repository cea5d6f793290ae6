SPECIFICATION Spec
CONSTANTS
    Threads = {t1, t2}
    Uobjs = {u1, f1}
    FdUobjs = {f1}
    Handles = {h1}
    Free = Free
    Null = Null
CHECK_DEADLOCK FALSE
INVARIANTS
    RefusedIsPut
