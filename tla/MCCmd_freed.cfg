SPECIFICATION Spec
CONSTANTS
    Ents = {e1, e2}
    Scenarios <- Windows
    Null = Null
SYMMETRY Symm
CHECK_DEADLOCK FALSE
INVARIANTS
    UsedIsAllocated
