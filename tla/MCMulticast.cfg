SPECIFICATION Spec
CONSTANTS
    Groups = {g1, g2}
    Members = {m1, m2}
    Types = {"full", "send"}
    Zero = Zero
    PkeyIndices = {1}
    Retries = 1
    X = X
    Y = Y
    Scenarios <- AllScenarios
    Null = Null
SYMMETRY Symm
CHECK_DEADLOCK FALSE
INVARIANTS
    TypeOK
    MemberRefIsExact
    RemovalWaitsForAll
    Serialized
    GroupRefIsExact
    ActiveIsJoined
    ToldOnce
