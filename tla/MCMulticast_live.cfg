SPECIFICATION FairSpec
CONSTANTS
    Groups = {g1}
    Members = {m1, m2}
    Types = {"full", "send"}
    Zero = Zero
    PkeyIndices = {1}
    Retries = 1
    X = X
    Y = Y
    Scenarios <- LiveScenarios
    Null = Null
CHECK_DEADLOCK FALSE
PROPERTIES
    JoinAnswered
    RemovalEnds
