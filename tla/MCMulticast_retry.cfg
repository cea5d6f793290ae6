SPECIFICATION Spec
CONSTANTS
    Groups = {g1}
    Members = {m1}
    Types = {"full", "send"}
    Zero = Zero
    PkeyIndices = {1}
    Retries = 1
    X = X
    Y = Y
    Scenarios <- LossyScenarios
    Null = Null
CHECK_DEADLOCK FALSE
INVARIANTS
    GroupOutlivesHandlers
