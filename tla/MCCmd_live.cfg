SPECIFICATION FairSpec
CONSTANTS
    Ents = {e1, e2}
    Scenarios <- LiveScenarios
    Null = Null
CHECK_DEADLOCK FALSE
PROPERTIES
    CommandsReturn
    AbortedReturn
    FlushEnds
