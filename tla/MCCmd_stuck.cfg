SPECIFICATION FairSpec
CONSTANTS
    Ents = {e1, e2}
    Scenarios <- LateAndDying
    Null = Null
CHECK_DEADLOCK FALSE
PROPERTIES
    FlushEnds
