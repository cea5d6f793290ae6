SPECIFICATION Spec
CONSTANTS
    Ents = {e1, e2, e3}
    Scenarios <- AllScenarios
    Null = Null
SYMMETRY Symm
CHECK_DEADLOCK FALSE
INVARIANTS
    TypeOK
    ToldOnce
    ZeroMeansExecuted
    FirmwareOwnsSlot
    SemIsExact
    CleanupWaits
    NothingLeaks
    RefsCoverUse
PROPERTY
    QuietSwitch
