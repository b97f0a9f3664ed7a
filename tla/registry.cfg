SPECIFICATION LiveSpec
CONSTANTS
    Ids = {"a", "b"}
    MaxRuns = 1
INVARIANTS
    TypeOK
    RegistryBounded
    ReportIsCurrent
PROPERTIES
    ResetIsFinal
    EvictsOldest
    StartedIsReported
CHECK_DEADLOCK FALSE
