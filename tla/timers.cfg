SPECIFICATION LiveSpec
CONSTANTS
    Runs = {"a", "b"}
    Invocations = {i1, i2}
    LastGate = 2
    Tasks = {t1, t2, t3, t4}
    Races = FALSE
    Resets = {{"a", "b"}}
INVARIANTS
    TypeOK
    WaitingIsTimed
    RegistryIsExact
PROPERTIES
    NoFalseAlarm
    SilenceIsAnnounced
CHECK_DEADLOCK FALSE
