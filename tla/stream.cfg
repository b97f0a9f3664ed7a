SPECIFICATION Spec
CONSTANTS
    Pages = {p1}
    Streams = {s1}
    MaxBuffer = 2
    MaxEvents = 4
    MaxEpoch = 1
    MaxDrops = 3
INVARIANTS
    TypeOK
    FirstStreamIsExact
    NothingMissed
PROPERTIES
    EventsArrive
CHECK_DEADLOCK FALSE
