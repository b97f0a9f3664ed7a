SPECIFICATION LiveSpec
CONSTANTS
    SeaLimit = 1
    Yards <- MCYards
    Fleets = {1, 2}
    Rooms = {1}
    Asked <- MCAsked
    Reports <- MCReports
INVARIANTS
    TypeOK
    SplitCoversYard
    DispatchFits
    NobodyLeftBehind
    ConflictIsOwn
PROPERTIES
    TripsSuffice
    GuardedTwice
    RetriedUntilDone
