SPECIFICATION LiveSpec
CONSTANTS
    Runs = {a, b}
    Retries = 1
    Settings <- MCSettings
    NoRun = NoRun
INVARIANTS
    TypeOK
    StandInIsDue
    RequestsBounded
PROPERTIES
    EveryTurnConcludes
