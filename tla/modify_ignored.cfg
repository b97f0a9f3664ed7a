SPECIFICATION Spec
CONSTANTS
    SeaLimit = 1
    Yards <- MCYards
    Fleets = {1, 2}
    Rooms = {1}
    Asked <- MCAsked
    Reports <- MCReports
PROPERTIES
    ModificationKept
CHECK_DEADLOCK FALSE
