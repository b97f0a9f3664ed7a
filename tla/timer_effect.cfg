SPECIFICATION Spec
CONSTANTS
    Runs = {"a"}
    Invocations = {i1}
    LastGate = 2
    Tasks = {t1, t2}
    Races = FALSE
    Resets = {}
INVARIANTS
    TimeoutTakesEffect
CHECK_DEADLOCK FALSE
