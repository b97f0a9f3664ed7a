SPECIFICATION MockSpec
CONSTANTS
    Invocations = {i1, i2}
    Calls = {"T1", "T2", "T3", "T4", "hold", "dispatch", "dispatch_delta", "T5", "T5_2", "notify_dispatch", "notify_hold", "notify_tuas"}
    MaxBatch = 3
    MaxBad = 0
    Triggers = {}
    Deferrable = {}
    Faulty = {"dispatch", "hold", "T5"}
    LongHolds = {FALSE}
    Conflicts = {TRUE, FALSE}
    Switches = FALSE
    Kinds = {"approve", "reject", "modify"}
    Reasoned = {TRUE}
    LateAnswers = FALSE
    Expiry = FALSE
    MayAbort = TRUE
INVARIANTS
    NoticesAreTrue
    ConsentBacksApproval
SYMMETRY Symmetry
CHECK_DEADLOCK FALSE
