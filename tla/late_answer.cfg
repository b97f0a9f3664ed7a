SPECIFICATION MockSpec
CONSTANTS
    Invocations = {i1}
    Calls = {"T1", "T2", "T3", "T4", "hold", "dispatch", "dispatch_delta", "T5", "T5_2", "notify_dispatch", "notify_hold", "notify_tuas"}
    MaxBatch = 3
    MaxBad = 0
    Triggers = {}
    Deferrable = {}
    Faulty = {}
    LongHolds = {FALSE}
    Conflicts = {FALSE}
    Switches = FALSE
    Kinds = {"approve"}
    Reasoned = {TRUE}
    LateAnswers = TRUE
    Expiry = FALSE
    MayAbort = FALSE
INVARIANTS
    ConsentBacksApproval
CHECK_DEADLOCK FALSE
