SPECIFICATION MockSpec
CONSTANTS
    Invocations = {i1}
    Calls = {"T1", "T2", "T3", "T4", "hold", "dispatch", "dispatch_delta", "T5", "T5_2", "notify_dispatch", "notify_hold", "notify_tuas"}
    MaxBatch = 3
    MaxBad = 3
    Triggers = {"stale"}
    Deferrable = {"stale"}
    Faulty = {}
    LongHolds = {FALSE}
    Conflicts = {TRUE, FALSE}
    Switches = TRUE
    Kinds = {"approve", "reject", "modify", "timeout"}
    Reasoned = {TRUE}
    LateAnswers = TRUE
    Expiry = TRUE
    MayAbort = FALSE
INVARIANTS
    DispatchedOnce
CHECK_DEADLOCK FALSE
