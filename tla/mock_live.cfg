SPECIFICATION AttendedSpec
CONSTANTS
    Invocations = {i1}
    Calls = {"T1", "T2", "T3", "T4", "hold", "dispatch", "dispatch_delta", "T5", "T5_2", "notify_dispatch", "notify_hold", "notify_tuas"}
    MaxBatch = 3
    MaxBad = 0
    Triggers = {}
    Deferrable = {}
    Faulty = {}
    LongHolds = {TRUE, FALSE}
    Conflicts = {TRUE, FALSE}
    Switches = FALSE
    Kinds = {"approve", "reject", "modify", "unknown"}
    Reasoned = {TRUE, FALSE}
    LateAnswers = FALSE
    Expiry = FALSE
    MayAbort = FALSE
PROPERTIES
    EveryInvocationEnds
    ApprovalsComplete
CHECK_DEADLOCK FALSE
