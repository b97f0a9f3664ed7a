SPECIFICATION Spec
CONSTANTS
    Invocations = {i1}
    Calls = {"T4", "T5", "dispatch", "hold"}
    MaxBatch = 1
    MaxBad = 1
    Triggers = {}
    Deferrable = {}
    Faulty = {}
    LongHolds = {FALSE}
    Conflicts = {TRUE, FALSE}
    Switches = TRUE
    Kinds = {"approve", "reject", "timeout"}
    Reasoned = {TRUE}
    LateAnswers = FALSE
    Expiry = TRUE
    MayAbort = TRUE
INVARIANTS
    TypeOK
    GateOrder
    ActionsApproved
    EscalationFirst
    EmergencyAfterDispatch
    RejectedStaysClosed
    ConsentBacksApproval
PROPERTIES
    ImplementsPipeline
CHECK_DEADLOCK FALSE
