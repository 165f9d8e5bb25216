\* One client at a time: what the completion check concludes when no other
\* call overlaps it.
CONSTANTS
    p1 = p1
    p2 = p2
    whole = whole
    PipelineSteps <- SerialSteps
    AggregateSteps <- NoAggregates
    ComponentStep <- NoFunction
    Components = {}
    Whole = whole
    PushParsed = "push_parsed"
    GateEnabled = TRUE
    Reports <- SerialReports
    StepWrites = {"pending", "running", "completed", "failed", "aborted", "timeout", "skipped"}
    SlipWrites = {"in_progress", "failed", "completed", "abandoned", "promoted"}
    Expectations = {}
    Clients = {p1}
    StepCalls <- SerialStepCalls
    PostCalls <- SerialPostCalls
    SkipCalls <- SerialSkipCalls
    CloseCalls = {"abandoned"}
    Faults = FALSE
    MaxCalls = 6
SPECIFICATION RunSpec
INVARIANTS
    VerdictMatchesSteps
PROPERTIES
    GuardedFailureSticks
CHECK_DEADLOCK FALSE
