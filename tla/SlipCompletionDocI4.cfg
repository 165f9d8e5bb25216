\* I4: the status of a completed slip does not change.
CONSTANTS
    p1 = p1
    p2 = p2
    whole = whole
    PipelineSteps <- FinalSteps
    AggregateSteps <- NoAggregates
    ComponentStep <- NoFunction
    Components = {}
    Whole = whole
    PushParsed = "push_parsed"
    GateEnabled = TRUE
    Reports <- FinalReports
    StepWrites = {"pending", "running", "completed", "failed", "aborted"}
    SlipWrites = {"in_progress", "failed", "completed", "abandoned", "promoted"}
    Expectations = {}
    Clients = {p1, p2}
    StepCalls <- FinalStepCalls
    PostCalls <- FinalPostCalls
    SkipCalls <- NoCalls
    CloseCalls = {"abandoned"}
    Faults = FALSE
    MaxCalls = 4
SPECIFICATION FairSpec
PROPERTIES
    CompletedIsImmutable
CHECK_DEADLOCK FALSE
