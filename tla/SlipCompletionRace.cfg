\* Two clients race to the end of the pipeline, with faults, deaths and an
\* operator who abandons the slip.
CONSTANTS
    p1 = p1
    p2 = p2
    whole = whole
    PipelineSteps <- FinalSteps
    AggregateSteps <- NoAggregates
    ComponentStep <- NoFunction
    Components = {}
    Whole = whole
    PushParsed = "push_parsed"
    GateEnabled = TRUE
    Reports <- FinalReports
    StepWrites = {"pending", "running", "completed", "failed", "aborted"}
    SlipWrites = {"in_progress", "failed", "completed", "abandoned", "promoted"}
    Expectations = {}
    Clients = {p1, p2}
    StepCalls <- FinalStepCalls
    PostCalls <- FinalPostCalls
    SkipCalls <- NoCalls
    CloseCalls = {"abandoned"}
    Faults = TRUE
    MaxCalls = 4
SPECIFICATION FairSpec
PROPERTIES
    ClosedIsFinal
    FreshVerdictSticks
    EveryCallReturns
CHECK_DEADLOCK FALSE
