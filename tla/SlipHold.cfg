\* Three jobs that wait for each other, fail, time out, are cancelled and die.
CONSTANTS
    j1 = j1
    j2 = j2
    j3 = j3
    c1 = c1
    whole = whole
    PipelineSteps <- MCPipelineSteps
    AggregateSteps <- MCAggregateSteps
    ComponentStep <- MCComponentStep
    Components = {c1}
    Whole = whole
    PushParsed = "push_parsed"
    GateEnabled = TRUE
    Reports <- MCReports
    StepWrites = {"pending", "held", "running", "completed", "failed", "aborted", "timeout"}
    SlipWrites = {"in_progress", "failed", "completed"}
    Expectations = {}
    Clients = {j1, j2, j3}
    StepCalls <- NoCalls
    PostCalls <- NoCalls
    SkipCalls <- NoCalls
    CloseCalls = {}
    Faults = TRUE
    MaxCalls = 3
    Setups <- MCSetups
SPECIFICATION FairHoldSpec
INVARIANTS
    HoldInv
    NoCircularWait
PROPERTIES
    EveryWaitEnds
\* The number of jobs started is bounded.
CHECK_DEADLOCK FALSE
