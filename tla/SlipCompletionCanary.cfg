\* Two clients race on the canary and the steps its failure skips, gate off.
CONSTANTS
    p1 = p1
    p2 = p2
    whole = whole
    PipelineSteps <- CanarySteps
    AggregateSteps <- NoAggregates
    ComponentStep <- NoFunction
    Components = {}
    Whole = whole
    PushParsed = "push_parsed"
    GateEnabled = FALSE
    Reports <- CanaryReports
    StepWrites = {"pending", "running", "completed", "failed", "skipped"}
    SlipWrites = {"in_progress", "failed", "completed"}
    Expectations = {}
    Clients = {p1, p2}
    StepCalls <- CanaryStepCalls
    PostCalls <- CanaryPostCalls
    SkipCalls <- CanarySkipCalls
    CloseCalls = {}
    Faults = FALSE
    MaxCalls = 5
SPECIFICATION RunSpec
INVARIANTS
    NoStaleCanarySkip
SYMMETRY Perms
CHECK_DEADLOCK FALSE
