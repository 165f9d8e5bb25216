\* Claims, whole-row writes, step writes and the roll-up of two components, in
\* both stores; the lookups over every table of three slips.
CONSTANTS
    c1 = c1
    c2 = c2
    whole = whole
    PipelineSteps <- OnlyPushParsed
    AggregateSteps <- MCAggregateSteps
    ComponentStep <- MCComponentStep
    Components = {c1, c2}
    Whole = whole
    PushParsed = "push_parsed"
    GateEnabled = TRUE
    Reports <- MCReports
    StepWrites = {"running", "completed", "failed"}
    SlipWrites = {"failed", "completed"}
    Expectations <- MCExpectations
    Claimants = {"wf-a", "wf-b"}
    Ids = {1, 2, 3}
    Commits = {"k1", "k2"}
    SeedStatuses = {"in_progress", "failed", "abandoned"}
    Times = {1, 2}
    Searches <- MCSearches
SPECIFICATION MCSpec
INVARIANTS
    ClaimMarkerAgrees
    ColumnsMatchRows
    NoHiddenWork
    DoublesAgree
    LookupsSound
PROPERTIES
    ClaimEndsQuietly
    ClaimedRunSurvives
    ImplementsContract
