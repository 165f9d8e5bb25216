\* Pushes of a commit, of the commits after it, of a branch and of its merge.
SPECIFICATION Spec
CONSTANTS
    Ids = {"a", "a2", "b", "b2", "f", "f2", "m", "m2"}
    CommitOf <- MCCommitOf
    BranchOf <- MCBranchOf
    NoBranch = ""
    Pushes <- MCPushes
    IdOf <- MCIdOf
    Casts <- MCCasts
    Near <- MCNear
    Far <- MCFar
    Mentions <- MCMentions
    PRHead <- MCPRHead
    Outage = {"a2", "b2", "m2"}
    Flaky = {"b", "m"}
    RunStatuses <- MCRunStatuses
    Handlers <- MCHandlers
    RollbackStatuses = {"success", "failed"}
    Resolutions = {"deploy", "short", "unread"}
    RefOf <- MCRefOf
    TagOf <- MCTagOf
    LoadFails = {"unread"}
INVARIANTS
    TypeOK
    LinksAreSound
    SupersededHasSuccessor
PROPERTIES
    LineageSurvivesRepave
    RollbackSticks
    ImageAttaches
\* Pushes end, and nothing makes runs, handlers or deploys go on for ever.
CHECK_DEADLOCK FALSE
