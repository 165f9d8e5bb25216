\* Pushes racing with each other, with runs and with claimants, and failing; a
\* delivery may be retried while its first push goes on.
SPECIFICATION FairSpec
CONSTANTS
    Ids = {"a", "b"}
    Pushes <- MCPushes
    IdOf <- MCPushIds
    Dispatching <- MCOnlyA
    Stated <- MCStated
    RunStatuses <- MCRunStatuses
    Expectations <- MCExpectations
    Overlap = TRUE
    Meanwhile = TRUE
    Faults = TRUE
INVARIANTS TypeOK BackstopFindsSlip
PROPERTIES PushSparesRuns EveryPushAnswers CommitKeepsOneSlip
\* Every push may fail before a slip is written.
CHECK_DEADLOCK FALSE
