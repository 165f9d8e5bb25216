\* Pushes racing only with each other.
SPECIFICATION Spec
CONSTANTS
    Ids = {"a", "b", "c"}
    Pushes <- MCRacers
    IdOf <- MCRacerIds
    Dispatching <- MCDispatching
    Stated <- MCStated
    RunStatuses <- MCRunStatuses
    Expectations <- MCExpectations
    Overlap = TRUE
    Meanwhile = FALSE
    Faults = FALSE
INVARIANTS RacingPushesSucceed
PROPERTIES DispatchedPushHasRun
