\* Racing goroutines, pages of one, ClearCache and a changing list of
\* installations; the first-parent filter over every small history.
SPECIFICATION FairSpec
CONSTANTS
    Callers = {"g1", "g2"}
    Orgs = {"acme", "beta"}
    PageSize = 1
    OverFetch = 2
    MaxFetch = 3
    Commits = {1, 2, 3, 4}
    NoCommit = 0
    Scenarios <- MCScenarios
INVARIANTS
    CachesAreSound
    NotFoundIsTrue
    AncestryIsFirstParentChain
PROPERTIES
    EveryCallAnswers
