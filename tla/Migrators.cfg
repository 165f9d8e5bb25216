\* Two processes and three jobs in either database: up-runs side by side,
\* reverting and dropping ones alone.
SPECIFICATION MCSpec
CONSTANTS
    m1 = m1
    m2 = m2
    Migrators = {m1, m2}
    Migrations <- GenerateMigrations
    Ensurers <- GenerateEnsurers
    Irreversible <- NoneIrreversible
    Jobs <- AllJobs
    Retries = 1
    MaxJobs = 3
    Processes = {m1, m2}
    ChLatest = 2
    ChIrreversible = {2}
    ExpectedTables <- AllTables
    ChJobs <- AllChJobs
    ChRetries = 1
    ChMaxJobs = 3
INVARIANTS
    MigratorInv
    ReadyMeansMigrated
    ChInv
PROPERTIES
    RunReachesTarget
    EveryJobEnds
    CreateTablesIsComplete
\* All jobs may be over.
CHECK_DEADLOCK FALSE
