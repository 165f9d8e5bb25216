--------------------------- MODULE PostgresMigrator ---------------------------
(***************************************************************************)
(* Processes that connect to a database with retryConnect and then migrate *)
(* its schema: RunPostgresMigrations (CreateTables, then MigrateToVersion) *)
(* or MigrateToVersion alone.  A migration and the version it records      *)
(* commit together; between two migrations anything may fail and anyone    *)
(* may run.                                                                *)
(***************************************************************************)
EXTENDS Integers, Sequences, FiniteSets

CONSTANTS
    Migrators,   \* processes
    Migrations,  \* by version: what the SQL needs, makes, is pinned by, takes
    Ensurers,    \* the same of the ensurers, in their order
    Irreversible,\* versions without DownSQL
    Jobs,        \* <<job, target>>: "run" is RunPostgresMigrations, "to" MigrateToVersion
    Retries,     \* Len(DefaultConnectRetryIntervals)
    MaxJobs      \* bound: jobs started

Versions == DOMAIN Migrations
Latest == Len(Migrations)
JobKinds == {"run", "to"}

ASSUME MigratorAssumption ==
    /\ Irreversible \subseteq Versions
    /\ Jobs \subseteq JobKinds \X (0..Latest)
    /\ Retries \in Nat /\ MaxJobs \in Nat

\* A down takes what its own up or a later one made, nothing older.
ASSUME MigrationsAssumption ==
    /\ Latest \in Nat /\ Versions = 1..Latest
    /\ DOMAIN Ensurers \subseteq Nat
    /\ \A v, w \in Versions : w < v => Migrations[v].takes \cap Migrations[w].makes = {}

VARIABLES
    schema,   \* the objects that exist
    table,    \* does the schema_version table exist?
    recorded, \* version of its newest row, 0 when it has none
    pc,       \* where each process is
    job,      \* <<job, target>> it was started with
    tries,    \* connection retries made
    pool,     \* connection pools it holds open
    todo,     \* versions, or ensurers, its loop has still to run
    jobs      \* jobs started

connVars == <<tries, pool>>
vars == <<schema, table, recorded, pc, job, tries, pool, todo, jobs>>

LeastOf(S) == CHOOSE v \in S : \A w \in S : v <= w
GreatestOf(S) == CHOOSE v \in S : \A w \in S : v >= w

Target(p) == job[p][2]

\* The intended deployment is one migrator at a time; CreateTables allows for
\* a double run.  A job that may revert something runs alone.
MayRevert(j) == j[2] < Latest
Running(p) == pc[p] \notin {"idle", "done", "failed"}
RunsAlone(p, j) ==
    \A q \in Migrators \ {p} : Running(q) => ~MayRevert(j) /\ ~MayRevert(job[q])

Init ==
    /\ schema = {} /\ table = FALSE /\ recorded = 0
    /\ pc = [p \in Migrators |-> "idle"]
    /\ job = [p \in Migrators |-> <<"run", Latest>>]
    /\ tries = [p \in Migrators |-> 0]
    /\ pool = [p \in Migrators |-> 0]
    /\ todo = [p \in Migrators |-> {}]
    /\ jobs = 0

Goto(p, l) == pc' = [pc EXCEPT ![p] = l]

Begin(p, j) ==
    /\ ~Running(p) /\ pool[p] = 0 /\ jobs < MaxJobs /\ RunsAlone(p, j)
    /\ jobs' = jobs + 1
    /\ job' = [job EXCEPT ![p] = j]
    /\ tries' = [tries EXCEPT ![p] = 0]
    /\ Goto(p, "dial")
    /\ UNCHANGED <<schema, table, recorded, pool, todo>>

-----------------------------------------------------------------------------
(***************************************************************************)
(* NewPostgresSession and retryConnect.                                    *)
(***************************************************************************)
NewPool(p) ==
    /\ pc[p] = "dial"
    /\ pool' = [pool EXCEPT ![p] = @ + 1]
    /\ Goto(p, "ping")
    /\ UNCHANGED <<schema, table, recorded, job, tries, todo, jobs>>

\* After a failed attempt: a transient error is retried while an interval of
\* the list is left, any other is returned.
AfterFailure(p, transient) ==
    IF transient /\ tries[p] < Retries THEN "backoff" ELSE "failed"

NoPool(p) ==
    /\ pc[p] = "dial"
    /\ \E transient \in BOOLEAN : Goto(p, AfterFailure(p, transient))
    /\ UNCHANGED <<schema, table, recorded, job, connVars, todo, jobs>>

PingSucceeds(p) ==
    /\ pc[p] = "ping"
    /\ Goto(p, IF job[p][1] = "run" THEN "create" ELSE "target")
    /\ UNCHANGED <<schema, table, recorded, job, connVars, todo, jobs>>

PingFails(p) ==
    /\ pc[p] = "ping"
    /\ pool' = [pool EXCEPT ![p] = @ - 1]
    /\ \E transient \in BOOLEAN : Goto(p, AfterFailure(p, transient))
    /\ UNCHANGED <<schema, table, recorded, job, tries, todo, jobs>>

\* Mutant: a retry is not counted.
RetryUncounted(p) ==
    /\ pc[p] = "backoff"
    /\ Goto(p, "dial")
    /\ UNCHANGED <<schema, table, recorded, job, connVars, todo, jobs>>

\* time.After(interval), or the context was cancelled first.
Retry(p) ==
    /\ pc[p] = "backoff"
    /\ tries' = [tries EXCEPT ![p] = @ + 1]
    /\ Goto(p, "dial")
    /\ UNCHANGED <<schema, table, recorded, job, pool, todo, jobs>>

CancelRetry(p) ==
    /\ pc[p] = "backoff"
    /\ Goto(p, "failed")
    /\ UNCHANGED <<schema, table, recorded, job, connVars, todo, jobs>>

-----------------------------------------------------------------------------
(***************************************************************************)
(* CreateTables and MigrateToVersion.                                      *)
(***************************************************************************)

\* Mutant: RunPostgresMigrations goes for the target at once.
NothingPending(p) ==
    /\ pc[p] = "create"
    /\ table' = TRUE
    /\ Goto(p, "target")
    /\ UNCHANGED <<schema, recorded, job, connVars, todo, jobs>>

CreateSchemaVersionTable(p) ==
    /\ pc[p] = "create"
    /\ table' = TRUE
    /\ Goto(p, "pending")
    /\ UNCHANGED <<schema, recorded, job, connVars, todo, jobs>>

\* GetSchemaVersion in CreateTables: all newer migrations are pending.
ReadPending(p) ==
    /\ pc[p] = "pending"
    /\ todo' = [todo EXCEPT ![p] = {v \in Versions : v > recorded}]
    /\ Goto(p, "apply")
    /\ UNCHANGED <<schema, table, recorded, job, connVars, jobs>>

\* GetSchemaVersion in MigrateToVersion: up, down, or nothing to do.
ReadForTarget(p) ==
    /\ pc[p] = "target"
    /\ LET up   == {v \in Versions : recorded < v /\ v <= Target(p)}
           down == {v \in Versions : Target(p) < v /\ v <= recorded}
       IN  /\ todo' = [todo EXCEPT ![p] = IF Target(p) > recorded THEN up ELSE down \ Irreversible]
           /\ Goto(p, IF Target(p) > recorded THEN "raise" ELSE "revert")
    /\ UNCHANGED <<schema, table, recorded, job, connVars, jobs>>

\* The row counts only if its id is the highest: another migrator's
\* transaction may have drawn a higher one and committed first.
Records(p, v) ==
    \/ recorded' = v
    \/ (\E q \in Migrators \ {p} : Running(q)) /\ UNCHANGED recorded

\* Mutant: the row says the version the loop is heading for.
RecordsTheLast(p) ==
    /\ pc[p] \in {"apply", "raise"} /\ todo[p] # {}
    /\ LET v == LeastOf(todo[p])
       IN  /\ Migrations[v].needs \subseteq schema /\ table
           /\ schema' = schema \cup Migrations[v].makes
           /\ Records(p, GreatestOf(todo[p]))
           /\ todo' = [todo EXCEPT ![p] = @ \ {v}]
    /\ UNCHANGED <<table, pc, job, connVars, jobs>>

\* applyMigrationWithTimeout: the SQL and its row, in one transaction.
ApplyMigration(p) ==
    /\ pc[p] \in {"apply", "raise"} /\ todo[p] # {}
    /\ LET v == LeastOf(todo[p])
       IN  /\ Migrations[v].needs \subseteq schema /\ table
           /\ schema' = schema \cup Migrations[v].makes
           /\ Records(p, v)
           /\ todo' = [todo EXCEPT ![p] = @ \ {v}]
    /\ UNCHANGED <<table, pc, job, connVars, jobs>>

\* What migrateDown records with a revert of v: the highest registered version
\* that is not above the target, whatever lies between.
PreviousVersion(v, t) ==
    LET kept == {w \in Versions : w < v /\ w <= t}
    IN  IF kept = {} THEN t ELSE GreatestOf(kept)

\* revertMigration, from the newest down.
RevertMigration(p) ==
    /\ pc[p] = "revert" /\ todo[p] # {}
    /\ LET v == GreatestOf(todo[p])
       IN  /\ Migrations[v].pinned \cap schema = {} /\ table
           /\ schema' = schema \ Migrations[v].takes
           /\ Records(p, PreviousVersion(v, Target(p)))
           /\ todo' = [todo EXCEPT ![p] = @ \ {v}]
    /\ UNCHANGED <<table, pc, job, connVars, jobs>>

StartEnsurers(p) ==
    /\ pc[p] = "apply" /\ todo[p] = {}
    /\ todo' = [todo EXCEPT ![p] = DOMAIN Ensurers]
    /\ Goto(p, "ensure")
    /\ UNCHANGED <<schema, table, recorded, job, connVars, jobs>>

\* runEnsurers: one statement each, no transaction around them.
RunEnsurer(p) ==
    /\ pc[p] = "ensure" /\ todo[p] # {}
    /\ LET e == LeastOf(todo[p])
       IN  /\ Ensurers[e].needs \subseteq schema
           /\ schema' = schema \cup Ensurers[e].makes
           /\ todo' = [todo EXCEPT ![p] = @ \ {e}]
    /\ UNCHANGED <<table, recorded, pc, job, connVars, jobs>>

CreateTablesDone(p) ==
    /\ pc[p] = "ensure" /\ todo[p] = {}
    /\ Goto(p, "target")
    /\ UNCHANGED <<schema, table, recorded, job, connVars, todo, jobs>>

\* MigrateToVersion returns nil, and so does the job.
Finish(p) ==
    /\ pc[p] \in {"raise", "revert"} /\ todo[p] = {}
    /\ Goto(p, "done")
    /\ UNCHANGED <<schema, table, recorded, job, connVars, todo, jobs>>

\* Any statement may fail, the data may refuse it (duplicate slips in v5, a
\* held claim in v6's down, a lock timeout), or the process dies: what
\* committed stays, the rest is rolled back.
Fail(p) ==
    /\ pc[p] \in {"create", "pending", "target", "apply", "raise", "revert", "ensure"}
    /\ Goto(p, "failed")
    /\ todo' = [todo EXCEPT ![p] = {}]
    /\ UNCHANGED <<schema, table, recorded, job, connVars, jobs>>

\* The caller closes the session it was given.
Close(p) ==
    /\ pc[p] \in {"done", "failed"} /\ pool[p] > 0
    /\ pool' = [pool EXCEPT ![p] = @ - 1]
    /\ Goto(p, "idle")
    /\ UNCHANGED <<schema, table, recorded, job, tries, todo, jobs>>

Connect(p) ==
    NewPool(p) \/ NoPool(p) \/ PingSucceeds(p) \/ PingFails(p) \/ Retry(p) \/ CancelRetry(p)

Migrate(p) ==
    \/ CreateSchemaVersionTable(p) \/ ReadPending(p) \/ ApplyMigration(p) \/ StartEnsurers(p)
    \/ RunEnsurer(p) \/ CreateTablesDone(p) \/ ReadForTarget(p) \/ RevertMigration(p)
    \/ Finish(p) \/ Fail(p) \/ Close(p)

Next == \E p \in Migrators : (\E j \in Jobs : Begin(p, j)) \/ Connect(p) \/ Migrate(p)

Spec == Init /\ [][Next]_vars

\* A process that is not dead goes on; its database calls answer or fail.
FairSpec == Spec /\ \A p \in Migrators : WF_vars(Connect(p) \/ Migrate(p))

-----------------------------------------------------------------------------
Labels == {"idle", "dial", "ping", "backoff", "create", "pending", "apply", "ensure",
           "target", "raise", "revert", "done", "failed"}

Objects ==
    (UNION {Migrations[v].makes : v \in Versions}) \cup (UNION {Ensurers[e].makes : e \in DOMAIN Ensurers})

\* Every variable has the type the code gives it.
TypeOK ==
    /\ schema \subseteq Objects /\ table \in BOOLEAN /\ recorded \in 0..Latest
    /\ pc \in [Migrators -> Labels]
    /\ job \in [Migrators -> JobKinds \X (0..Latest)]
    /\ tries \in [Migrators -> 0..Retries]
    /\ pool \in [Migrators -> 0..1]
    /\ todo \in [Migrators -> SUBSET (Versions \cup DOMAIN Ensurers)]
    /\ jobs \in 0..MaxJobs

Applied(v) == Migrations[v].makes \subseteq schema

\* Whatever failed half-way, and however two up-runs interleave, the database
\* has every migration the version table says it has: the next run, which
\* starts after that version, leaves none out.
RecordedIsApplied == \A v \in Versions : v <= recorded => Applied(v)

\* A process that waits to connect again, or was closed, holds no pool.
NoPoolLeaks ==
    \A p \in Migrators : pc[p] \in {"dial", "backoff", "idle"} => pool[p] = 0

\* The database and the processes that migrate it.
MigratorInv == TypeOK /\ RecordedIsApplied /\ NoPoolLeaks

\* Every version can be reverted, and its down takes something its up made.
DownsUndo ==
    /\ Irreversible = {}
    /\ \A v \in Versions : Migrations[v].makes \cap Migrations[v].takes # {}

AtTarget(t) == \A v \in Versions : (v <= t) = Applied(v)

\* When RunPostgresMigrations returns nil the schema is the target's: all of
\* it and nothing newer, even when an earlier job stopped half-way through a
\* revert, or another up-run failed beside it.
RunReachesTarget ==
    [][\A p \in Migrators :
          Running(p) /\ pc'[p] = "done" /\ job[p][1] = "run" => AtTarget(Target(p))]_vars

\* Every job ends: the retries are bounded and no migration waits for another.
EveryJobEnds == \A p \in Migrators : Running(p) ~> ~Running(p)
=============================================================================
