--------------------------- MODULE ClickhouseMigrator ---------------------------
(***************************************************************************)
(* Processes that connect to ClickHouse with retryOperation and then       *)
(* create, migrate or drop their tables.  ClickHouse has no transactions:  *)
(* a migration's SQL and its schema_version row are two statements, and so *)
(* are the tables DropTables drops.  A row carries now(), which has whole  *)
(* seconds, and the version is read from a row of the newest second.       *)
(*                                                                         *)
(* Migration v is taken to make one table, named v.                        *)
(***************************************************************************)
EXTENDS Integers, Sequences, FiniteSets

CONSTANTS
    Processes,      \* migrating processes
    ChLatest,       \* migrations are 1..ChLatest
    ChIrreversible, \* versions without DownSQL
    ExpectedTables, \* as a sequence: what DropTables drops, and what is validated
    ChJobs,         \* <<"create", 0>>, <<"drop", 0>>, <<"to", target>>
    ChRetries,      \* Len(DefaultRetryIntervals)
    ChMaxJobs       \* bound: jobs started

\* Table 0 is schema_version.
VersionTable == 0
ChVersions == 1..ChLatest
Tables == 0..ChLatest

ASSUME ChAssumption ==
    /\ ChLatest \in Nat /\ ChRetries \in Nat /\ ChMaxJobs \in Nat
    /\ ChIrreversible \subseteq ChVersions
    /\ ExpectedTables \in Seq(Tables)
    /\ ChJobs \subseteq {<<"create", 0>>, <<"drop", 0>>} \cup ({"to"} \X (0..ChLatest))

\* DropTables drops the version table before any other. The default list, of the
\* version table alone, is like that; nothing makes a list that is given so.
VersionTableLast ==
    \A i \in DOMAIN ExpectedTables :
        ExpectedTables[i] # VersionTable =>
            \E j \in DOMAIN ExpectedTables : j > i /\ ExpectedTables[j] = VersionTable

VARIABLES
    tables,   \* the tables that exist
    newest,   \* versions of the rows of schema_version's newest second
    ticked,   \* has the clock's second moved on since?
    at,       \* where each process is
    task,     \* the job it was started with
    attempt,  \* connection retries made
    open,     \* connection pools it holds
    work,     \* tables its loop has still to make, revert or drop
    started,  \* jobs started
    reverted  \* auxiliary: has a DownSQL ever run?

chVars == <<tables, newest, ticked, at, task, attempt, open, work, started, reverted>>
dbVars == <<tables, newest, ticked, reverted>>

Lowest(S) == CHOOSE v \in S : \A w \in S : v <= w
Highest(S) == CHOOSE v \in S : \A w \in S : v >= w

Active(p) == at[p] \notin {"idle", "done", "failed"}

\* CreateTables may run twice at a time; what takes tables away runs alone.
Exclusive(j) == j[1] # "create"

ChInit ==
    /\ tables = {} /\ newest = {} /\ ticked = TRUE /\ reverted = FALSE
    /\ at = [p \in Processes |-> "idle"]
    /\ task = [p \in Processes |-> <<"create", 0>>]
    /\ attempt = [p \in Processes |-> 0]
    /\ open = [p \in Processes |-> 0]
    /\ work = [p \in Processes |-> {}]
    /\ started = 0

Go(p, l) == at' = [at EXCEPT ![p] = l]

Start(p, j) ==
    /\ ~Active(p) /\ open[p] = 0 /\ started < ChMaxJobs
    /\ \A q \in Processes \ {p} : Active(q) => ~Exclusive(j) /\ ~Exclusive(task[q])
    /\ started' = started + 1
    /\ task' = [task EXCEPT ![p] = j]
    /\ attempt' = [attempt EXCEPT ![p] = 0]
    /\ Go(p, "dial")
    /\ UNCHANGED <<dbVars, open, work>>

-----------------------------------------------------------------------------
(***************************************************************************)
(* ClickhouseSession.Connect under retryOperation.                         *)
(***************************************************************************)
\* What follows a failed attempt.
AfterError(p, transient) ==
    IF transient /\ attempt[p] < ChRetries THEN "backoff" ELSE "failed"

FirstLabel(j) ==
    CASE j[1] = "create" -> "version table"
      [] j[1] = "drop"   -> "list"
      [] j[1] = "to"     -> "target"

Dial(p) ==
    /\ at[p] = "dial"
    /\ \/ Go(p, "ping") /\ open' = [open EXCEPT ![p] = @ + 1]
       \/ (\E transient \in BOOLEAN : Go(p, AfterError(p, transient))) /\ UNCHANGED open
    /\ UNCHANGED <<dbVars, task, attempt, work, started>>

\* A ping that fails closes its pool before it is tried again.
Ping(p) ==
    /\ at[p] = "ping"
    /\ \/ Go(p, FirstLabel(task[p])) /\ UNCHANGED open
       \/ /\ \E transient \in BOOLEAN : Go(p, AfterError(p, transient))
          /\ open' = [open EXCEPT ![p] = @ - 1]
    /\ UNCHANGED <<dbVars, task, attempt, work, started>>

\* The interval passes, or the context ends first.
Backoff(p) ==
    /\ at[p] = "backoff"
    /\ \/ Go(p, "dial") /\ attempt' = [attempt EXCEPT ![p] = @ + 1]
       \/ Go(p, "failed") /\ UNCHANGED attempt
    /\ UNCHANGED <<dbVars, task, open, work, started>>

-----------------------------------------------------------------------------
(***************************************************************************)
(* The version.                                                            *)
(***************************************************************************)
CreateVersionTable(p) ==
    /\ at[p] = "version table"
    /\ tables' = tables \cup {VersionTable}
    /\ Go(p, "pending")
    /\ UNCHANGED <<newest, ticked, reverted, task, attempt, open, work, started>>

\* GetSchemaVersion: of the rows that share the newest second, any; none is 0.
VersionRead(v) == IF newest = {} THEN v = 0 ELSE v \in newest

\* SetSchemaVersion's INSERT.
InsertVersion(v) ==
    /\ VersionTable \in tables
    /\ newest' = IF ticked THEN {v} ELSE newest \cup {v}
    /\ ticked' = FALSE

Tick == ~ticked /\ ticked' = TRUE
        /\ UNCHANGED <<tables, newest, reverted, at, task, attempt, open, work, started>>

-----------------------------------------------------------------------------
(***************************************************************************)
(* CreateTables and MigrateToVersion.                                      *)
(***************************************************************************)
GetPending(p) ==
    /\ at[p] = "pending"
    /\ \E v \in 0..ChLatest :
          VersionRead(v) /\ work' = [work EXCEPT ![p] = {w \in ChVersions : w > v}]
    /\ Go(p, "up")
    /\ UNCHANGED <<dbVars, task, attempt, open, started>>

MigrateTo(p) ==
    /\ at[p] = "target"
    /\ \E v \in 0..ChLatest :
          /\ VersionRead(v)
          /\ LET t == task[p][2]
             IN  IF t > v
                 THEN /\ work' = [work EXCEPT ![p] = (v + 1)..t]
                      /\ Go(p, "up")
                 ELSE /\ work' = [work EXCEPT ![p] = ((t + 1)..v) \ ChIrreversible]
                      /\ Go(p, "down")
    /\ UNCHANGED <<dbVars, task, attempt, open, started>>

\* Mutant: the version is recorded first, the SQL runs after it.
RecordFirst(p) ==
    /\ at[p] = "up" /\ work[p] # {}
    /\ InsertVersion(Lowest(work[p]))
    /\ Go(p, "up recorded")
    /\ UNCHANGED <<tables, reverted, task, attempt, open, work, started>>

\* applyMigrationWithTimeout: the UpSQL, which is idempotent ...
ExecUp(p) ==
    /\ at[p] = "up" /\ work[p] # {}
    /\ tables' = tables \cup {Lowest(work[p])}
    /\ Go(p, "up recorded")
    /\ UNCHANGED <<newest, ticked, reverted, task, attempt, open, work, started>>

\* ... and then its row.
RecordUp(p) ==
    /\ at[p] = "up recorded"
    /\ InsertVersion(Lowest(work[p]))
    /\ work' = [work EXCEPT ![p] = @ \ {Lowest(@)}]
    /\ Go(p, "up")
    /\ UNCHANGED <<tables, reverted, task, attempt, open, started>>

ExecDown(p) ==
    /\ at[p] = "down" /\ work[p] # {}
    /\ tables' = tables \ {Highest(work[p])}
    /\ reverted' = TRUE
    /\ Go(p, "down recorded")
    /\ UNCHANGED <<newest, ticked, task, attempt, open, work, started>>

\* previousVersion: the registered version nearest below that the target
\* allows, which is the target itself.
RecordDown(p) ==
    /\ at[p] = "down recorded"
    /\ InsertVersion(task[p][2])
    /\ work' = [work EXCEPT ![p] = @ \ {Highest(@)}]
    /\ Go(p, "down")
    /\ UNCHANGED <<tables, reverted, task, attempt, open, started>>

\* runEnsurers (idempotent, one statement each), and the return.
Return(p) ==
    /\ at[p] \in {"up", "down", "drop"} /\ work[p] = {}
    /\ Go(p, "done")
    /\ UNCHANGED <<dbVars, task, attempt, open, work, started>>

-----------------------------------------------------------------------------
(***************************************************************************)
(* DropTables: the expected tables, last first.                            *)
(***************************************************************************)
ListTables(p) ==
    /\ at[p] = "list"
    /\ work' = [work EXCEPT ![p] = DOMAIN ExpectedTables]
    /\ Go(p, "drop")
    /\ UNCHANGED <<dbVars, task, attempt, open, started>>

Dropped(t) ==
    /\ tables' = tables \ {t}
    /\ newest' = IF t = VersionTable THEN {} ELSE newest
    /\ UNCHANGED <<ticked, reverted>>

\* Mutant: the tables are dropped in the order they are listed.
DropFirst(p) ==
    /\ at[p] = "drop" /\ work[p] # {}
    /\ Dropped(ExpectedTables[Lowest(work[p])])
    /\ work' = [work EXCEPT ![p] = @ \ {Lowest(@)}]
    /\ UNCHANGED <<at, task, attempt, open, started>>

DropTable(p) ==
    /\ at[p] = "drop" /\ work[p] # {}
    /\ Dropped(ExpectedTables[Highest(work[p])])
    /\ work' = [work EXCEPT ![p] = @ \ {Highest(@)}]
    /\ UNCHANGED <<at, task, attempt, open, started>>

\* A statement fails or times out, or the process dies: nothing is undone.
Stop(p) ==
    /\ at[p] \notin {"idle", "done", "failed", "dial", "ping", "backoff"}
    /\ Go(p, "failed")
    /\ work' = [work EXCEPT ![p] = {}]
    /\ UNCHANGED <<dbVars, task, attempt, open, started>>

\* The owner of the session closes it.
CloseSession(p) ==
    /\ at[p] \in {"done", "failed"} /\ open[p] > 0
    /\ open' = [open EXCEPT ![p] = @ - 1]
    /\ Go(p, "idle")
    /\ UNCHANGED <<dbVars, task, attempt, work, started>>

ChStep(p) ==
    \/ Dial(p) \/ Ping(p) \/ Backoff(p)
    \/ CreateVersionTable(p) \/ GetPending(p) \/ MigrateTo(p)
    \/ ExecUp(p) \/ RecordUp(p) \/ ExecDown(p) \/ RecordDown(p) \/ Return(p)
    \/ ListTables(p) \/ DropTable(p) \/ Stop(p) \/ CloseSession(p)

ChNext == Tick \/ \E p \in Processes : (\E j \in ChJobs : Start(p, j)) \/ ChStep(p)

ChSpec == ChInit /\ [][ChNext]_chVars

-----------------------------------------------------------------------------
ChLabels == {"idle", "dial", "ping", "backoff", "version table", "pending", "up", "up recorded",
           "target", "down", "down recorded", "list", "drop", "done", "failed"}

\* Every variable has the type the code gives it.
ChTypeOK ==
    /\ tables \subseteq Tables /\ newest \subseteq 0..ChLatest
    /\ ticked \in BOOLEAN /\ reverted \in BOOLEAN
    /\ at \in [Processes -> ChLabels]
    /\ task \in [Processes -> ChJobs \cup {<<"create", 0>>}]
    /\ attempt \in [Processes -> 0..ChRetries] /\ open \in [Processes -> 0..1]
    /\ work \in [Processes -> SUBSET (ChVersions \cup DOMAIN ExpectedTables)]
    /\ started \in 0..ChMaxJobs

\* Until something is reverted, whatever version a process reads - one of two
\* that tie, one that another process wrote, one that a DropTables which stopped
\* half-way left - every migration up to it is there: re-running a migration is
\* the worst that a crash between the SQL and its row, or a tie, leads to.
VersionIsApplied ==
    ~reverted => \A v \in newest, w \in ChVersions : w <= v => w \in tables

\* A process that waits to connect again, or was closed, holds no connection.
NoSessionLeaks == \A p \in Processes : at[p] \in {"dial", "backoff", "idle"} => open[p] = 0

\* The database and the processes that migrate it.
ChInv == ChTypeOK /\ VersionIsApplied /\ NoSessionLeaks

\* interfaces.go says of CreateTables that it "creates all required database
\* tables": when it returns nil, and nothing was ever reverted, they are there.
CreateTablesIsComplete ==
    [][\A p \in Processes :
          Active(p) /\ at'[p] = "done" /\ task[p][1] = "create" /\ ~reverted
              => ChVersions \subseteq tables]_chVars

=============================================================================
