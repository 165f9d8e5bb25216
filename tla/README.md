# Verification of goLibMyCarrier

TLA+ models of the routing-slip library (`slippy`) of goLibMyCarrier and of the
packages it stands on, the TLC runs that check them on small instances, and
theorems about them proved with TLAPS. Paths below are relative to the
repository (`src/`).

A *routing slip* records one CI/CD pipeline run for one commit: its own status,
the status of every configured step, the components of the steps that have
components, a claim held by whoever runs it, and a history. Many processes
(CLI pre- and post-jobs, an API service, a push consumer, a rerunner, operators)
read and write it at once through a PostgreSQL store. No process owns it, so
what is hard is what one of them does with a slip that another has changed in
the meantime.

## 1. Inventory

| Part | State | Operations | Hard behaviour | What makes it correct | Here |
|---|---|---|---|---|---|
| Statuses and decisions (`slippy/status.go`, `aggregate_status.go`, `claim.go`) | none | predicates on statuses, the roll-up rule, `DecideClaim`, `DecideRelease`, `DecideReset`, `RunInFlight`, the marker guard | the same question ("ended?", "claimed?", "executing?") is answered by several encodings in Go and SQL | they agree wherever two of them meet | `SlipStatus` |
| The store's contract (`interfaces.go`, `slippytest/conformance.go`) | status, claim, newest marker | what any `SlipStore` promises of them | two implementations | both keep it | `SlipContract` |
| Store transactions (`postgres_store*.go`) | `routing_slips` (status, claim, step columns, aggregate items, history), `slip_component_states` | step writes behind the freshness gate, status writes, claim, release, create, reset in place, repave | columns cached from component rows; a claim recorded twice; late reports; row locks | I5, claim and marker agree, a claim protects the run | `SlipStore` |
| Lookups (`postgres_store.go`, `postgres_store_reads.go`) | the table of slips | by commit, live by commit, by a list of commits | several slips of a commit before migration v5 | a live slip is never hidden by an ended one | `SlipLookups` |
| Step operations and completion check (`steps.go`, `executor.go`, `client.go`) | that of the store; a caller's snapshot | wrappers of `UpdateStepWithStatus`, `SkipStep`, `RunPostExecution`, `AbandonSlip`, `PromoteSlip`, `checkPipelineCompletion` | read in one transaction, written in others; resets that fail; callers that die | I1-I4 of `STATE_MACHINE_V3.md` | `SlipCompletion` |
| Holds and prerequisites (`hold.go`, `prereqs.go`, `RunPreExecution`) | the held step; a deadline | hold, poll, abort, time out, start | a timeout racing a late answer; a waiter that dies; best-effort abort; jobs waiting for each other | every wait ends, no step is held by nobody, no circle of held steps | `SlipHold` |
| Pipeline configuration (`pipeline_config.go`) | none after load | validation, cycle detection, effective prerequisites | gates between a step and its prerequisites | no accepted pipeline can wait for itself | `PipelineConfig` |
| Push handling (`push.go`) | the commit's slips, a push's snapshot | `CreateSlipForPush`: reuse, create, reset in place, repave, duplicate backstop | deliveries of one commit racing each other, runs and claimants; retries of one delivery | one slip per commit, never none again; live and claimed slips untouched; every push ends | `SlipPush` |
| Ancestry (`push.go` `resolveAndAbandonAncestors`, `slip_ancestry`) | links between slips | abandon or promote the first open ancestor, link to it, carry and repoint links when a slip is repaved | writes other commits' slips before the push's own write; not undone when that fails | links name one existing run; a superseded slip has a successor | `SlipAncestry` |
| Rollback records (`rollback.go`, `postgres_store_rollbacks.go`) | `slip_rollbacks` | idempotent upsert, list | a retried exit handler | a success is not replaced | `SlipAncestry` |
| Slip resolution, history (`resolve.go`, `history.go`) | none | lookups by ancestry and image tag; filters | an image outlives its run | it is attached to its commit's slip | `SlipAncestry` (filters: not modelled) |
| Schema and startup (`postgres_migrations.go`, `postgres_migrate.go`, `ProbeSchema`) | the schema | eight migrations, two ensurers, the probe | a process starts on a half-migrated database | the probe passes a complete schema only | `SlipSchema` |
| `postgresmigrator`, connecting with `postgres` | `schema_version` and the schema; a pool | apply up, revert down, ensurers; a bounded retry | concurrent starts; a crash between migrations; a pool per attempt | what is recorded is applied; no pool leaks; every job ends | `PostgresMigrator` |
| `clickhousemigrator`, connecting with `clickhouse` | the same in ClickHouse | the same, without transactions; drop | SQL and version row are two statements; rows tie within a second | the same, as far as it holds | `ClickhouseMigrator` |
| `github` (`graphql.go`) | two caches under two mutexes | discovery page by page, `ClearCache`, ancestry, PR heads | racing goroutines, a list that changes while it is read | no token crosses organizations; a chain is the first-parent chain | `GitHubClient` |
| `slippy/slippytest` | a map in memory | a test double of the store | drifts from the store | answers as the store does | `MockStore`, `StoreDoubles`, `SlipLookups` |
| `argocdclient`, `kafka`, `vault`, `pollyapi`, `slippyapi`, `teamsbot`, `auth` | connections | clients of other services | none kept between calls that the slips depend on | | not modelled: I/O, decoding |
| `otel`, `logger` | exporters | logging, tracing | | | not modelled: formatting |
| `cievents`, `repocanon`, `workflowmark`, `yaml` | none | constructors, text handling | | | not modelled: text |

How they interact: clients (`Client`) call the store; every store write is one
transaction. Those on a slip's status, claim and steps take its row lock before they
read anything they decide on, so they are serial on a slip, and the calls, which make
several of them, are not. The exceptions are about links: `Repave` reads the slip's own
link before its DELETE takes the lock, and its repoint of the links that name the slip
sees those committed when it began; `writeAncestryLink` and `RecordRollback` are single
upserts under a foreign key. A step write on a
whole step with a terminal status is followed by a completion check. A job holds
its step, polls the store until the step's prerequisites are decided, and starts,
aborts or times out. A push reads the commit's slip without a lock, spends seconds
in GitHub looking for the commits before it, ends the nearest open slip among
theirs, and then writes its own; the store decides again under the lock and reports
what it refused (`ErrDuplicateSlip`, `ErrSlipWentLive`, `ErrSlipClaimed`).
Claimants (a rerunner, a CLI pre-job) claim a slip by flag, without touching its
status. Before any of it a process connects, migrates the schema or waits until
the probe passes.

## 2. Modules

| Module | Stands for | Extends or instantiates |
|---|---|---|
| `SlipStatus` | statuses, roll-up rule, claim decisions: operators only | |
| `SlipContract` | abstract: status, claim and markers of one slip, for any store | `SlipStatus` |
| `SlipStore` | the write transactions of `PostgresStore` on one slip | `SlipStatus`; implements `SlipContract` |
| `MockStore` | the same of the in-memory double | `SlipStatus` |
| `StoreDoubles` | both stores, given the same calls | `SlipStore`, `MockStore` |
| `SlipLookups` | the lookups of both stores over a table of slips | `SlipStatus` |
| `SlipCompletion` | concurrent client calls over those transactions | `SlipStore` |
| `PipelineConfig` | the configuration and its checks: operators only | |
| `SlipHold` | jobs that wait for prerequisites, over the client calls | `SlipCompletion`, `PipelineConfig` |
| `SlipPush` | `CreateSlipForPush`, several at once, for one commit | `SlipStatus` |
| `SlipAncestry` | what pushes of several commits do to each other's slips, the links, rollback records, resolution | `SlipStatus` |
| `SlipSchema` | slippy's migrations, ensurers and probe as data | |
| `PostgresMigrator`, `ClickhouseMigrator` | processes that connect and migrate | |
| `SlipStartup` | slippy's migrations run by the migrator, and the readiness probe | `PostgresMigrator`, `SlipSchema` |
| `GitHubClient` | the client the searches of a push use | |
| `MCSlipStore`, `MCSlipCompletion`, `MCSlipHold`, `MCSlipPush`, `MCSlipAncestry`, `MCMigrators`, `MCGitHubClient` | the instances TLC checks | the above |
| `SlipStoreProofs`, `SlipCompletionProofs`, `SlipHoldProofs`, `SlipPushProofs`, `SlipAncestryProofs`, `GitHubClientProofs` | theorems | the module of that name, `TLAPS`; `SlipHoldProofs` extends `SlipCompletionProofs`, and that `SlipStoreProofs` |
| `StoreDoublesProofs` | theorems on both stores and on the lookups | `StoreDoubles`, `SlipLookups`, `SlipStoreProofs` |
| `MigratorProofs` | theorems on both migrators and on startup | `SlipStartup`, `ClickhouseMigrator` |

Definitions with a comment beginning "Mutant:" are faulty variants of the
definition that follows them. No specification uses them: putting one in the
place of its original shows that the property it is listed with in
`PROJECT.json` can fail.

### SlipStore and SlipContract

One routing slip. `status`, `claimedFrom`, `col` and `items` are columns of its
row; `marker` is the newest claim or release marker of its history; `comp` is
`slip_component_states`; `fresh` says which terminal component rows are younger
than the freshness window, and `Age` lets them grow older; `present` says whether
there is a row. `synced` is auxiliary: the steps written since the row was last
written as a whole (an in-place reset keeps the component rows of the previous
attempt and rewrites the columns, `push.go` "Caveat 1", so I5 cannot hold for a
step nobody has written since).

| Action | Code |
|---|---|
| `UpdateStep` | `updateStepTx` with `upsertComponentState` (`GateAdmits`, `Touched`), `recomputeAggregate` (`Recompute`, `Merged`), `writeStepStatusColumn` (`WriteColumns`, `OwnColumn`), `GuardReservedStepWrite` |
| `SetComponentImageTag` | the same; it re-stamps the row, so it also makes a verdict fresh again |
| `UpdateSlipStatus`, `ClaimSlip`, `ReleaseClaim` | the same |
| `Create`, `ResetSlipInPlace` | the same, over the row `initializeSlipForPush` builds (`Seed`) |
| `Repaved` | the guarded DELETE of `Repave` and of its children |

Two abstractions matter. The rows `recomputeAggregate` reads come unordered, so
where a component was reported under both names of its aggregate the item that
stays is a free choice. The roll-up rule looks at each status alone, so a set of
statuses stands for the list. Messages, image tags, timings and history entries
that are no markers are left out. A transaction that rolls back is no step.
`AppendHistory` refuses markers and so changes nothing here; the full-row
`Update` has no caller in the package. `Create` over a row that exists is not a
step of this module: see `SlipPush`, "Overlap".

`SlipContract` keeps of all this the status, the claim, the newest marker and one
bit, whether anything executes; its actions are the promises of `interfaces.go`
that `slippytest.RunClaimContract` tests. `ImplementsContract` is its
specification with that bit defined as `RunInFlight`.

### MockStore, StoreDoubles and SlipLookups

`StoreDoubles` gives every call to both stores. `covered` turns false with the
first call for which the double is known to decide differently, and the comparison
is over from then on: reports of components (the double does no roll-up, and lets a
release through while a component runs), calls the freshness gate refuses (it has
none), steps the pipeline does not have (it counts them as in flight), and a
`push_parsed` started by a claimant (after a reset in place PostgreSQL still shows
the old one). Its component writes, full-row `Update` and `AppendHistory` are not
modelled. That the double keeps the contract follows from `DoublesAgree` and
`ImplementsContract`.

`SlipLookups` seeds a table row by row and compares each of PostgreSQL's four
queries, as the set of answers its ORDER BY admits, with the double's loop. Rows
are not updated after they are seeded: the double's `UpdateSlipStatus` and
`UpdateStep` do not touch `UpdatedAt`, so after an update its order may differ.

### SlipCompletion

`pc`, `checks`, `todo`, `verdict`, `allOrNone` and `skipping` are the local state
of each client's call, `canarySkips` what the history's latest entries say of the
canary-skippable steps, `calls` a bound. Each action is one store transaction of a
call, with the local computation that follows it:

| Action | Code |
|---|---|
| `UpdateStepWithStatus`, `RunPostExecution` | the step write of the call; a terminal status on a whole step then owes one check, `RunPostExecution` one more |
| `SkipStepGuard`, `SkipStepWrite` | `SkipStep`: guard on a load, then the write |
| `CloseLoad`, `CloseWrite` | `AbandonSlip` and `PromoteSlip` |
| `CompletionLoad` | the load of `checkPipelineCompletion` and all its branches |
| `ResetStep`, `ResetFails` | `resetStepsToPending`, step by step; the gate or the database refuses |
| `Conclude`, `ConcludeFails` | the status write, if the branch has one, and the return |
| `Die` | the caller is killed in mid-call |

A client that calls a step operation reads nothing first, so where it got the
idea to report does not matter: any call in the configured sets may start at any
time.

### SlipHold and PipelineConfig

A job is one client with one step of one pipeline: it holds the step (`Hold`) or
finds its prerequisites decided at once (`Skip`), polls (`Poll`, `PollFails`), and
then starts, aborts or times out its step, each a store transaction that may fail;
it works, reports (`RunPostExecution` of `SlipCompletion`) and may be run again.
`Deadline` is the passing of the hold's timeout, `Cancel` that of its context,
`JobDies` the end of its process. Polling reads one snapshot of the slip
(`PrereqResult`): a prerequisite's status is its column or, for a step of a
component, that component's own row (`getPrereqStatus`). `left` is auxiliary: the
steps whose waiter gave up without being able to write.

`PipelineConfig` has `Validate` with its cycle detection and the effective
prerequisites, which add to a step's own those of every gate before it.
`GetEffectivePrerequisites` has no caller outside tests in this repository; its
callers are the CLI's jobs, so what `RunPreExecution` is given is modelled from its
documentation.

Worth knowing, without a property of its own: the `AbortStep` and `TimeoutStep` of
a component make no completion check; and `WaitForPrerequisitesWithResult`
classifies errors by a substring, so a cancellation noticed at the top of the loop
is reported as `HoldOutcomeFailed`.

### SlipPush

The slips of one commit, by correlation id, each reduced to status, claim and
whether a step executes; and any number of pushes, each with the delivery it
belongs to. Deliveries have different ids (`interfaces.go`, `Create`); a retry has
its delivery's own. Actions are the store calls of `CreateSlipForPush`,
`handlePushRetry`, `createFreshSlip`, `resetSlipInPlace`, `repaveExistingSlip` and
`handleDuplicateSlipBackstop`, in the code's order; the store's answer is a
parameter that `Create`, `ResetSlipInPlace` and `Repave` determine. Between a
push's read and its write anything may happen: its run, operators and claimants
(`UpdateSlipStatus`, `UpdateStep`, `ClaimSlip`, `ReleaseClaim`) and other pushes.
Ancestor resolution touches other commits' slips only and is the gap between
`LoadByCommit` and the write; `SlipAncestry` has it. The branches for stores that
lack `Repave` or the locked reset (`ErrRepaveUnsupported`, `ErrResetUnsupported`)
are left out: `PostgresStore` has both.

`Overlap` allows a delivery to be retried while its first push still goes on.
Then `Create`'s upsert may meet a row that the other push has written, and
overwrites it even when it has been claimed since. `interfaces.go` documents this
upsert and why callers should reset through `ResetSlipInPlace` instead; the code
cannot exclude it, so `PushSparesRuns` claims nothing of a push's own slip under
`Overlap`. `BackstopReset` is taken under `Overlap` only, as the comment at that
arm of `push.go` says.

### SlipAncestry

Several commits. `Near` and `Far` are the first-parent histories GitHub answers
with at the two depths a push asks for, `Mentions` the pull requests its message
names, `PRHead` their heads; the history is acyclic and constant. `slips` is the
status of each slip, `link` its row of `slip_ancestry`, `rollback` the rows of
`slip_rollbacks`. A push loads, searches (`SearchAncestors`, step by step through
`Searches`; `SearchFails`), ends one ancestor (`Supersede`, `SupersedeWrite`),
creates or repaves (`CreateSlip`, `RepaveSlip`, `Backstop`), and links
(`WriteAncestryLink`). A repave carries the replaced slip's own link forward
(`Carried`) and rewrites those that name it (`Repoint`). It is one transaction at READ
COMMITTED, and three steps: `RepaveReads` reads the own link, before the DELETE and
without a lock; `RepointReads` is the snapshot of the UPDATE on `slip_ancestry`, which
misses links committed after it began; `RepaveSlip` makes the writes, or is refused.
Whatever the transaction writes it locks until it commits, so that all of it may
stand at the commit: what others do to these rows in between they do before the lock is
taken or after it is gone, and what they do before the lock is taken the model lets them
do. `RecordRollback` is the guarded upsert, `ResolveByAncestry` and `ResolveByImageTag`
the two ways of `ResolveSlip`. The text in an image tag (`TagOf`) is compared with whole
commits, so that an abbreviation finds nothing, and a load that fails (`LoadFails`) is
answered like one that finds nothing. `UpdateSlipStatus` has no guard: a completion
check with an old snapshot writes over whatever ended the slip.

Slips are not claimed here and every push starts a run: `SlipPush` has those
decisions. A push may overlap a redelivery of its id. `Outage` names the pushes
whose searches may fail, `Flaky` those whose writes may, and `Casts` which pushes
come together. `raced`, `late`, `had` and `supersededBy` are auxiliary: `raced` has
the slips repaved while a push held them, or had linked to them unseen by the repoint;
`late` the pushes that carry no link forward though their slip got one since they
looked.

### Schema and migrators

A schema is the set of objects that exist; a migration is what its SQL needs,
makes, is pinned by and takes away. `Fail` stands for every refusal: a failed
statement, duplicates that v5 meets, claims held at v6's down, a lock timeout, the
process's death. Up-runs may overlap (`CreateTables` documents two starts at
once); a job that may revert or drop runs alone, which is the deployment the
documentation assumes, and `RunsAlone` and `Exclusive` say so. `Records` lets
another migrator's version row win. In ClickHouse `ExecUp` and `RecordUp` are two
steps, `Tick` is the clock's second, and `VersionRead` may answer any version
recorded in the newest second.

Worth knowing, without a property: `MigrateToVersion` after an interrupted
`migrateDown` says "already at target" although migrations above it remain, in
both migrators, because the first revert records a version at or below the target
(`RunReachesTarget` is about `RunPostgresMigrations`, whose `CreateTables` applies
what remains before it reverts again); a ClickHouse migration may run twice, after
a crash between its SQL and its row or after a tie, although its `interfaces.go`
says "run once"; a crash between DownSQL and its row leaves a version recorded that
is not applied; `GetPostgresDynamicMigrationVersion` is 0 for a configuration
without steps, which reverts everything `CreateTables` has just made.

### GitHubClient

Each critical section and each request is an action; a cached client is known by
the installation it was built for. `NextPage` follows the Link header of the page
before; with page numbers an organization can be missed when another is removed
meanwhile, so `NotFoundIsTrue` promises only what holds then. A call under way
during `ClearCache` may put an old installation back, and a stale client fails its
query until the next `ClearCache`. `FetchDepth` and `FilterFirstParentChain` are
pure and are checked over every history of up to four commits. A negative depth
with a non-empty history panics in `make([]string, 0, depth)` although the fetch
clamps it; the slip code passes none.

## 3. Runs

All runs are exhaustive. `N` is the number of distinct states.

| Run | N | Shows |
|---|---|---|
| `SlipStore` | 55,724 | `ClaimMarkerAgrees`; `ColumnsMatchRows` (I5); `NoHiddenWork`; `ClaimEndsQuietly`; `ClaimedRunSurvives`; `ImplementsContract`; `DoublesAgree`; `LookupsSound` |
| `SlipCompletionSerial` | 38,074 | `VerdictMatchesSteps` (I1, I2 when calls do not overlap); `GuardedFailureSticks` |
| `SlipCompletionCanary` | 54,583 | `NoStaleCanarySkip` (scenario H), two clients |
| `SlipCompletionRace` | 39,235 | `ClosedIsFinal` (I4, as far as it holds); `FreshVerdictSticks`; `EveryCallReturns`, with faults and deaths |
| `SlipHold` | 131,534 | `HoldInv` (a held step is somebody's); `NoCircularWait`; `EveryWaitEnds` |
| `SlipPushRuns` | 415,096 | `TypeOK`; `BackstopFindsSlip`; `PushSparesRuns`; `CommitKeepsOneSlip`; `EveryPushAnswers`, with faults, retries overlapping |
| `SlipPushRace` | 30,681 | `RacingPushesSucceed`; `DispatchedPushHasRun`, pushes only, retries overlapping |
| `SlipAncestry` | 944,752 | `TypeOK`; `LinksAreSound`; `SupersededHasSuccessor`; `LineageSurvivesRepave`; `RollbackSticks`; `ImageAttaches` |
| `Migrators` | 297,603 | `MigratorInv`; `RunReachesTarget`; `ReadyMeansMigrated`; `EveryJobEnds`; `ChInv`; `CreateTablesIsComplete`, where the version table is dropped first |
| `GitHubClient` | 254,672 | `CachesAreSound`; `NotFoundIsTrue`; `AncestryIsFirstParentChain`; `EveryCallAnswers` |
| `SlipCompletionDocI4` | | violated: `CompletedIsImmutable` |
| `SlipHoldDocAbort` | | violated: `NoStrandedAbort` |

Bounds, and why they are enough:

- *SlipStore*: `push_parsed` and one aggregate with two components, of which one
  reports under both names, and reports on the aggregate as a whole: every way
  `recomputeAggregate` can meet a row, and one representative of each class of
  status the decisions tell apart. One aggregate, because a write reaches one
  (`RollsUpOnce`). The number of writes is not bounded. Claims with no
  precondition and a rerun's. The lookups: every table of up to three slips of two
  commits. The slip and the table share nothing, so either moves only while the
  other is in its initial state.
- *SlipCompletionSerial*: `MaxCalls` = 6 calls by one client on four steps:
  enough for fail, retry, skip and recover. Calls that would be refused are no step.
- *SlipCompletionCanary*: two clients and five calls: a canary failure, a skip by
  it, a retry, and two calls to overlap them. The gate is off, because a reset it
  refuses within 750 ms of the skip is documented (`STATE_MACHINE_V3.md`), and
  `VerdictMatchesSteps` covers that exception with the gate on.
- *SlipCompletionRace*: two clients and four calls, every call of which may fail
  and every client die.
- *SlipHold*: three jobs, started three times in all (four in `SlipHoldDocAbort`,
  which needs a retry), in every pipeline of three steps along one circle of
  prerequisites that `Validate` accepts, the first or the second of them a gate or
  neither, and in one pipeline with components. A circle of held steps needs no
  more than the steps on it. Gates that wait, directly or through others, for a step
  behind them are left out (`GatesInOrder`, and the section on the violations).
- *SlipPush...*: two deliveries with a retry each against three slip statuses (a
  live one, one that a rerun may continue, one that is over) and two kinds of
  claimant; or three deliveries and a retry on their own. Runs and claimants are
  not bounded, pushes are. Both runs have `Overlap`, without which
  `PushSparesRuns` says more; that, and the run's other properties but liveness, are
  proved for any pushes and either value of `Overlap`.
- *SlipAncestry*: four commits (a parent and a child, a branch too far for the near
  search, its squash merge) with two deliveries each, up to four pushes together
  in the combinations `Casts` names: each relation between two commits with a
  repave of either end, and of main's two commits with repaves of both, which is what
  carries a link forward that has gone stale. What each run's status may become is
  bounded by `RunStatuses`: every run but the last of main may fail, and those of the
  branch and its merge complete and reopen too. A repave in the middle of a chain
  of three is not among them.
- *Migrators*: two processes and three jobs: two up-runs side by side, and a third
  after whatever they left. Slippy's own eight migrations; in ClickHouse two, of
  which one is irreversible, and the version table last in the list of tables.
  Assumptions of `MCMigrators` have TLC check that these migrations and this list are
  of the kind the theorems below are about. `Retries` = 1. Either migrator moves while
  the other is in its initial state.
- *GitHubClient*: two goroutines with a request each over two organizations and
  two installation ids; one alone over three; and the ancestry query over every
  first-parent history of four commits at depths 0 to 3. Pages of one entry, and
  the code's factors scaled to `OverFetch` = 2 and `MaxFetch` = 3 so that the cap
  is reached.

Deadlock is checked where the system has no end (`SlipStore`, `SlipPushRace`,
`GitHubClient`). It is off where bounded calls, jobs or pushes come to an end
(`SlipCompletion...`, `SlipHold`, `SlipAncestry`, the migrators), and in
`SlipPushRuns`, where every push may fail before there is a slip.

Fairness is weak fairness of one caller's going on with what it has begun
(`Proceed`, `Advance`, `Connect` and `Migrate`, `Step`): a goroutine that is
neither blocked nor dead is scheduled, and the database or the service answers or
fails. In `SlipHold` time also passes (`Deadline`): the hold's timeout comes.
Nothing makes a client start a call, a claimant claim, or a delivery be retried,
and a death or a fault disables what was owed. No safety property depends on it.

### What the violations say

- I4 (`STATE_MACHINE_V3.md`, "`slip.status` change after `slip=completed`"):
  `AbandonSlip` and `PromoteSlip` check a snapshot and write blindly, as does the
  completion check. A call that read the slip open may overwrite completed.
  `ClosedIsFinal` is what is left: once such calls are over, nothing does.
- The same document says an aborted step is put back to pending when the last
  primary failure resolves. A waiter that polled the failure may write its abort
  after the failure was retried and its check has recovered the slip. The abort's
  own check finds a live slip without a primary failure and resets nothing, so the
  step stays aborted.

Further differences between the documentation and the code, found on the way:

- I1 ("`slip=in_progress` while any step is a primary failure"): a check whose
  snapshot is older than a failure writes in_progress after the failure's own check
  wrote failed. Nobody corrects it until the next terminal report.
- `executor.go:299`, "The reset only writes skipped -> pending": the reset was
  decided on a snapshot; a step started since is put back to pending.
- `STATE_MACHINE_V3.md:430-433`, "One exception": a push with the claimed row's own
  id is said to reset it in place when nothing is in flight. `DecideReset` and both
  paths of `push.go` refuse any claim now; the comment at `push.go:1694` still
  tells the older story.
- The same section says that `UpdateSlipStatus` appends no marker when a terminal
  status ends a claim. It appends `slip_released`, which is why `ClaimMarkerAgrees`
  holds in both directions.
- `README.md:464` promises "No circular dependencies". `Validate` looks at explicit
  prerequisites only: a gate that waits for a step behind it is accepted, that step
  waits for the gate, and both time out. It is enough that the gate gets there
  through others: gate 3 needs 2, and 2 states 4, which has gate 3 before it.
  `GatesInOrder` says what is missing, and `WaitsAreAcyclic` that nothing else is.
- `clickhousemigrator/interfaces.go` says that `CreateTables` creates all required
  tables and `DropTables` drops all. `DropTables` drops the expected tables only, and the
  example in its `doc.go` lists the application's tables without the version table.
  The version then outlives the tables, and the next `CreateTables` finds nothing
  pending and returns nil over a database without them. (`slippyExpectedTables`
  leaves the version table out too; slippy never drops its tables.)
- `interfaces.go:394-398` has the superseded run's link "carried forward to newSlip
  instead of being destroyed with the old row", and the comment at
  `postgres_store_updates.go:1001` says that reading it without the row lock
  "introduces no new race". It considers two repaves of one slip. The slip's first push
  writes its link after its slip, and a run that fails meanwhile lets another delivery
  repave it: where that delivery could not ask GitHub and read no link, and the first
  push's link is committed before the DELETE, the DELETE's cascade takes it and the
  successor has none. In the same window the repave of an ancestor may repoint the link
  that was read, which is then carried forward to a run that is gone.
  `LineageSurvivesRepave` and `DanglesOnlyByRace` leave room for exactly these (`late`,
  `raced`); without it TLC finds both.
- `resolve.go:191` lists a short SHA among the tags supported, and the pattern takes 7
  hexadecimal digits; `LoadByCommit` compares them with whole commits, so that a slip is
  never found by them. `resolve.go:159-176` answers `ErrSlipNotFound` when the
  load failed, too. `ImageAttaches` is about whole commits and loads that do not fail.
- A link's `parent_status` may say "abandoned" of a run that completed between the
  search and the call (`types.go:107` describes it as the parent's status).

Known and documented gaps that the properties leave room for: I3 for running
steps, the non-atomic guard of `SkipStep` (hence `GuardedFailureSticks` is checked
for calls that do not overlap), the gate's refusal of a canary reset, an in-place
reset over an unclaimed own row that went live (`push.go`, "Caveat 2"), ancestors
that stay ended for a push that then fails (D3.2), and a link that dangles when a
repave removes an ancestor that another push has already found, or whose link another
repave has already read.

## 4. Proofs

For every value of the constants that satisfies the named assumptions.

| Theorem | Module | States |
|---|---|---|
| `TypeCorrect` | `SlipStoreProofs` | `Spec => []TypeOK` |
| `ClaimAgreement` | | `Spec => []ClaimMarkerAgrees` |
| `ClaimEnds` | | `Spec => ClaimEndsQuietly` |
| `ClaimProtects` | | `Spec => ClaimedRunSurvives` |
| `Materialization` | | `Spec => []ColumnsMatchRows` |
| `WorkIsVisible` | | `Spec => []NoHiddenWork` |
| `VerdictsStick` | | `Spec => FreshVerdictSticks` |
| `StoreImplementsContract` | | `Spec => ImplementsContract`: the store refines the abstract slip |
| `DoubleIsFaithful` | `StoreDoublesProofs` | `DoublesSpec => []DoublesAgree` |
| `LookupsAreSound` | | `LookupsSpec => []LookupsSound` |
| `CallsUseTheStore` | `SlipCompletionProofs` | `RunSpec => Spec`: the calls implement the store |
| `RunTypeCorrect` | | `RunSpec => []RunTypeOK` |
| `ClosedStaysClosed` | | `RunSpec => ClosedIsFinal` |
| `NoSkipOutlivesCanary` | | `OpenCanaryRun`: `RunSpec => []NoStaleCanarySkip` |
| `VerdictIsBorneOut` | | `SerialRun`: `RunSpec => []VerdictMatchesSteps` |
| `GuardedFailuresStick` | | `SerialRun`: `RunSpec => GuardedFailureSticks` |
| `JobsUseTheStore` | `SlipHoldProofs` | `HoldSpec => Spec`: the waiting jobs implement the store |
| `HeldIsSomebodys` | | `HoldSpec => []HoldInv` |
| `WaitsAreAcyclic` | | `WaitsAreConfigured`: `HoldSpec => []NoCircularWait` |
| `PushTypeCorrect` | `SlipPushProofs` | `Spec => []TypeOK` |
| `BackstopMeetsSlip` | | `Spec => []BackstopFindsSlip` |
| `CommitNeverBare` | | `Spec => CommitKeepsOneSlip` |
| `RunsSpared` | | `Spec => PushSparesRuns` |
| `RacersSucceed` | | `~Meanwhile /\ ~Faults`: `Spec => []RacingPushesSucceed` |
| `DispatchersGetRuns` | | `~Meanwhile`: `Spec => DispatchedPushHasRun` |
| `LineageInvariant` | `SlipAncestryProofs` | `Spec => []LineageInv` |
| `StoreIsWellFormed` | | `Spec => []TypeOK` |
| `LineageIsSound` | | `Spec => []LinksAreSound` |
| `SupersededIsSucceeded` | | `Spec => []SupersededHasSuccessor` |
| `LineageSurvives` | | `Spec => LineageSurvivesRepave` |
| `RollbackIsKept` | | `Spec => RollbackSticks` |
| `ImageIsAttached` | | `Spec => ImageAttaches` |
| `MigratorInvariant` | `MigratorProofs` | `Spec => []MigratorInv` |
| `RunsEndAtTarget` | | `DownsUndo`: `Spec => RunReachesTarget` |
| `ReadyDatabaseIsComplete` | | `SlippyMigrates`: `Spec => []ReadyMeansMigrated` |
| `ClickhouseMigratorInvariant` | | `VersionTableLast`: `ChSpec => []ChInv` |
| `CreatedTablesAreThere` | | `VersionTableLast`: `ChSpec => CreateTablesIsComplete` |
| `CachesStaySound` | `GitHubClientProofs` | `Spec => []CachesAreSound` |
| `NotFoundMeansGone` | | `Spec => []NotFoundIsTrue` |
| `AncestryIsAChain` | | `Spec => []AncestryIsFirstParentChain` |

What stands before a colon is a hypothesis of that theorem; the paragraphs below say
why it is there.

Assumptions: `ConfigAssumption` (an aggregate's component step is the name of no
aggregate and belongs to one aggregate), `MigrationsAssumption` (versions are 1 to
the latest, and a down takes nothing that an older migration made), and the types of
the parameters: `WritesAssumption`, `CallsAssumption`, `SetupsAssumption`,
`PushAssumption`, `AncestryAssumption`, `LookupsAssumption`, `MigratorAssumption`,
`ChAssumption`, `GitHubAssumption`. TLC evaluates them in every run. The bounds on calls, jobs and
pushes are parameters too, so the theorems hold for any number of them.

*SlipStore.* The inductive invariant is `TypeOK` with three conjuncts. A row that
is gone keeps no claim, which is needed because `Create` does not write
`claimed_from`: without it a new slip could be born claimed, with no marker. Given
that, the claim and the marker change together in every action. I5 needs that a
write under one name leaves what is derived for every other step alone
(`ComponentWriteIsLocal`, `WholeWriteIsLocal`); this is where `ConfigAssumption` is
used. `NoHiddenWork` follows from `ItemsMatchRows`, which says more and is inductive:
where a component has a row under one of an aggregate's names only, that row is its
item, whichever row the merge takes last (`OnlyRowIsMerged`). A fresh verdict sticks
because only verdicts are fresh (`FreshIsTerminal`), so I5 ties the column to the row
that the gate guards. The refinement maps every action to the contract's action of its name, and a
step report to the change of the one bit it can make; a row that is gone or newly
seeded is quiet (`NoRowIsQuiet`, `SeedIsQuiet`).

*StoreDoubles.* `DoublesInv` says that the double, as long as the calls are of the
contract, is what a caller loads from PostgreSQL (`Shown`). That is inductive with
two facts: no component has a row and no item executes (`WholeStepsOnly`), so the
double's missing roll-up is not missed; and nobody is the claimant of `push_parsed`,
so a reset in place, which leaves the rows' claimants in PostgreSQL, shows none. The
calls are transactions of the store or nothing (`DoublesUseTheStore`), so what is
proved of `SlipStore` serves here: a row that is gone keeps no claim. What each
store refuses is written as a guard of its own (`Called`, `MayClaim` and the others).

*SlipLookups.* A sort is written by rank: the place of an element is the number of
those before it. Where the order is strict and total, every place is taken once and
the list is in order (`RankingSorts`, from the cardinalities of the sets of
predecessors). The double's orders are of that kind because ids differ
(`TieBreakIsStrict` and the lemmas after it), and refine PostgreSQL's, which leave
ties open; so its first row is one that nothing comes before.

*SlipCompletion.* `CallInv` types the calls and says that a call between its
transactions has what it will write. Every action of a call is a store action or
leaves the store alone (`CallsUseTheStore`), so the theorems about `SlipStore`
apply to it. `ClosedIsFinal` then needs only that a slip that is gone is not
closed (`GoneIsOpen`) and that the check bypasses closed slips.

Three properties hold under hypotheses only, which the instances of their runs meet
(`SlipCompletionCanary` is an `OpenCanaryRun`, `SlipCompletionSerial` a `SerialRun`).
Scenario H (`NoSkipOutlivesCanary`) rests on `SkipsFollowed`: while a step is skipped
for a canary that has succeeded, some call still owes a check or is about to reset
that step. A skip becomes stale only by a terminal report, which brings a check
(`SkipsBrought`), and every check that loads the slip takes all stale skips into its
resets. `OpenCanaryRun` turns the gate off (it may refuse the reset, as documented),
excludes faults, and lets nothing close the slip: a check of a closed slip is bypassed
and resets nothing, and a call with an older verdict may reopen the slip after it.
I1 and I2 (`VerdictIsBorneOut`) need more than the slip: what a check decided must
still be so when it concludes (`Decided`). With one client it is, because its resets
touch no primary failure and only shrink the sets it read (`SerialReset`), and
because the gate never refuses to put an aborted step back (`AbortsRecorded` ties the
column to the row the gate reads), so a reset that keeps in_progress from being
written has left a canary skip behind. `SerialRun` also leaves out a report of
"pending", and of `push_parsed` as running again: either takes a failure away without
a check. `GuardedFailuresStick` has from the same invariant that a guard, once
passed, holds until its write.

*SlipHold.* A step of a job is silent, or a write of the job's own step, or a step of
the call it has in progress (`HoldSteps`); the jobs therefore implement the store,
and all theorems of `SlipStoreProofs` hold under them (`JobsUseTheStore`).
`HeldHasWaiter` is then inductive with the types, because `Hold` alone brings a held
row (`OnlyHoldHolds`: no completion check and no reset writes one) and every way out
of waiting that does not write the step puts it in `left`.

`NoCircularWait` depends on the setup alone (`WaitsAreConfigured`: a pipeline that
`Validate` accepts, with its gates in order, and jobs that wait for no more than
`GetEffectivePrerequisites` names). Suppose a set of steps waits for itself. If no
gate is in it, it is a circle of stated prerequisites, which `Validate` refuses. Else
its first gate and what that gate waits for are before every other gate of the set,
so that part waits for itself by stated prerequisites alone (`NoCircleWithGates`).
No induction over paths is needed: `Circular` and `GatesInOrder` are about sets that
are closed. A component's job stands for its aggregate.

*SlipPush.* `PushInv` is `TypeOK` with: at most one slip exists (`OneSlip`); a push
that met a duplicate met a slip (`DuplicateHasSlip`), and slips only ever make room
for another in the same transaction, so the backstop finds one; without overlap a
delivery has one push in flight (`OnePushPerId`), so one that found another's slip,
or none, knows that its own does not exist (`NotYetWritten`). That last conjunct is
what keeps `Create`'s upsert from landing on a claimed row.

The race of pushes with each other needs what a read is still worth when it is acted
on (`RaceInv`): while no run and no claimant acts, the slip a push read is as it was,
or a live slip has taken its place, since a push writes live slips only, and spares
live and claimed ones (`WrittenIsLive`, `PushKeepsSafe`). So a write that is refused
was beaten by a live slip, the backstop meets that, and reuses it: it never comes to
the places where a second conflict fails a push. `~Meanwhile` is needed because an
operator may end the winner's slip between the conflict and the backstop; `~Faults`
because a failed write fails its push.

*SlipAncestry.* `LineageInv` says that a commit which had a slip has one
(`SlipsStay`); that what a push found as its own commit's is that, and what it will
record as parent is of another commit and described by its own branch and statuses
(`PushKnows`, `Sound`), and so is the link a repave has read to carry forward; and that
an entry names a slip that exists or is in `raced`: the repoint rewrites the links
it saw, those it did not see put the slip in `raced` (`RepavedLinks`), and so does every
push that still holds an entry of it, found or carried (`Keeps`). So links
committed before the repoint looked never dangle; later ones can, by exactly these
races. `HasSlip` of the own commit after a write or a backstop is what gives a superseded
slip its successor. `LineageSurvives` needs one more invariant (`LinksRead`): a repave
with no link to write is of a slip that has none, or is in `late`. A link that appears is
written by a slip's own push or a repave into it (`LinksWritten`), and both put
the repaves under way in `late`.

*PostgresMigrator.* Two migrators read the recorded version before either acts, so
what a process has still to do may be stale. The invariant therefore says of every
loop what is there already, everything it covers that is not in its `todo`
(`LoopInv`); that is stable under other processes' migrations, which only add, and
a process that takes something away is alone (`AloneInv`). The version a step
records is the least of its `todo`, or the one below its target, and so is covered.
`ConnInv` ties pools to pings. The loops' minimum and maximum exist by
well-foundedness of the natural numbers. `RunsEndAtTarget` adds, for a run to an older
version, that nothing above the target is applied but what is still in `todo`
(`UndoInv`): the job is alone (`OthersRest`), so it finds the latest version recorded
after its `CreateTables`, starts at the top, and each down takes something its up made
(`DownsUndo`, which slippy's migrations meet; TLC checks that in the run). Without
`DownsUndo` a version may be reverted in name only.

`ReadyDatabaseIsComplete` is about slippy's own migrations and ensurers
(`SlippyMigrates`). The probe asks for no key or index of v5, so that these are there
has to come from the order in which migrations go and come: `claimed_by` is what v8
alone makes, after all others are there, and the first thing taken (`ClaimantInv`);
v6 and v7 the probe sees itself. The hypothesis on jobs: `RunPostgresMigrations` may
go for any version, since its `CreateTables` first completes what earlier jobs left,
but a `MigrateToVersion` by itself goes to v5 or later. That is a real limit: after
down-runs that stopped half-way, a direct `MigrateToVersion(4)` may start from a
recorded version below what is applied, revert v5 and leave v8, and the probe
passes. Slippy calls it only through `RunPostgresMigrations`.

*ClickhouseMigrator.* The SQL and the version row are two statements, so the invariant
says of a loop what is there below the version it works on, however stale the version
it read (`UpInv`), and of a job that drops that no version is recorded once the
version table's turn has come (`DropInv`). That needs `VersionTableLast`, that the
version table is the last of the expected tables and so the first dropped. The
migrator's default list is like that; a list that is given need not be, and
what happens then is told above, among the differences.

*GitHubClient.* An installation id travels from GitHub's list over a page and a call
into two caches. `IdInv` follows it: wherever it is held, it is held for one
organization. `GoneInv` and `CachesForget` say where an id that was gone when
`ClearCache` began can still be: in calls that began before, and where they put it.
`PagingInv` is about a discovery during which nothing was removed: its organization
is on the page it has or further on in the list than where it reads next, so a call
that runs out of pages without meeting it began without it. The list may grow
meanwhile, since new installations come last.

The walk along first parents is a recursive function of its length. That such a function
is what its recursion says is proved from the least counterexample (`SetInduction` over
a set of numbers, since the library's induction takes an operator; `IterationExists`).
`WalkGoesOn` and `FilterIsAWalk` then have that each commit but the first is the first
parent of the one before and that the walk stops at its bound or at a parent that was not
fetched, and `AnswersAreKept` that a call keeps such an answer.

Only model-checked, and why:

- `EveryCallReturns`, `EveryWaitEnds`, `EveryPushAnswers`, `EveryJobEnds` and
  `EveryCallAnswers`: liveness under fairness is beyond the prover.

Every safety invariant and action property of the runs is stated by a theorem. Where
one has hypotheses, the instances of its run meet them, and what lies beyond them is
left open: `VerdictMatchesSteps` and `GuardedFailureSticks` for calls that overlap (they do
not hold then) and for pipelines with components, `NoStaleCanarySkip` with the gate on.

## 5. Not modelled, and the plan

Left, in this order:

1. Proofs: `VerdictIsBorneOut` for pipelines with aggregates, whose columns a component
   report can turn from failed to running without a check; the steps of `SlipPush` as
   refinements of an abstract slip of the commit.
2. The slips of `SlipPush` as another implementation of `SlipContract`.
3. The component half of the test double, with its differences as findings of its
   own.
4. A chain of three commits in `SlipAncestry`, with a repave in its middle.

Out of reach or not worth it: decoding and text (rollout manifests, image tags,
names, YAML, configuration from the environment), clients of other services
(`argocdclient`, `kafka`, `vault`, `pollyapi`, `slippyapi`, `teamsbot`, `auth`, the
REST helpers of `github`), telemetry. They keep no state that the slips'
correctness depends on, and their faults are local to a function that a unit test
reaches.
