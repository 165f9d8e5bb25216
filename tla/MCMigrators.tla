------------------------------ MODULE MCMigrators ------------------------------
(***************************************************************************)
(* Both migrators, each by itself. PostgresMigrator has slippy's           *)
(* migrations and ensurers; ClickhouseMigrator has two migrations, the     *)
(* second irreversible, and lists its version table last.                  *)
(***************************************************************************)
EXTENDS SlipStartup, ClickhouseMigrator

CONSTANTS m1, m2

\* RunPostgresMigrations to the latest version and to an older one, and
\* MigrateToVersion by itself.
AllJobs == {<<"run", 8>>, <<"run", 4>>, <<"to", 5>>}
NoneIrreversible == {}

AllChJobs == {<<"create", 0>>, <<"drop", 0>>, <<"to", 0>>, <<"to", 2>>}
AllTables == <<1, 2, VersionTable>>

\* slippy's migrations are of the kind RunsEndAtTarget is proved for, the jobs
\* of the kind ReadyDatabaseIsComplete is, and the list of tables of the kind
\* ClickhouseMigratorInvariant is.
ASSUME SlippyDownsUndo == DownsUndo /\ SlippyMigrates
ASSUME ListIsSound == VersionTableLast

\* The databases share nothing: either migrator moves while the other is in
\* its initial state.
MCInit == Init /\ ChInit

MCNext ==
    \/ Next /\ ChInit /\ UNCHANGED chVars
    \/ ChNext /\ Init /\ UNCHANGED vars

MCSpec ==
    /\ MCInit /\ [][MCNext]_<<vars, chVars>>
    /\ \A p \in Migrators : WF_vars(Connect(p) \/ Migrate(p))

=============================================================================
