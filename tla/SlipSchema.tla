------------------------------ MODULE SlipSchema ------------------------------
(***************************************************************************)
(* slippy's PostgreSQL schema: what each migration needs, makes and takes  *)
(* away, what the ensurers add, and which of it the readiness probe asks   *)
(* for.  A schema is the set of objects that exist.  Operators only.       *)
(***************************************************************************)
LOCAL INSTANCE Sequences

\* An object is a table, a domain, an index, a foreign key or a column of its
\* own migration.  A table without its status column counts as gone.
Migration(needs, makes, pinned, takes) ==
    [needs |-> needs,    \* objects the up SQL fails without
     makes |-> makes,    \* objects that exist after the up
     pinned |-> pinned,  \* objects that make the down SQL fail
     takes |-> takes]    \* objects that are gone after the down

\* v1.  DROP DOMAIN ... CASCADE takes every column of those types along.
EnumsMigration ==
    Migration({}, {"domains"}, {},
              {"domains", "routing_slips", "component_states", "ancestry", "step_columns"})

\* v2.  DROP TABLE without CASCADE: foreign keys that point here refuse it.
RoutingSlipsMigration ==
    Migration({"domains"}, {"routing_slips"},
              {"fk_component_states", "fk_ancestry", "rollbacks"},
              {"routing_slips", "uq_repo_sha", "claimed_from", "step_columns"})

\* v3
ComponentStatesMigration ==
    Migration({"domains"}, {"component_states"}, {},
              {"component_states", "fk_component_states", "claimed_by"})

\* v4
AncestryMigration ==
    Migration({"domains"}, {"ancestry"}, {}, {"ancestry", "fk_ancestry", "indexes"})

\* v5: the cascade keys and one slip per commit.
UniquenessMigration ==
    Migration({"routing_slips", "component_states", "ancestry"},
              {"fk_component_states", "fk_ancestry", "uq_repo_sha"}, {},
              {"fk_component_states", "fk_ancestry", "uq_repo_sha"})

\* v6
ClaimedFromMigration == Migration({"routing_slips"}, {"claimed_from"}, {}, {"claimed_from"})

\* v7
SlipRollbacksMigration == Migration({"routing_slips"}, {"rollbacks"}, {}, {"rollbacks"})

\* v8
StepClaimedByMigration == Migration({"component_states"}, {"claimed_by"}, {}, {"claimed_by"})

\* By version.
GenerateMigrations ==
    <<EnumsMigration, RoutingSlipsMigration, ComponentStatesMigration, AncestryMigration,
      UniquenessMigration, ClaimedFromMigration, SlipRollbacksMigration, StepClaimedByMigration>>

\* Idempotent, run after the migrations, outside any transaction.
StepColumnEnsurer == Migration({"domains", "routing_slips"}, {"step_columns"}, {}, {})
IndexEnsurer == Migration({"routing_slips", "ancestry"}, {"indexes"}, {}, {})

GenerateEnsurers == <<StepColumnEnsurer, IndexEnsurer>>

(***************************************************************************)
(* PostgresStore.ProbeSchema, the gate a process passes before it serves:  *)
(* the columns its SELECTs name, the child tables, the claimant column.    *)
(* It looks at no key and no index.                                        *)
(***************************************************************************)
ProbeRoutingSlipColumns(s) == {"routing_slips", "step_columns", "claimed_from"} \subseteq s

\* Mutant: the rollback table of v7 is not asked for.
ProbeBeforeV7(s) == {"component_states", "ancestry"} \subseteq s

ProbeChildTables(s) == {"component_states", "ancestry", "rollbacks"} \subseteq s

ProbeStepClaimant(s) == "claimed_by" \in s

ProbeSchema(s) == ProbeRoutingSlipColumns(s) /\ ProbeChildTables(s) /\ ProbeStepClaimant(s)
=============================================================================
