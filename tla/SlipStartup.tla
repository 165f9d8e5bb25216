------------------------------ MODULE SlipStartup ------------------------------
(***************************************************************************)
(* slippy's migrations in PostgresMigrator's hands, and the readiness      *)
(* probe a process passes before it serves.                                *)
(***************************************************************************)
EXTENDS PostgresMigrator, SlipSchema

\* newSlippyPostgresMigrator registers the eight migrations, each with its
\* down, and the ensurers.  Slippy's own jobs are "run" jobs of any target; a
\* caller that goes for a version by itself goes no further back than v5.
SlippyMigrates ==
    /\ Migrations = GenerateMigrations /\ Ensurers = GenerateEnsurers
    /\ Irreversible = {}
    /\ \A j \in Jobs : j[1] = "to" => j[2] >= 5

\* The probe asks for no key and no index, yet a process that passes it works
\* on a database with every migration, one slip per commit (v5) included: a
\* migration that was refused keeps all later ones away.
ReadyMeansMigrated == ProbeSchema(schema) => \A v \in Versions : Applied(v)
=============================================================================
