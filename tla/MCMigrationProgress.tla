-------------------------- MODULE MCMigrationProgress --------------------------
(***************************************************************************)
(* Small plans for MigrationProgress.                                      *)
(***************************************************************************)
EXTENDS MigrationProgress, TLC

\* A job of one step, or of none: the fewest messages that make two jobs.
MCBuilds == {1 :> {"copy"}, 1 :> {}}

=============================================================================
