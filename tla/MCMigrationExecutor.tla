-------------------------- MODULE MCMigrationExecutor --------------------------
(***************************************************************************)
(* Small databases for MigrationExecutor.                                  *)
(***************************************************************************)
EXTENDS MigrationExecutor, TLC

SourceOf(cols, extras, keys) == [cols |-> cols, extras |-> extras, keys |-> keys]
TableOf(cols, extras, rows) == [cols |-> cols, extras |-> extras, rows |-> rows]

\* A table (1) on both sides, with a key held by both: the target lacks a column,
\* has a row (3) the source has not, and an archive of an earlier migration of day 1.
\* Another table (2) is only on the target.
MCOneSource == {1 :> SourceOf({"a", "b"}, "bare", {1, 2})}
MCOneTarget ==
    {BaseName(1) :> TableOf({"a"}, "bare", {<<1, "target">>})
        @@ <<1, 1, 1>> :> TableOf({"a"}, "bare", {<<3, "target">>})
        @@ BaseName(2) :> TableOf({"a"}, "bare", {<<1, "target">>})}

\* Collections: 1 on both sides, 2 only on the source.
MCMongoSource ==
    {1 :> SourceOf({}, "bare", {1, 2}) @@ 2 :> SourceOf({}, "bare", {2})}
MCMongoTarget == {BaseName(1) :> TableOf({}, "bare", {<<1, "target">>})}
=============================================================================
