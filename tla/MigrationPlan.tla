----------------------------- MODULE MigrationPlan -----------------------------
(***************************************************************************)
(* The pure part of a migration: what the fresh diff of two databases says *)
(* about each object, which steps follow from it, and the name a table is  *)
(* archived under (migration_service.diff, migration_plan_service and      *)
(* MigrationExecutor._build_steps).                                        *)
(*                                                                         *)
(* A name is a triple <<object, day, n>>.  <<o, 0, 0>> is the table o      *)
(* itself, <<o, d, 1>> the archive "o_till<date>" of day d, and            *)
(* <<o, d, n>> with n > 1 the archive "o_till<date>_<n>".                  *)
(*                                                                         *)
(* A table is its columns, whatever else the diff compares (indexes,       *)
(* foreign keys, types: one opaque value) and its rows.  A row is its key  *)
(* with where it came from: the point of a merge is which of two rows with *)
(* the same key is kept.                                                   *)
(***************************************************************************)
EXTENDS Integers, FiniteSets

CONSTANTS
    Kind,           \* "sql" or "mongo": both ends are of the same kind
    Objects,        \* table or collection names, ordered as sorted() does
    Keys,           \* row identities, ordered as the primary key is
    Columns,
    Extras,         \* indexes, foreign keys and column types, as one value
    BareExtras,     \* what a table has right after its CREATE TABLE
    Days,           \* dates on which a job may compute a version name
    MaxVersion      \* bound: archives of one object made on one day

ASSUME PlanAssumption ==
    /\ Kind \in {"sql", "mongo"}
    /\ Objects \subseteq Nat \ {0}
    /\ Keys \subseteq Nat \ {0} /\ IsFiniteSet(Keys)
    /\ Days \subseteq Nat \ {0}
    /\ BareExtras \in Extras
    /\ MaxVersion \in Nat \ {0}

-----------------------------------------------------------------------------
Origins == {"source", "target"}

Names == Objects \X Nat \X Nat

BaseName(o) == <<o, 0, 0>>

\* The object a name belongs to: itself or the one it archives.
ObjectOf(n) == n[1]

IsArchive(n) == n # BaseName(ObjectOf(n))

Table == [cols : SUBSET Columns, extras : Extras, rows : SUBSET (Keys \X Origins)]

\* Each side of a migration, as the inspector reflects it.
SourceTable == [cols : SUBSET Columns, extras : Extras, keys : SUBSET Keys]

KeysOf(t) == {r[1] : r \in t.rows}

-----------------------------------------------------------------------------
(* The diff and the plan.                                                  *)

ObjectStatus ==
    {"new_on_source", "new_on_target", "common_no_change", "common_changed"}

Scopes == {"schema", "schema_data"}

\* diff()'s column_changes[o].added
ColumnsAdded(o, src, tgt) == src[o].cols \ tgt[BaseName(o)].cols

\* column_changes, index_changes or fk_changes is not empty.  _diff_mongo
\* leaves all three empty, whatever the two collections hold.
Changed(o, src, tgt) ==
    /\ Kind = "sql"
    /\ \/ src[o].cols # tgt[BaseName(o)].cols
       \/ src[o].extras # tgt[BaseName(o)].extras

\* The objects diff() has table_stats for: those on either side.
Known(src, tgt) == {o \in Objects : o \in DOMAIN src \/ BaseName(o) \in DOMAIN tgt}

StatusOf(o, src, tgt) ==
    IF BaseName(o) \notin DOMAIN tgt THEN "new_on_source"
    ELSE IF o \notin DOMAIN src THEN "new_on_target"
    ELSE IF Changed(o, src, tgt) THEN "common_changed"
    ELSE "common_no_change"

\* Mutated form of StepsFor: what only the target has is archived too.
StepsForAll(o, src, tgt, versioned, scope) ==
    IF StatusOf(o, src, tgt) = "new_on_target" THEN {"version"} ELSE {}

\* _build_steps: the actions an included object is given a step for.
StepsFor(o, src, tgt, versioned, scope) ==
    LET st == StatusOf(o, src, tgt)
        copy == IF scope = "schema_data" THEN {"copy"} ELSE {}
    IN  CASE st = "new_on_target" -> {}
          [] st = "new_on_source" -> {"create"} \cup copy
          [] st = "common_no_change" -> copy
          [] st = "common_changed" /\ versioned -> {"version", "create"} \cup copy
          [] st = "common_changed" /\ ~versioned ->
                (IF ColumnsAdded(o, src, tgt) # {} THEN {"columns"} ELSE {}) \cup copy

-----------------------------------------------------------------------------
(* compute_version_name: the first free name among o_till<date>, then      *)
(* o_till<date>_2, o_till<date>_3 ...  A set with at most one member.      *)

VersionNames(o, day, existing) ==
    {<<o, day, n>> : n \in {i \in 1..MaxVersion :
        /\ <<o, day, i>> \notin existing
        /\ \A k \in 1..(i - 1) : <<o, day, k>> \in existing}}

=============================================================================
