------------------------------ MODULE ColumnScripts ------------------------------
(***************************************************************************)
(* The scripts that the list of a table's columns writes when a column is  *)
(* edited, added or dropped (generateAlterScripts and its neighbours in    *)
(* ui/src/components/db/ResultsTable.tsx), and what a server makes of them.*)
(***************************************************************************)
EXTENDS Integers, Sequences, FiniteSets, SequencesExt

CONSTANTS
    Names,      \* names of columns
    Types       \* types of columns

NoDefault == "no_default"
Defaults == {NoDefault, "x"}

Column == [name : Names, type : Types, nullable : BOOLEAN, default : Defaults]

\* A list of columns in which no two have one name, as a table's have.
Distinct(columns) == \A i, j \in DOMAIN columns : i # j => columns[i].name # columns[j].name

\* Families of db_type that write different scripts.
Dialects == {"mysql", "postgresql", "sqlite", "mssql", "other"}

\* Those whose scripts are meant to carry out an edit as a whole.
WholeDialects == {"mysql", "postgresql"}

-----------------------------------------------------------------------------
(* A script changes one column, named by column, into what to says of it.  *)

Ops == {"rename", "modify", "type", "type_and_null", "null", "default", "first_default",
        "nothing", "add", "drop"}

Script == [op : Ops, column : Names, to : Column]

\* The scripts a condition calls for: one or none.
When(cond, op, name, to) ==
    IF cond THEN <<[op |-> op, column |-> name, to |-> to]>> ELSE <<>>

\* Mutated form of EditScripts: the renaming comes last, with the new name used before it.
EditThenRename(dialect, old, new) ==
    LET typed == old.type # new.type
        nulled == old.nullable # new.nullable
        dflt == old.default # new.default
        N(cond, op) == When(cond, op, new.name, new)
        rename == When(old.name # new.name, "rename", old.name, new)
    IN  (CASE dialect = "mysql" ->
                IF typed \/ nulled THEN N(TRUE, "modify") ELSE N(dflt, "default")
           [] dialect = "postgresql" -> N(typed, "type") \o N(nulled, "null") \o N(dflt, "default")
           [] OTHER -> N(typed, "type")) \o rename

\* generateAlterScripts: the renaming first, then the rest under the new name.
EditScripts(dialect, old, new) ==
    LET typed == old.type # new.type
        nulled == old.nullable # new.nullable
        dflt == old.default # new.default
        N(cond, op) == When(cond, op, new.name, new)
    IN  When(old.name # new.name, "rename", old.name, new) \o
        CASE dialect = "mysql" ->
                IF typed \/ nulled THEN N(TRUE, "modify") ELSE N(dflt, "default")
          [] dialect = "postgresql" -> N(typed, "type") \o N(nulled, "null") \o N(dflt, "default")
          [] dialect = "sqlite" -> N(typed \/ nulled \/ dflt, "nothing")
          [] dialect = "mssql" ->
                N(typed \/ nulled, "type_and_null")
                    \o N(dflt /\ new.default # NoDefault, "first_default")
          [] OTHER -> N(typed, "type")

\* generateDropColumnScript, generateAddColumnScript
DropScripts(column) == When(TRUE, "drop", column.name, column)
AddScripts(column) == When(TRUE, "add", column.name, column)

-----------------------------------------------------------------------------
(* What the server makes of a script: the columns of the table, or a       *)
(* refusal.                                                                *)

Refused == [ok |-> FALSE, columns |-> {}]

Named(columns, name) == CHOOSE c \in columns : c.name = name

\* A script is taken if the column it changes is there and no other has the name it gives.
Taken(columns, s) ==
    LET there == {c.name : c \in columns}
    IN  CASE s.op = "add" -> s.column \notin there
          [] s.op = "rename" -> s.column \in there /\ s.to.name \notin there
          [] s.op = "nothing" -> TRUE
          [] s.op = "first_default" ->
                s.column \in there /\ Named(columns, s.column).default = NoDefault
          [] OTHER -> s.column \in there

Changed(c, s) ==
    CASE s.op = "rename" -> [c EXCEPT !.name = s.to.name]
      [] s.op = "modify" -> [s.to EXCEPT !.name = c.name]
      [] s.op = "type" -> [c EXCEPT !.type = s.to.type]
      [] s.op = "type_and_null" -> [c EXCEPT !.type = s.to.type, !.nullable = s.to.nullable]
      [] s.op = "null" -> [c EXCEPT !.nullable = s.to.nullable]
      [] s.op \in {"default", "first_default"} -> [c EXCEPT !.default = s.to.default]

Done(columns, s) ==
    CASE s.op = "add" -> columns \union {s.to}
      [] s.op = "drop" -> {c \in columns : c.name # s.column}
      [] s.op = "nothing" -> columns
      [] OTHER -> {IF c.name = s.column THEN Changed(c, s) ELSE c : c \in columns}

\* One script more, after which nothing is taken once one is refused.
Carry(so, s) ==
    IF so.ok /\ Taken(so.columns, s)
    THEN [ok |-> TRUE, columns |-> Done(so.columns, s)]
    ELSE Refused

\* The scripts in order, up to the first that is refused.
Carried(columns, scripts) ==
    LET after[n \in 0..Len(scripts)] ==
            IF n = 0 THEN [ok |-> TRUE, columns |-> columns]
            ELSE Carry(after[n - 1], scripts[n])
    IN  after[Len(scripts)]

==================================================================================
