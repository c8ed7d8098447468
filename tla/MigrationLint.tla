------------------------------ MODULE MigrationLint ------------------------------
(***************************************************************************)
(* The check of a migration file (ui/src/lib/health/sqlmigrate.ts): what   *)
(* it says of each statement, beside what the server does with it.         *)
(*                                                                         *)
(* A file is read statement by statement, and what the check remembers of  *)
(* the earlier ones decides what it says of the next.  How statements and  *)
(* their parts are found in the text is left out, and so are titles and    *)
(* advice: of a finding only its level is kept.                            *)
(***************************************************************************)
EXTENDS Integers, Sequences, FiniteSets, SequencesExt

CONSTANTS
    FileTables,     \* names of tables
    Existing,       \* the tables there are before the file is run
    Constraints,    \* names of CHECK (column IS NOT NULL)
    TableOf,        \* the table of each; one column of a table is followed
    MaxTx           \* bound: transactions in a file

ASSUME FileAssumption ==
    /\ Existing \subseteq FileTables /\ TableOf \in [Constraints -> FileTables]
    /\ MaxTx \in Nat

VARIABLES
    lint,           \* what checkMigration or checkMysql remembers
    server,         \* what is so on the server once the file so far has run
    last            \* the last statement: the levels said of it, what it does, and whether
                    \* it is passed over as one on a table the file has made

lintVars == <<lint, server, last>>

Levels == {"stop", "check", "note"}
\* long: writes wait for a scan, a build or a copy; nothing is said here of what the server
\* does with an action the check does not classify.
Effects == {"refused", "long", "short", "not_followed"}

Outside == -1       \* not in a transaction, as the key of one

Unnamed == 0        \* a constraint the file has not added NOT VALID

LintInit ==
    /\ lint \in [dialect : {"postgresql", "mysql"}, inTx : {FALSE}, tx : {0}, created : {{}},
                 lockTimeout : {FALSE}, statementTimeout : {FALSE}, warned : {FALSE},
                 notValid : {[c \in Constraints |-> Unnamed]},
                 notNullChecks : {[c \in Constraints |-> "none"]},
                 fkChecksOff : {FALSE}, warnedTx : {FALSE}]
    /\ server \in [inTx : {FALSE}, tables : {Existing}, new : {{}}, fkChecksOff : {FALSE},
                   named : SUBSET Constraints, fresh : {{}}, valid : {{}}]
    /\ last = [said |-> {}, does |-> "short", over |-> FALSE]

If(cond, level) == IF cond THEN {level} ELSE {}

Says(levels, does) == last' = [said |-> levels, does |-> does, over |-> FALSE]
PassesOver(does) == last' = [said |-> {}, does |-> does, over |-> TRUE]

-----------------------------------------------------------------------------
(* Statements that both dialects remember.                                 *)

\* BEGIN.  A file does not begin a transaction in another.
Begin ==
    /\ ~lint.inTx /\ lint.tx < MaxTx
    /\ lint' = [lint EXCEPT !.inTx = TRUE, !.tx = @ + 1]
    /\ server' = [server EXCEPT !.inTx = TRUE]
    /\ Says({}, "short")

\* COMMIT, which ends what was added in the transaction.
Commit ==
    /\ lint.inTx
    /\ lint' = [lint EXCEPT !.inTx = FALSE]
    /\ server' = [server EXCEPT !.inTx = FALSE, !.fresh = {}]
    /\ Says({}, "short")

CreateTable(t) ==
    /\ t \notin server.tables
    /\ lint' = [lint EXCEPT !.created = @ \union {t}]
    /\ server' = [server EXCEPT !.tables = @ \union {t}, !.new = @ \union {t}]
    /\ Says({}, "short")

\* SET lock_timeout and statement_timeout; SET lock_wait_timeout.
SetTimeout(which, on) ==
    /\ which = "statementTimeout" => lint.dialect = "postgresql"
    /\ lint' = [lint EXCEPT ![which] = on]
    /\ UNCHANGED server
    /\ Says({}, "short")

SetForeignKeyChecks(off) ==
    /\ lint.dialect = "mysql"
    /\ lint' = [lint EXCEPT !.fkChecksOff = off]
    /\ server' = [server EXCEPT !.fkChecksOff = off]
    /\ Says({}, "short")

-----------------------------------------------------------------------------
(* PostgreSQL: indexes.                                                    *)

Postgres == lint.dialect = "postgresql"
CreateIndex(t, concurrently, ifNotExists) ==
    /\ Postgres /\ t \in server.tables
    /\ UNCHANGED <<lint, server>>
    /\ LET does == IF concurrently THEN IF server.inTx THEN "refused" ELSE "short"
                   ELSE IF t \in server.new THEN "short" ELSE "long"
       IN  IF t \in lint.created THEN PassesOver(does)
           ELSE Says(IF ~concurrently THEN {"check"}
                     ELSE If(lint.inTx, "stop")
                              \union If(lint.lockTimeout \/ lint.statementTimeout, "check")
                              \union {IF ifNotExists THEN "check" ELSE "note"}, does)

DropIndex(concurrently) ==
    /\ Postgres /\ UNCHANGED <<lint, server>>
    /\ Says(IF concurrently THEN If(lint.inTx, "stop") ELSE {"check"},
            IF concurrently /\ server.inTx THEN "refused" ELSE "short")

Reindex(concurrently) ==
    /\ Postgres /\ UNCHANGED <<lint, server>>
    /\ Says(IF ~concurrently THEN {"check"} ELSE IF lint.inTx THEN {"stop"} ELSE {"note"},
            IF ~concurrently THEN "long" ELSE IF server.inTx THEN "refused" ELSE "short")

-----------------------------------------------------------------------------
(* PostgreSQL: ALTER TABLE.                                                *)

NeedsTimeout == ~lint.lockTimeout /\ ~lint.warned

\* The changes a body may make beside constraints that are named, validated or dropped.
Changes == {"set_not_null", "foreign_key", "check", "key", "key_using_index", "type",
            "stored_column", "volatile_default", "column"}
LongChanges == Changes \ {"key_using_index", "column"}

\* An ALTER TABLE: nothing is said or remembered of a table the file has made; otherwise
\* the first that needs a lock without a timeout is told so.
Alters(t, levels, l, does) ==
    /\ Postgres /\ t \in server.tables
    /\ LET done == IF t \in server.new THEN "short" ELSE does
       IN  IF t \in lint.created THEN PassesOver(done) /\ UNCHANGED lint
           ELSE /\ lint' = [l EXCEPT !.warned = @ \/ NeedsTimeout]
                /\ Says(levels \union If(NeedsTimeout, "note"), done)

AddNotNullCheck(c, notValid) ==
    /\ c \notin server.named
    /\ server' = [server EXCEPT
           !.named = @ \union {c},
           !.fresh = IF notValid /\ server.inTx THEN @ \union {c} ELSE @,
           !.valid = IF notValid THEN @ ELSE @ \union {c}]
    /\ Alters(TableOf[c], If(~notValid, "check"),
           [lint EXCEPT
               !.notValid[c] = IF ~notValid THEN @ ELSE IF lint.inTx THEN lint.tx ELSE Outside,
               !.notNullChecks[c] = IF notValid THEN "not_valid" ELSE "valid"],
           IF notValid THEN "short" ELSE "long")

DropConstraint(c) ==
    /\ c \in server.named
    /\ server' = [server EXCEPT !.named = @ \ {c}, !.fresh = @ \ {c}, !.valid = @ \ {c}]
    /\ Alters(TableOf[c], {}, [lint EXCEPT !.notNullChecks[c] = "none"], "short")

\* VALIDATE CONSTRAINT: nothing else is looked at in its statement, and it needs no
\* timeout.  The scan is long where the lock of the NOT VALID is still held.
Validate(c) ==
    /\ Postgres /\ c \in server.named /\ TableOf[c] \in server.tables
    /\ server' = [server EXCEPT !.valid = @ \union {c}]
    /\ LET does == IF c \in server.fresh /\ TableOf[c] \notin server.new THEN "long" ELSE "short"
       IN  IF TableOf[c] \in lint.created THEN PassesOver(does) /\ UNCHANGED lint
           ELSE /\ lint' = IF lint.notNullChecks[c] = "none" THEN lint
                           ELSE [lint EXCEPT !.notNullChecks[c] = "valid"]
                /\ Says(If(lint.inTx /\ lint.notValid[c] = lint.tx, "check"), does)

\* Mutated form of Spared: a CHECK that is not validated yet is enough.
SparedByAny(t) == \E c \in Constraints : TableOf[c] = t /\ lint.notNullChecks[c] # "none"

\* A CHECK validated earlier in the file spares SET NOT NULL its scan.
Spared(t) == \E c \in Constraints : TableOf[c] = t /\ lint.notNullChecks[c] = "valid"

\* Any other change, one to a statement.
Change(t, what, notValid) ==
    /\ notValid => what \in {"foreign_key", "check"}
    /\ UNCHANGED server
    /\ LET quick(known) == notValid \/ (what = "set_not_null" /\ known)
           proved == \E c \in server.valid : TableOf[c] = t
       IN  Alters(t,
               IF what = "column" THEN {} ELSE If(what \in LongChanges /\ ~quick(Spared(t)), "check"),
               lint,
               IF what \in LongChanges /\ ~quick(proved) THEN "long" ELSE "short")

-----------------------------------------------------------------------------
(* MySQL: the algorithm each action of a statement allows.                 *)

Mode(algo, lock, rebuild) == [algo |-> algo, lock |-> lock, rebuild |-> rebuild]
Instant == Mode("INSTANT", "none", FALSE)
InPlace == Mode("INPLACE", "NONE", FALSE)
Rebuilt == Mode("INPLACE", "NONE", TRUE)
Shared == Mode("INPLACE", "SHARED", TRUE)
Copied == Mode("COPY", "SHARED", TRUE)

Actions == {"add_column", "rename", "index", "primary_key", "drop_primary_key", "fulltext",
            "stored_column", "random_default", "modify", "foreign_key", "unknown"}

Known(actions) == actions \ {"unknown"}

\* classifyMysql, one action for each of its outcomes.
Classify(a, actions, fkChecksOff) ==
    CASE a \in {"add_column", "rename"} -> Instant
      [] a = "index" -> InPlace
      [] a = "primary_key" -> Rebuilt
      [] a = "drop_primary_key" -> IF "primary_key" \in actions THEN Rebuilt ELSE Copied
      [] a = "fulltext" -> Shared
      [] a = "foreign_key" -> IF fkChecksOff THEN InPlace ELSE Copied
      [] OTHER -> Copied

Rank(m) ==
    CASE m.algo = "COPY" -> 4
      [] m.algo = "INSTANT" -> 0
      [] OTHER -> IF m.lock = "SHARED" THEN 3 ELSE IF m.rebuild THEN 2 ELSE 1

\* A statement is run as its worst action allows.
Worst(actions, fkChecksOff) ==
    LET modes == {Classify(a, actions, fkChecksOff) : a \in Known(actions)}
    IN  CHOOSE m \in modes : \A n \in modes : Rank(n) <= Rank(m)

Strength == [INSTANT |-> 0, INPLACE |-> 1, COPY |-> 2]

\* The clauses ALGORITHM and LOCK of a statement, "none" for none.
Clauses == {[algo |-> "none", lock |-> "none"], [algo |-> "INSTANT", lock |-> "none"],
            [algo |-> "INPLACE", lock |-> "none"], [algo |-> "INPLACE", lock |-> "NONE"],
            [algo |-> "COPY", lock |-> "none"]}

TooStrict(given, m) ==
    \/ Strength[given.algo] < Strength[m.algo]
    \/ given = [algo |-> "INPLACE", lock |-> "NONE"] /\ m.lock = "SHARED"

\* What checkMysql says of the actions, from the refusals down.
SaysOf(actions, given) ==
    LET m == Worst(actions, lint.fkChecksOff)
        mixed == m.algo # "INSTANT" /\ "add_column" \in actions
        looked == given.algo # "none" /\ "modify" \notin actions
    IN  IF Known(actions) = {} THEN {"note"}
        ELSE IF "random_default" \in actions THEN {"stop"}
        ELSE IF looked /\ TooStrict(given, m) THEN {"stop"}
        ELSE IF \/ looked /\ given.algo = "COPY"
                \/ "modify" \in actions \/ m.lock = "SHARED" \/ mixed THEN {"check"}
        ELSE {"note"}

\* What the server does, in a way that is none of its actions' too strict, or refuses;
\* how it can MODIFY a column depends on the old type.
Outcome(actions, given, modified) ==
    LET way == {IF a = "modify" THEN modified ELSE Classify(a, actions, server.fkChecksOff) :
                   a \in actions}
    IN  IF "unknown" \in actions THEN "not_followed"
        ELSE IF \/ "random_default" \in actions
                \/ given.algo # "none" /\ \E m \in way : TooStrict(given, m) THEN "refused"
        ELSE IF given.algo = "COPY" \/ \E m \in way : m.lock = "SHARED" THEN "long"
        ELSE "short"

\* ALTER TABLE, CREATE INDEX and DROP INDEX; DDL commits the transaction it is in.
AlterMysql(t, actions, given) ==
    /\ ~Postgres /\ t \in server.tables
    /\ UNCHANGED server
    /\ IF t \in lint.created
       THEN PassesOver("short") /\ UNCHANGED lint
       ELSE /\ lint' = [lint EXCEPT !.warned = @ \/ NeedsTimeout, !.warnedTx = @ \/ lint.inTx]
            /\ \E modified \in
                      IF "modify" \in actions THEN {Instant, InPlace, Rebuilt, Copied} ELSE {Copied} :
                   Says(If(NeedsTimeout \/ (lint.inTx /\ ~lint.warnedTx), "note")
                            \union SaysOf(actions, given), Outcome(actions, given, modified))

-----------------------------------------------------------------------------
LintNext ==
    \/ Begin \/ Commit
    \/ \E t \in FileTables : CreateTable(t)
    \/ \E on \in BOOLEAN : SetTimeout("lockTimeout", on) \/ SetTimeout("statementTimeout", on)
                          \/ SetForeignKeyChecks(on)
    \/ \E concurrently \in BOOLEAN : DropIndex(concurrently) \/ Reindex(concurrently)
    \/ \E t \in FileTables, concurrently, ifNotExists \in BOOLEAN :
          CreateIndex(t, concurrently, ifNotExists)
    \/ \E c \in Constraints : Validate(c) \/ DropConstraint(c)
                            \/ \E notValid \in BOOLEAN : AddNotNullCheck(c, notValid)
    \/ \E t \in FileTables, what \in Changes, notValid \in BOOLEAN : Change(t, what, notValid)
    \/ \E t \in FileTables, actions \in {S \in SUBSET Actions : Cardinality(S) \in 1..2},
          given \in Clauses : AlterMysql(t, actions, given)

LintSpec == LintInit /\ [][LintNext]_lintVars

-----------------------------------------------------------------------------
(* Properties.                                                             *)

LintTyped ==
    /\ lint.dialect \in {"postgresql", "mysql"} /\ lint.tx \in 0..MaxTx
    /\ lint.created \subseteq FileTables
    /\ lint.notValid \in [Constraints -> (Outside)..MaxTx]
    /\ lint.notNullChecks \in [Constraints -> {"none", "not_valid", "valid"}]
    /\ server.tables \subseteq FileTables /\ server.fresh \subseteq server.named
    /\ last.said \subseteq Levels /\ last.does \in Effects

\* A statement of which nothing but notes are said does not make writes wait for a scan, a
\* build or a copy, and is not refused unless it is passed over as one on a table the file
\* has made: whatever transactions, timeouts, new tables and constraints of the file came
\* before it (checkMigration, checkMysql).
QuietIsShort ==
    last.said \intersect {"stop", "check"} = {} =>
        \/ last.does \in {"short", "not_followed"}
        \/ last.does = "refused" /\ last.over

=================================================================================
