--------------------------- MODULE MigrationExecutor ---------------------------
(***************************************************************************)
(* The live migration engine (api/app/services/migration_executor.py):     *)
(* jobs that run in worker threads of one server process and write, one    *)
(* database call at a time, to the same target database, while other       *)
(* clients go on writing to the source.                                    *)
(*                                                                         *)
(* Every action is the code between two calls to a database: another job,  *)
(* another client or a crash of the server may come in between any two.    *)
(* A call may fail for a reason of its own at any time.                    *)
(***************************************************************************)
EXTENDS MigrationPlan

CONSTANTS
    MaxJobs,        \* bound: jobs created in a behaviour
    RegistrySize,   \* MigrationJobRegistry._MAX_JOBS
    BatchSize,      \* DEFAULT_BATCH_SIZE
    Keyed,          \* objects with a primary key of exactly one column
    Rejected,       \* rows that a constraint of the target refuses
    IgnoresDuplicates,  \* the dialect has an "insert, ignore duplicates" form
    AtomicDDL,      \* a transaction undoes ALTER TABLE (not so on MySQL)
    InitialSources, \* what the two databases may hold to begin with
    InitialTargets,
    MaxWrites,      \* bound: writes of other clients to the source
    MaxCrashes      \* bound: crashes of the server process

ASSUME ExecutorAssumption ==
    /\ MaxJobs \in Nat /\ RegistrySize \in Nat \ {0} /\ BatchSize \in Nat \ {0}
    /\ Keyed \subseteq Objects
    /\ Kind = "mongo" => Keyed = Objects
    /\ Rejected \subseteq Keys
    /\ IgnoresDuplicates \in BOOLEAN /\ AtomicDDL \in BOOLEAN
    /\ MaxWrites \in Nat /\ MaxCrashes \in Nat
    /\ \A src \in InitialSources :
          /\ DOMAIN src \subseteq Objects
          /\ \A o \in DOMAIN src : src[o] \in SourceTable
    /\ \A tgt \in InitialTargets :
          /\ DOMAIN tgt \subseteq Names
          /\ \A n \in DOMAIN tgt : tgt[n] \in Table

Jobs == 1..MaxJobs

VARIABLES
    source,     \* the source database: object -> SourceTable
    target,     \* the target database: name -> Table
    registry,   \* the jobs job_registry still holds
    phase,      \* how far each job has got; Shown gives its MigrationJob.status
    steps,      \* MigrationJob.steps, by object and action: JobStep.status
    progress,   \* JobStep.progress_done of each object's copy step
    planned,    \* ObjectPlanEntry.columns_added, as stashed by prepare_job
    worker,     \* the local variables of each job's worker thread
    ghost,      \* history: what a copy set out to copy, and what it did
    writes,     \* writes of other clients so far
    crashes     \* crashes so far

vars == <<source, target, registry, phase, steps, progress, planned, worker,
          ghost, writes, crashes>>
databases == <<source, target>>
records == <<registry, phase, planned>>
environment == <<writes, crashes>>

-----------------------------------------------------------------------------
\* MigrationJob.status of a job that has got so far.
Shown(ph) == CASE ph = "none" -> "absent"
               [] ph = "prepared" -> "running"
               [] OTHER -> ph

Job == INSTANCE MigrationJob WITH status <- [j \in Jobs |-> Shown(phase[j])]

\* "prepared": registered, run() not scheduled yet.  "lost": the process died.
Phases == {"none", "prepared", "running", "done", "error", "lost"}

None == 0

\* Where the worker stands in its copy step: before Table(..., autoload_with),
\* at the select, at the batch insert, in the row-by-row fallback, after the loop.
CopyModes == {"off", "open", "select", "insert", "rows", "end"}

Worker == [
    cur : Objects \cup {None},          \* entry.name, None between objects
    todo : SUBSET Objects,              \* plan objects the loop has not reached
    existing : SUBSET Names,            \* existing_target_names
    newName : Names \cup {<<>>},        \* new_name, between computing it and renaming
    mode : CopyModes,
    last : Keys \cup {None},            \* last_pk
    done : Nat,                         \* rows counted as done
    batch : SUBSET Keys,                \* rows
    left : SUBSET Keys]                 \* rows the fallback has still to try

Idle == [cur |-> None, todo |-> {}, existing |-> {}, newName |-> <<>>,
         mode |-> "off", last |-> None, done |-> 0, batch |-> {}, left |-> {}]

\* For the copy a worker is in: `steady`, source rows there since it began and
\* not deleted since; `skipped`, rows the fallback's "except: pass" let go;
\* `inserted`, rows it wrote.
Ghost == [steady : SUBSET Keys, skipped : SUBSET Keys, inserted : SUBSET Keys]

CopyOf(keys) == [steady |-> keys, skipped |-> {}, inserted |-> {}]

NoGhost == CopyOf({})

Wrote(g, keys) == [g EXCEPT !.inserted = @ \cup keys]
Skipped(g, keys) == [g EXCEPT !.skipped = @ \cup keys]
Lost(g, keys) == [g EXCEPT !.steady = @ \ keys]

TypeOK ==
    /\ DOMAIN source \subseteq Objects
    /\ \A o \in DOMAIN source : source[o] \in SourceTable
    /\ DOMAIN target \subseteq Names
    /\ \A n \in DOMAIN target : target[n] \in Table
    /\ registry \subseteq Jobs
    /\ phase \in [Jobs -> Phases]
    /\ steps \in [Jobs -> Job!Plan]
    /\ progress \in [Jobs -> [Objects -> Nat]]
    /\ planned \in [Jobs -> [Objects -> SUBSET Columns]]
    /\ worker \in [Jobs -> Worker]
    /\ ghost \in [Jobs -> Ghost]
    /\ writes \in 0..MaxWrites
    /\ crashes \in 0..MaxCrashes

-----------------------------------------------------------------------------
\* A database refuses to create a table under a taken name, or to rename one to it.
Free(n) == n \notin DOMAIN target

Created(n, t) == [m \in DOMAIN target \cup {n} |-> IF m = n THEN t ELSE target[m]]

Renamed(old, new) ==
    [m \in (DOMAIN target \ {old}) \cup {new} |->
        IF m = new THEN target[old] ELSE target[m]]

\* Rows that a unique key of the table keeps out.
Duplicates(o, rows) ==
    IF o \in Keyed THEN rows \cap KeysOf(target[BaseName(o)]) ELSE {}

WithRows(t, rows) == [t EXCEPT !.rows = @ \cup (rows \X {"source"})]

-----------------------------------------------------------------------------
(* POST /execute: prepare_job.                                             *)

BuildSteps(included, versioned, scope) ==
    [o \in Objects |-> [a \in Job!Actions |->
        IF /\ o \in included \cap Known(source, target)
           /\ a \in StepsFor(o, source, target, o \in versioned, scope)
        THEN "pending" ELSE "none"]]

PlannedColumns ==
    [o \in Objects |->
        IF o \in DOMAIN source /\ BaseName(o) \in DOMAIN target
        THEN ColumnsAdded(o, source, target) ELSE {}]

\* included_names and version_flags are all that is taken from the client; the
\* statuses come from a fresh diff.  Ids are handed out in order of creation,
\* and job_registry.create drops the oldest job beyond RegistrySize, running
\* or not.
PrepareJob(j) ==
    /\ phase[j] = "none"
    /\ \A i \in Jobs : i < j => phase[i] # "none"
    /\ \E included \in SUBSET Objects : \E versioned \in SUBSET included :
          \E scope \in Scopes :
             steps' = [steps EXCEPT ![j] = BuildSteps(included, versioned, scope)]
    /\ planned' = [planned EXCEPT ![j] = PlannedColumns]
    /\ phase' = [phase EXCEPT ![j] = "prepared"]
    /\ registry' = {i \in registry \cup {j} : i > j - RegistrySize}
    /\ UNCHANGED <<databases, progress, worker, ghost, environment>>

-----------------------------------------------------------------------------
(* run and _run_job_sync.                                                  *)

Pending(j, o) == {a \in Job!Actions : steps[j][o][a] = "pending"}

\* The names the target holds now are those every version name of this job
\* will be checked against.  Objects without a step are passed over.
StartJob(j) ==
    /\ phase[j] = "prepared"
    /\ phase' = [phase EXCEPT ![j] = "running"]
    /\ worker' = [worker EXCEPT ![j] =
          [Idle EXCEPT !.existing = DOMAIN target,
                       !.todo = {o \in Objects : Pending(j, o) # {}}]]
    /\ UNCHANGED <<databases, registry, steps, progress, planned, ghost, environment>>

\* An engine or a snapshot fails: migration_error, and no step was begun.
StartFails(j) ==
    /\ phase[j] = "prepared"
    /\ phase' = [phase EXCEPT ![j] = "error"]
    /\ UNCHANGED <<databases, registry, steps, progress, planned, worker, ghost, environment>>

\* The loop is over: migration_done.
FinishJob(j) ==
    /\ phase[j] = "running"
    /\ worker[j].cur = None
    /\ worker[j].todo = {}
    /\ phase' = [phase EXCEPT ![j] = Job!Outcome(steps[j])]
    /\ UNCHANGED <<databases, registry, steps, progress, planned, worker, ghost, environment>>

-----------------------------------------------------------------------------
(* The steps of an object: _run_sql_object and _run_mongo_object.          *)

Running(j, a) ==
    /\ phase[j] = "running"
    /\ worker[j].cur # None
    /\ steps[j][worker[j].cur][a] = "running"

Resting(j) ==
    /\ phase[j] = "running"
    /\ \A o \in Objects, a \in Job!Actions : steps[j][o][a] # "running"

Started(w, o, a, new) ==
    [w EXCEPT !.cur = o, !.todo = @ \ {o}, !.newName = new,
              !.mode = IF a = "copy" THEN "open" ELSE "off"]

\* new_name, for the one step that has one.
NewNames(w, o, a) ==
    IF a = "version" THEN UNION {VersionNames(o, d, w.existing) : d \in Days} ELSE {<<>>}

\* _set_running on the next step, of this object or of the first one left.
BeginStep(j) ==
    /\ Resting(j)
    /\ \E o \in Objects :
          /\ \/ worker[j].cur = o
             \/ /\ worker[j].cur = None
                /\ o \in worker[j].todo
                /\ \A p \in worker[j].todo : o <= p
          /\ \E a \in Pending(j, o) :
                /\ \A b \in Pending(j, o) : Job!Rank[a] <= Job!Rank[b]
                /\ steps' = [steps EXCEPT ![j][o][a] = "running"]
                /\ \E new \in NewNames(worker[j], o, a) :
                      worker' = [worker EXCEPT ![j] = Started(worker[j], o, a, new)]
    /\ UNCHANGED <<databases, records, progress, ghost, environment>>

\* The worker between two steps of object o, or between two objects.
Stuck(w, o) == [w EXCEPT !.newName = <<>>, !.mode = "off",  \* mutated form: never
                         !.last = None, !.done = 0,         \* leaves its object
                         !.batch = {}, !.left = {}]
Rested(w, o) == [w EXCEPT !.cur = o, !.newName = <<>>, !.mode = "off",
                          !.last = None, !.done = 0, !.batch = {}, !.left = {}]

Knowing(w, names) == [w EXCEPT !.existing = @ \cup names]

\* _set_done, with `names` now known to exist.  The worker stays with its object
\* while steps of it are left.
Succeed(j, a, names) ==
    LET o == worker[j].cur
    IN  /\ steps' = [steps EXCEPT ![j][o][a] = "done"]
        /\ worker' = [worker EXCEPT ![j] =
              Knowing(Rested(worker[j], IF Pending(j, o) = {} THEN None ELSE o), names)]

\* The except clause: _fail_running_steps marks the step that is running, leaves
\* the pending ones as they are, and the loop goes on with the next object.
Fail(j, a) ==
    /\ steps' = [steps EXCEPT ![j][worker[j].cur][a] = "error"]
    /\ worker' = [worker EXCEPT ![j] = Rested(worker[j], None)]

\* Mutated form of RenameTable: whatever has the new name is dropped first.
RenameOver(j) ==
    /\ Running(j, "version")
    /\ BaseName(worker[j].cur) \in DOMAIN target
    /\ target' = Renamed(BaseName(worker[j].cur), worker[j].newName)
    /\ Succeed(j, "version", {worker[j].newName})
    /\ UNCHANGED <<source, records, progress, ghost, environment>>

RenameTable(j) ==
    LET old == BaseName(worker[j].cur)
        new == worker[j].newName
    IN  /\ Running(j, "version")
        /\ old \in DOMAIN target
        /\ Free(new)
        /\ target' = Renamed(old, new)
        /\ Succeed(j, "version", {new})
        /\ UNCHANGED <<source, records, progress, ghost, environment>>

\* build_create_table_ddl: the columns of the source, no index, no foreign key.
BareTable(o) == [cols |-> source[o].cols, extras |-> BareExtras, rows |-> {}]

\* Mutated form of CreateTable: DROP TABLE IF EXISTS first.
CreateOver(j) ==
    /\ Running(j, "create")
    /\ target' = Created(BaseName(worker[j].cur), BareTable(worker[j].cur))
    /\ Succeed(j, "create", {BaseName(worker[j].cur)})
    /\ UNCHANGED <<source, records, progress, ghost, environment>>

\* Only _run_mongo_object looks first whether the collection is there.
CreateTable(j) ==
    LET o == worker[j].cur
        n == BaseName(o)
    IN  /\ Running(j, "create")
        /\ \/ Free(n) /\ target' = Created(n, BareTable(o))
           \/ Kind = "mongo" /\ ~Free(n) /\ target' = target
        /\ Succeed(j, "create", {n})
        /\ UNCHANGED <<source, records, progress, ghost, environment>>

RebuiltWith(t, cols) == [t EXCEPT !.cols = cols]    \* mutated form: loses the others
WithColumns(t, cols) == [t EXCEPT !.cols = @ \cup cols]

AddColumns(j) ==
    LET o == worker[j].cur
        n == BaseName(o)
    IN  /\ Running(j, "columns")
        /\ n \in DOMAIN target
        /\ planned[j][o] \cap target[n].cols = {}
        /\ target' = [target EXCEPT ![n] = WithColumns(@, planned[j][o])]
        /\ Succeed(j, "columns", {})
        /\ UNCHANGED <<source, records, progress, ghost, environment>>

\* A call of the step fails: because the table, the name or a column is not as
\* the plan had it, or for a reason of the database's own.  Without
\* transactional DDL the columns added before the failing one stay.
StepFails(j) ==
    \E a \in Job!Actions :
        LET n == BaseName(worker[j].cur)
        IN  /\ Running(j, a)
            /\ a = "copy" => worker[j].mode \in {"open", "select"}
            /\ Fail(j, a)
            /\ \/ target' = target
               \/ /\ a = "columns" /\ ~AtomicDDL /\ n \in DOMAIN target
                  /\ \E some \in SUBSET (planned[j][worker[j].cur] \ target[n].cols) :
                        target' = [target EXCEPT ![n] = WithColumns(@, some)]
            /\ UNCHANGED <<source, records, progress, ghost, environment>>

-----------------------------------------------------------------------------
(* The copy loop: _copy_sql_rows and _copy_mongo_docs.                     *)

Copying(j, mode) == Running(j, "copy") /\ worker[j].mode = mode

\* Both tables are reflected before the loop; a collection need not exist.
OpenCopy(j) ==
    LET o == worker[j].cur
    IN  /\ Copying(j, "open")
        /\ Kind = "sql" => BaseName(o) \in DOMAIN target
        /\ worker' = [worker EXCEPT ![j].mode = "select"]
        /\ ghost' = [ghost EXCEPT ![j] = CopyOf(source[o].keys)]
        /\ UNCHANGED <<databases, records, steps, progress, environment>>

\* Mutated form of KeysetPages: the select without its ORDER BY.
UnorderedPages(o, last) ==
    LET rest == {k \in source[o].keys : k > last}
    IN  {page \in SUBSET rest :
            /\ Cardinality(page) <= BatchSize
            /\ Cardinality(page) < BatchSize => page = rest}

\* The first BatchSize rows in key order beyond the last one read.  For a
\* collection the order is the one its cursor returns the documents in.
KeysetPages(o, last) ==
    LET rest == {k \in source[o].keys : k > last}
    IN  {page \in SUBSET rest :
            /\ \A k \in page, other \in rest \ page : k < other
            /\ Cardinality(page) <= BatchSize
            /\ Cardinality(page) < BatchSize => page = rest}

\* OFFSET without ORDER BY: the number of rows is right, which ones is the
\* database's choice.
OffsetPages(o, offset) ==
    LET rest == Cardinality(source[o].keys) - offset
    IN  {page \in SUBSET source[o].keys :
            Cardinality(page) = IF rest <= 0 THEN 0
                                ELSE IF rest < BatchSize THEN rest ELSE BatchSize}

SelectBatch(j) ==
    LET w == worker[j]
    IN  /\ Copying(j, "select")
        /\ \E page \in IF w.cur \in Keyed THEN KeysetPages(w.cur, w.last)
                       ELSE OffsetPages(w.cur, w.done) :
              worker' = [worker EXCEPT ![j].batch = page,
                                       ![j].mode = IF page = {} THEN "end" ELSE "insert"]
        /\ UNCHANGED <<databases, records, steps, progress, ghost, environment>>

\* `count` rows more are done: last_pk moves to the last row m of the batch, and a
\* short batch ends the loop.
AfterBatch(w, m, count) ==
    [w EXCEPT !.last = IF w.cur \in Keyed THEN m ELSE None,
              !.done = w.done + count,
              !.batch = {},
              !.left = {},
              !.mode = IF Cardinality(w.batch) < BatchSize THEN "end" ELSE "select"]

EndBatch(j, count) ==
    LET w == worker[j]
    IN  /\ \E m \in w.batch :
              /\ \A k \in w.batch : k <= m
              /\ worker' = [worker EXCEPT ![j] = AfterBatch(w, m, count)]
        /\ progress' = [progress EXCEPT ![j][w.cur] = w.done + count]

\* The batch statement of _insert_ignore goes through, in one transaction.
InsertBatch(j) ==
    LET w == worker[j]
        n == BaseName(w.cur)
        dups == Duplicates(w.cur, w.batch)
    IN  /\ Kind = "sql"
        /\ Copying(j, "insert")
        /\ n \in DOMAIN target
        /\ w.batch \cap Rejected = {}
        /\ IgnoresDuplicates \/ dups = {}
        /\ target' = [target EXCEPT ![n] = WithRows(@, w.batch \ dups)]
        /\ ghost' = [ghost EXCEPT ![j] = Wrote(@, w.batch \ dups)]
        /\ EndBatch(j, Cardinality(w.batch))
        /\ UNCHANGED <<source, records, steps, environment>>

\* It does not, for whatever reason: the rows are tried one by one.
InsertBatchFails(j) ==
    /\ Kind = "sql"
    /\ Copying(j, "insert")
    /\ worker' = [worker EXCEPT ![j].mode = "rows", ![j].left = worker[j].batch]
    /\ UNCHANGED <<databases, records, steps, progress, ghost, environment>>

\* One row of the fallback: it goes in, or "except: pass".  Either way it has
\* been counted as done when the batch ends.
InsertRow(j) ==
    LET w == worker[j]
        n == BaseName(w.cur)
    IN  /\ Copying(j, "rows")
        /\ \E k \in w.left :
              /\ \A i \in w.left : k <= i
              /\ \/ /\ n \in DOMAIN target
                    /\ k \notin Rejected \cup Duplicates(w.cur, {k})
                    /\ target' = [target EXCEPT ![n] = WithRows(@, {k})]
                    /\ ghost' = [ghost EXCEPT ![j] = Wrote(@, {k})]
                 \/ /\ target' = target
                    /\ ghost' = [ghost EXCEPT ![j] = Skipped(@, {k})]
              /\ IF w.left = {k}
                 THEN EndBatch(j, Cardinality(w.batch))
                 ELSE /\ worker' = [worker EXCEPT ![j].left = @ \ {k}]
                      /\ progress' = progress
        /\ UNCHANGED <<source, records, steps, environment>>

\* What _insert_many_ignore returns when the server has answered.
Sent(sent, taken) == Cardinality(sent)      \* mutated form: len(docs), always
Inserted(sent, taken) == Cardinality(taken)

\* insert_many(ordered=False): a collection that is not there is made.  Either
\* the server answers, with every document it refused, and what it took is
\* counted; or the call is cut short and nothing is.
InsertMany(j) ==
    LET w == worker[j]
        n == BaseName(w.cur)
        there == n \in DOMAIN target
        old == IF there THEN target[n]
               ELSE [cols |-> {}, extras |-> BareExtras, rows |-> {}]
        dups == IF there THEN Duplicates(w.cur, w.batch) ELSE {}
        fit == w.batch \ (dups \cup Rejected)
    IN  /\ Kind = "mongo"
        /\ Copying(j, "insert")
        /\ \E taken \in SUBSET fit :
              /\ target' = IF there \/ taken # {}
                           THEN Created(n, WithRows(old, taken)) ELSE target
              /\ ghost' = [ghost EXCEPT
                    ![j] = Skipped(Wrote(@, taken), (w.batch \ dups) \ taken)]
              /\ \/ taken = fit /\ EndBatch(j, Inserted(w.batch, taken))
                 \/ EndBatch(j, 0)
        /\ UNCHANGED <<source, records, steps, environment>>

EndCopy(j) ==
    /\ Copying(j, "end")
    /\ Succeed(j, "copy", {})
    /\ UNCHANGED <<databases, records, progress, ghost, environment>>

-----------------------------------------------------------------------------
(* The surroundings.                                                       *)

WithSourceKeys(t, keys) == [t EXCEPT !.keys = keys]

\* Another client of the source inserts or deletes a row.
WriteSource ==
    /\ writes < MaxWrites
    /\ writes' = writes + 1
    /\ \E o \in DOMAIN source, k \in Keys :
          \/ /\ k \notin source[o].keys
             /\ source' = [source EXCEPT ![o] = WithSourceKeys(@, source[o].keys \cup {k})]
             /\ ghost' = ghost
          \/ /\ k \in source[o].keys
             /\ source' = [source EXCEPT ![o] = WithSourceKeys(@, source[o].keys \ {k})]
             /\ ghost' = [j \in Jobs |->
                   IF worker[j].cur = o THEN Lost(ghost[j], {k}) ELSE ghost[j]]
    /\ UNCHANGED <<target, records, steps, progress, worker, crashes>>

\* The server process dies: threads, contexts and registry with it.  A statement
\* in flight is rolled back, or has had part of its effect, which is the step that
\* has this part followed by a crash.
Crash ==
    /\ crashes < MaxCrashes
    /\ crashes' = crashes + 1
    /\ phase' = [j \in Jobs |-> IF phase[j] \in {"prepared", "running"}
                                THEN "lost" ELSE phase[j]]
    /\ registry' = {}
    /\ worker' = [j \in Jobs |-> Idle]
    /\ UNCHANGED <<databases, steps, progress, planned, ghost, writes>>

-----------------------------------------------------------------------------
Init ==
    /\ source \in InitialSources
    /\ target \in InitialTargets
    /\ registry = {}
    /\ phase = [j \in Jobs |-> "none"]
    /\ steps = [j \in Jobs |-> Job!NoSteps]
    /\ progress = [j \in Jobs |-> [o \in Objects |-> 0]]
    /\ planned = [j \in Jobs |-> [o \in Objects |-> {}]]
    /\ worker = [j \in Jobs |-> Idle]
    /\ ghost = [j \in Jobs |-> NoGhost]
    /\ writes = 0
    /\ crashes = 0

\* What the worker thread of job j does by itself.
Work(j) ==
    \/ StartJob(j) \/ StartFails(j) \/ FinishJob(j)
    \/ BeginStep(j) \/ StepFails(j)
    \/ RenameTable(j) \/ CreateTable(j) \/ AddColumns(j)
    \/ OpenCopy(j) \/ SelectBatch(j) \/ EndCopy(j)
    \/ InsertBatch(j) \/ InsertBatchFails(j) \/ InsertRow(j) \/ InsertMany(j)

Next ==
    \/ \E j \in Jobs : PrepareJob(j) \/ Work(j)
    \/ WriteSource
    \/ Crash

Spec == Init /\ [][Next]_vars

\* A thread that can take its next step takes it: every database call returns.
FairSpec == Spec /\ \A j \in Jobs : WF_vars(Work(j))

-----------------------------------------------------------------------------
(* Properties.                                                             *)

RowStored(o, k) ==
    \E n \in DOMAIN target : ObjectOf(n) = o /\ k \in KeysOf(target[n])

\* The statuses a job shows follow the protocol of MigrationJob, whatever the
\* databases, the other jobs and crashes do.
JobSpec == Job!Spec

\* What MigrationJob promises of a job holds of the engine's jobs: steps in order,
\* "done" only when everything was done, and a failure that keeps no other object
\* from being attempted.
JobPromises == Job!StepsInOrder /\ Job!DoneIsComplete /\ Job!FailureIsIsolated

\* No step of any job, and no failure, makes the target forget a row it has: the
\* row is still there, under the table's name or that of an archive of it.
\* (Rename before create, insert-or-ignore, and a rename that never overwrites.)
NoRowLost ==
    [][\A n \in DOMAIN target : \A r \in target[n].rows :
          \E m \in DOMAIN target' :
             ObjectOf(m) = ObjectOf(n) /\ r \in target'[m].rows]_vars

\* "Keep existing as a dated backup": once a table has its dated name nothing
\* writes to it or takes it away, not even a second job versioning the same
\* object on the same day with a list of names that lacks it.
ArchivesFrozen ==
    [][\A n \in DOMAIN target : IsArchive(n) =>
          n \in DOMAIN target' /\ target'[n] = target[n]]_vars

\* What changes on the target belongs to an object of the source for which some
\* job is in the middle of a step: objects the user left out, and those only the
\* target has (NEW_ON_TARGET, "never auto-dropped"), are not touched.
OnlyChosenChange ==
    [][\A n \in DOMAIN target \cup DOMAIN target' :
          \/ n \in DOMAIN target \cap DOMAIN target' /\ target'[n] = target[n]
          \/ /\ ObjectOf(n) \in DOMAIN source
             /\ \E j \in Jobs : \E a \in Job!Actions :
                   phase[j] = "running" /\ steps[j][ObjectOf(n)][a] = "running"]_vars

\* A keyset copy that gets to its end has delivered every row that was in the
\* source all along, except those the row-by-row fallback swallowed: rows that
\* other clients insert or delete meanwhile shift no page.  (The same cannot be
\* said of the OFFSET pages of _copy_sql_rows, for tables without a single key.)
CopyComplete ==
    \A j \in Jobs :
        worker[j].mode = "end" /\ worker[j].cur \in Keyed =>
            \A k \in ghost[j].steady :
                RowStored(worker[j].cur, k) \/ k \in ghost[j].skipped

\* A table that a create or columns step of some job has brought up to date has
\* every column of the source from then on, whichever jobs rename it, create it
\* again or fail half-way on it.
SchemaReached ==
    \A j \in Jobs, o \in Objects :
        /\ steps[j][o]["create"] = "done" \/ steps[j][o]["columns"] = "done"
        /\ Kind = "sql"
        /\ BaseName(o) \in DOMAIN target
        => source[o].cols \subseteq target[BaseName(o)].cols

\* The rows a MongoDB copy reports (nInserted) are rows this copy wrote.  The SQL
\* copy counts the rows it read, written or not.
ProgressIsHonest ==
    \A j \in Jobs :
        Kind = "mongo" => worker[j].done <= Cardinality(ghost[j].inserted)

\* A job that was accepted reaches a verdict, or dies with its server: no
\* failure, no other job and no write to the source keeps its loops going.
EveryJobEnds ==
    \A j \in Jobs : phase[j] = "prepared" ~> phase[j] \in {"done", "error", "lost"}
=============================================================================
