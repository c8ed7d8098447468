------------------------ MODULE MigrationExecutorProofs ------------------------
(***************************************************************************)
(* Theorems about MigrationExecutor, for every value of its constants.     *)
(*                                                                         *)
(* TypeInv: typing alone is not inductive.  That a rename has a name to    *)
(* rename to, or that a copy has a source to read, follows from where the  *)
(* worker stands, which is what ControlInv says.                           *)
(*                                                                         *)
(* On it rest: TargetSteps, what any step may do to the target, for the    *)
(* action properties; SchemaInv for the columns of the target; CopyInv and *)
(* CountInv for the rows a copy delivers and counts; LoopInv for the       *)
(* refinement of MigrationJob.                                             *)
(***************************************************************************)
EXTENDS MigrationExecutor, FiniteSetTheorems, TLAPS

\* A set of keys has a size, which is what done and progress_done add up.
LEMMA KeySetsAreFinite ==
    ASSUME NEW S \in SUBSET Keys
    PROVE  IsFiniteSet(S) /\ Cardinality(S) \in Nat
BY PlanAssumption, FS_Subset, FS_CardinalityType

LEMMA KeysAreNumbers == Keys \cup {None} \subseteq Nat /\ None \notin Keys
BY PlanAssumption DEF None

\* The name an object's archive may get.
ArchiveNames(o) == {n \in Names : ObjectOf(n) = o /\ IsArchive(n)}

LEMMA VersionNamesAreNames ==
    ASSUME NEW o \in Objects, NEW d \in Days, NEW existing
    PROVE  VersionNames(o, d, existing) \subseteq ArchiveNames(o)
<1> SUFFICES ASSUME NEW n \in 1..MaxVersion
             PROVE  <<o, d, n>> \in ArchiveNames(o)
  BY DEF VersionNames
<1>1. n \in Nat /\ d \in Nat /\ d # 0
  BY PlanAssumption
<1> QED
  BY <1>1 DEF ArchiveNames, Names, ObjectOf, IsArchive, BaseName

LEMMA BaseNamesAreNames ==
    ASSUME NEW o \in Objects
    PROVE  BaseName(o) \in Names /\ ObjectOf(BaseName(o)) = o /\ ~IsArchive(BaseName(o))
BY DEF BaseName, Names, ObjectOf, IsArchive

-----------------------------------------------------------------------------
(* Where a worker stands.                                                  *)

\* A step was built for objects of the source only.
HasSource ==
    \A j \in Jobs, o \in Objects, a \in Job!Actions :
        steps[j][o][a] # "none" => o \in DOMAIN source

\* The only step that runs is one of the object the worker is at.
OneRunning ==
    \A j \in Jobs, o \in Objects, a \in Job!Actions :
        steps[j][o][a] = "running" /\ phase[j] # "lost" =>
            /\ phase[j] = "running"
            /\ worker[j].cur = o
            /\ \A b \in Job!Actions : steps[j][o][b] = "running" => a = b

\* A worker that is somewhere in the copy loop is so in a running copy step.
ModeIsCopying ==
    \A j \in Jobs : worker[j].mode # "off" => Running(j, "copy")

\* A rename that is due has the name of an archive to rename to.
VersionIsNamed ==
    \A j \in Jobs : Running(j, "version") =>
        worker[j].newName \in ArchiveNames(worker[j].cur)

ControlInv == HasSource /\ OneRunning /\ ModeIsCopying /\ VersionIsNamed

TypeInv == TypeOK /\ ControlInv

LEMMA TypeInit == Init => TypeInv
<1> SUFFICES ASSUME Init PROVE TypeInv
  OBVIOUS
<1> USE DEF Init
<1>1. TypeOK
  <2>1. Job!NoSteps \in Job!Plan
    BY DEF Job!NoSteps, Job!Plan, Job!StepStatus, Job!Actions
  <2>2. Idle \in Worker /\ NoGhost \in Ghost
    BY DEF Idle, Worker, NoGhost, CopyOf, Ghost, CopyModes
  <2> QED
    BY <2>1, <2>2, ExecutorAssumption DEF TypeOK, Phases
<1>2. HasSource /\ OneRunning
  BY DEF HasSource, OneRunning, Job!NoSteps
<1>3. ModeIsCopying /\ VersionIsNamed
  BY DEF ModeIsCopying, VersionIsNamed, Idle, Running
<1> QED
  BY <1>1, <1>2, <1>3 DEF TypeInv, ControlInv

-----------------------------------------------------------------------------
(* How a step that ends, and a step of the copy loop, move the worker.     *)

\* Ending the running step leaves no step of the job running.
LEMMA StepEnds ==
    ASSUME TypeInv, NEW j \in Jobs, NEW a \in Job!Actions, Running(j, a),
           NEW outcome \in {"done", "error"}, NEW w \in Worker, w.mode = "off",
           steps' = [steps EXCEPT ![j][worker[j].cur][a] = outcome],
           worker' = [worker EXCEPT ![j] = w],
           UNCHANGED <<source, phase>>
    PROVE  /\ steps' \in [Jobs -> Job!Plan]
           /\ worker' \in [Jobs -> Worker]
           /\ ControlInv'
<1> DEFINE o == worker[j].cur
<1>1. o \in Objects /\ steps[j][o][a] = "running" /\ phase[j] = "running"
  BY DEF TypeInv, TypeOK, Running, Worker
<1>2. steps' \in [Jobs -> Job!Plan]
  BY <1>1 DEF TypeInv, TypeOK, Job!Plan, Job!StepStatus
<1>3. worker' \in [Jobs -> Worker] /\ worker'[j] = w
  BY DEF TypeInv, TypeOK
<1>4. \A p \in Objects, b \in Job!Actions : steps'[j][p][b] # "running"
  <2> SUFFICES ASSUME NEW p \in Objects, NEW b \in Job!Actions,
                      steps'[j][p][b] = "running"
               PROVE  FALSE
    OBVIOUS
  <2>1. steps[j][p][b] = "running" /\ ~(p = o /\ b = a)
    BY <1>1 DEF TypeInv, TypeOK, Job!Plan
  <2>2. p = o /\ a = b
    BY <1>1, <2>1 DEF TypeInv, ControlInv, OneRunning
  <2> QED
    BY <2>1, <2>2
<1>5. \A i \in Jobs : i # j => steps'[i] = steps[i] /\ worker'[i] = worker[i]
  BY DEF TypeInv, TypeOK
<1>6. HasSource'
  BY <1>1 DEF TypeInv, TypeOK, ControlInv, HasSource, Job!Plan
<1>7. OneRunning'
  BY <1>4, <1>5 DEF TypeInv, ControlInv, OneRunning
<1>8. ModeIsCopying'
  BY <1>3, <1>5 DEF TypeInv, ControlInv, ModeIsCopying, Running
<1>9. VersionIsNamed'
  <2> SUFFICES ASSUME NEW i \in Jobs, Running(i, "version")'
               PROVE  worker'[i].newName \in ArchiveNames(worker'[i].cur)
    BY DEF VersionIsNamed, ArchiveNames
  <2>1. worker'[i].cur \in Objects
    BY <1>3 DEF Running, Worker
  <2>2. i # j
    BY <1>4, <2>1 DEF Running, Job!Actions
  <2> QED
    BY <1>5, <2>2 DEF TypeInv, ControlInv, VersionIsNamed, Running
<1> QED
  BY <1>2, <1>3, <1>6, <1>7, <1>8, <1>9 DEF ControlInv

LEMMA RestedType ==
    ASSUME NEW w \in Worker, NEW o \in Objects \cup {None}, NEW names \in SUBSET Names
    PROVE  /\ Rested(w, o) \in Worker /\ Rested(w, o).mode = "off"
           /\ Knowing(Rested(w, o), names) \in Worker
           /\ Knowing(Rested(w, o), names).mode = "off"
BY DEF Rested, Knowing, Worker, CopyModes

LEMMA SucceedType ==
    ASSUME TypeInv, NEW j \in Jobs, NEW a \in Job!Actions, NEW names \in SUBSET Names,
           Running(j, a), Succeed(j, a, names), UNCHANGED <<source, phase>>
    PROVE  /\ steps' \in [Jobs -> Job!Plan]
           /\ worker' \in [Jobs -> Worker]
           /\ ControlInv'
<1> DEFINE o == worker[j].cur
           w == Knowing(Rested(worker[j], IF Pending(j, o) = {} THEN None ELSE o), names)
<1>1. worker[j] \in Worker /\ o \in Objects
  BY DEF TypeInv, TypeOK, Running, Worker
<1>2. w \in Worker /\ w.mode = "off"
  BY <1>1, RestedType
<1>3. /\ steps' = [steps EXCEPT ![j][o][a] = "done"]
      /\ worker' = [worker EXCEPT ![j] = w]
  BY DEF Succeed
<1> QED
  BY <1>2, <1>3, StepEnds

LEMMA FailType ==
    ASSUME TypeInv, NEW j \in Jobs, NEW a \in Job!Actions,
           Running(j, a), Fail(j, a), UNCHANGED <<source, phase>>
    PROVE  /\ steps' \in [Jobs -> Job!Plan]
           /\ worker' \in [Jobs -> Worker]
           /\ ControlInv'
<1> DEFINE w == Rested(worker[j], None)
<1>1. w \in Worker /\ w.mode = "off"
  BY RestedType DEF TypeInv, TypeOK
<1>2. /\ steps' = [steps EXCEPT ![j][worker[j].cur][a] = "error"]
      /\ worker' = [worker EXCEPT ![j] = w]
  BY DEF Fail
<1> QED
  BY <1>1, <1>2, StepEnds

\* A step inside the copy loop leaves the step statuses and the object alone.
LEMMA LoopType ==
    ASSUME TypeInv, NEW j \in Jobs, Running(j, "copy"), NEW w \in Worker,
           w.cur = worker[j].cur,
           worker' = [worker EXCEPT ![j] = w],
           UNCHANGED <<steps, phase>>, DOMAIN source' = DOMAIN source
    PROVE  worker' \in [Jobs -> Worker] /\ ControlInv'
<1> DEFINE o == worker[j].cur
<1>1. o \in Objects /\ steps[j][o]["copy"] = "running" /\ phase[j] = "running"
  BY DEF TypeInv, TypeOK, Running, Worker
<1>2. worker' \in [Jobs -> Worker] /\ worker'[j] = w
  BY DEF TypeInv, TypeOK
<1>3. \A i \in Jobs : i # j => worker'[i] = worker[i]
  BY DEF TypeInv, TypeOK
<1>4. HasSource'
  BY DEF TypeInv, ControlInv, HasSource
<1>5. OneRunning'
  BY <1>2, <1>3 DEF TypeInv, ControlInv, OneRunning
<1>6. ModeIsCopying'
  BY <1>1, <1>2, <1>3 DEF TypeInv, ControlInv, ModeIsCopying, Running
<1>7. VersionIsNamed'
  <2>1. steps[j][o]["version"] # "running"
    BY <1>1 DEF TypeInv, ControlInv, OneRunning, Job!Actions
  <2> QED
    BY <1>2, <1>3, <2>1 DEF TypeInv, ControlInv, VersionIsNamed, Running
<1> QED
  BY <1>2, <1>4, <1>5, <1>6, <1>7 DEF ControlInv

LEMMA EndBatchType ==
    ASSUME TypeInv, NEW j \in Jobs, Running(j, "copy"), NEW count \in Nat,
           EndBatch(j, count), UNCHANGED <<steps, phase, source>>
    PROVE  /\ worker' \in [Jobs -> Worker]
           /\ progress' \in [Jobs -> [Objects -> Nat]]
           /\ ControlInv'
<1>1. worker[j] \in Worker /\ worker[j].cur \in Objects
  BY DEF TypeInv, TypeOK, Running, Worker
<1>2. PICK m \in worker[j].batch :
         worker' = [worker EXCEPT ![j] = AfterBatch(worker[j], m, count)]
  BY DEF EndBatch
<1>3. m \in Keys /\ worker[j].done + count \in Nat
  BY <1>1 DEF Worker
<1>4. /\ AfterBatch(worker[j], m, count) \in Worker
      /\ AfterBatch(worker[j], m, count).cur = worker[j].cur
  BY <1>1, <1>3 DEF AfterBatch, Worker, CopyModes
<1>5. progress' \in [Jobs -> [Objects -> Nat]]
  BY <1>1, <1>3 DEF EndBatch, TypeInv, TypeOK
<1> QED
  BY <1>2, <1>4, <1>5, LoopType

\* Writing a table, making one and renaming one keep the target in its type.
LEMMA TargetTypes ==
    ASSUME TypeInv, NEW n \in Names, NEW t \in Table
    PROVE  /\ DOMAIN Created(n, t) \subseteq Names
           /\ \A m \in DOMAIN Created(n, t) : Created(n, t)[m] \in Table
           /\ DOMAIN [target EXCEPT ![n] = t] \subseteq Names
           /\ \A m \in DOMAIN target : [target EXCEPT ![n] = t][m] \in Table
           /\ \A old \in DOMAIN target :
                 /\ DOMAIN Renamed(old, n) \subseteq Names
                 /\ \A m \in DOMAIN Renamed(old, n) : Renamed(old, n)[m] \in Table
BY DEF TypeInv, TypeOK, Created, Renamed

LEMMA WrittenTypes ==
    ASSUME NEW t \in Table, NEW rows \in SUBSET Keys, NEW cols \in SUBSET Columns
    PROVE  WithRows(t, rows) \in Table /\ WithColumns(t, cols) \in Table
BY DEF WithRows, WithColumns, Table, Origins

-----------------------------------------------------------------------------
(* One lemma per action.                                                   *)

LEMMA StepsForSource ==
    ASSUME NEW o \in Known(source, target), NEW versioned, NEW scope,
           StepsFor(o, source, target, versioned, scope) # {}
    PROVE  o \in DOMAIN source
<1> SUFFICES ASSUME o \notin DOMAIN source
             PROVE  FALSE
  OBVIOUS
<1>1. BaseName(o) \in DOMAIN target
  BY DEF Known
<1>2. StatusOf(o, source, target) = "new_on_target"
  BY <1>1 DEF StatusOf
<1> QED
  BY <1>2 DEF StepsFor

LEMMA PrepareType ==
    ASSUME TypeInv, NEW j \in Jobs, PrepareJob(j)
    PROVE  TypeInv'
<1>1. PICK included \in SUBSET Objects : \E versioned \in SUBSET included :
        \E scope \in Scopes :
           steps' = [steps EXCEPT ![j] = BuildSteps(included, versioned, scope)]
  BY DEF PrepareJob
<1>2. PICK versioned \in SUBSET included, scope \in Scopes :
           steps' = [steps EXCEPT ![j] = BuildSteps(included, versioned, scope)]
  BY <1>1
<1>3. steps' \in [Jobs -> Job!Plan]
  BY <1>2 DEF TypeInv, TypeOK, BuildSteps, Job!Plan, Job!StepStatus
<1>4. planned' \in [Jobs -> [Objects -> SUBSET Columns]]
  <2>1. PlannedColumns \in [Objects -> SUBSET Columns]
    BY DEF TypeInv, TypeOK, PlannedColumns, ColumnsAdded, SourceTable
  <2> QED
    BY <2>1 DEF PrepareJob, TypeInv, TypeOK
<1>5. /\ phase' \in [Jobs -> Phases] /\ registry' \subseteq Jobs
      /\ phase[j] = "none" /\ phase'[j] = "prepared"
      /\ \A i \in Jobs : i # j => phase'[i] = phase[i] /\ steps'[i] = steps[i]
  BY <1>2 DEF PrepareJob, TypeInv, TypeOK, Phases
<1>6. \A o \in Objects, a \in Job!Actions :
         steps'[j][o][a] # "none" =>
             o \in Known(source, target) /\ steps'[j][o][a] = "pending"
             /\ StepsFor(o, source, target, o \in versioned, scope) # {}
  BY <1>2 DEF TypeInv, TypeOK, BuildSteps
<1>7. HasSource'
  BY <1>5, <1>6, StepsForSource DEF HasSource, TypeInv, ControlInv, PrepareJob, databases
<1>8. OneRunning'
  BY <1>5, <1>6 DEF OneRunning, TypeInv, ControlInv, PrepareJob
<1>9. ModeIsCopying' /\ VersionIsNamed'
  BY <1>5 DEF ModeIsCopying, VersionIsNamed, Running, TypeInv, ControlInv, PrepareJob
<1> QED
  BY <1>3, <1>4, <1>5, <1>7, <1>8, <1>9
     DEF TypeInv, TypeOK, ControlInv, PrepareJob, databases, environment

LEMMA BeginStepType ==
    ASSUME TypeInv, NEW j \in Jobs, BeginStep(j)
    PROVE  TypeInv'
<1>1. PICK o \in Objects : \E a \in Pending(j, o) :
        /\ steps' = [steps EXCEPT ![j][o][a] = "running"]
        /\ \E new \in NewNames(worker[j], o, a) :
              worker' = [worker EXCEPT ![j] = Started(worker[j], o, a, new)]
  BY DEF BeginStep
<1>2. PICK a \in Pending(j, o) :
        /\ steps' = [steps EXCEPT ![j][o][a] = "running"]
        /\ \E new \in NewNames(worker[j], o, a) :
              worker' = [worker EXCEPT ![j] = Started(worker[j], o, a, new)]
  BY <1>1
<1>3. PICK new \in NewNames(worker[j], o, a) :
        worker' = [worker EXCEPT ![j] = Started(worker[j], o, a, new)]
  BY <1>2
<1>4. a \in Job!Actions /\ steps[j][o][a] = "pending"
  BY DEF Pending
<1>5. new \in Names \cup {<<>>} /\ (a = "version" => new \in ArchiveNames(o))
  BY VersionNamesAreNames DEF NewNames, ArchiveNames
<1> DEFINE w == Started(worker[j], o, a, new)
<1>6. /\ worker[j] \in Worker /\ phase[j] = "running"
      /\ \A p \in Objects, b \in Job!Actions : steps[j][p][b] # "running"
  BY DEF TypeInv, TypeOK, BeginStep, Resting
<1>7. w \in Worker
  BY <1>5, <1>6 DEF Started, Worker, CopyModes
<1>8. w.cur = o /\ w.newName = new /\ (w.mode # "off" => a = "copy")
  BY <1>6 DEF Started, Worker
<1>9. worker' \in [Jobs -> Worker] /\ worker'[j] = w
  BY <1>3, <1>7 DEF TypeInv, TypeOK
<1>10. steps' \in [Jobs -> Job!Plan]
  BY <1>2, <1>4 DEF TypeInv, TypeOK, Job!Plan, Job!StepStatus
<1>11. \A p \in Objects, b \in Job!Actions :
          /\ steps'[j][p][b] = "running" <=> p = o /\ b = a
          /\ (p = o /\ b = a) \/ steps'[j][p][b] = steps[j][p][b]
  BY <1>2, <1>4, <1>6 DEF TypeInv, TypeOK, Job!Plan
<1>12. \A i \in Jobs : i # j => steps'[i] = steps[i] /\ worker'[i] = worker[i]
  BY <1>2, <1>3 DEF TypeInv, TypeOK
<1>13. phase' = phase /\ source' = source /\ o # None
  BY PlanAssumption DEF BeginStep, records, databases, None
<1>14. HasSource'
  BY <1>4, <1>11, <1>12, <1>13 DEF HasSource, TypeInv, ControlInv
<1>15. OneRunning'
  BY <1>6, <1>8, <1>9, <1>11, <1>12, <1>13 DEF OneRunning, TypeInv, ControlInv
<1>16. ModeIsCopying'
  BY <1>4, <1>6, <1>8, <1>9, <1>11, <1>12, <1>13
     DEF ModeIsCopying, Running, TypeInv, ControlInv
<1>17. VersionIsNamed'
  <2> SUFFICES ASSUME NEW i \in Jobs, Running(i, "version")'
               PROVE  worker'[i].newName \in ArchiveNames(worker'[i].cur)
    BY DEF VersionIsNamed, ArchiveNames
  <2>1. CASE i = j
    BY <1>5, <1>8, <1>9, <1>11, <2>1 DEF Running, Job!Actions
  <2>2. CASE i # j
    BY <1>12, <1>13, <2>2 DEF VersionIsNamed, Running, TypeInv, ControlInv
  <2> QED
    BY <2>1, <2>2
<1> QED
  BY <1>9, <1>10, <1>14, <1>15, <1>16, <1>17
     DEF TypeInv, TypeOK, ControlInv, BeginStep, databases, records, environment

LEMMA PhaseType ==
    ASSUME TypeInv, NEW j \in Jobs, StartJob(j) \/ StartFails(j) \/ FinishJob(j)
    PROVE  TypeInv'
<1>1. worker[j] \in Worker
  BY DEF TypeInv, TypeOK
<1>2. \A o \in Objects, a \in Job!Actions : steps[j][o][a] # "running"
  <2>1. phase[j] = "running" => worker[j].cur = None
    BY DEF StartJob, StartFails, FinishJob
  <2>2. \A o \in Objects : o # None
    BY PlanAssumption DEF None
  <2>3. phase[j] # "lost"
    BY DEF StartJob, StartFails, FinishJob
  <2> QED
    BY <2>1, <2>2, <2>3 DEF TypeInv, ControlInv, OneRunning
<1>3. /\ phase' \in [Jobs -> Phases]
      /\ \A i \in Jobs : i # j => phase'[i] = phase[i]
  BY DEF StartJob, StartFails, FinishJob, Phases, Job!Outcome, TypeInv, TypeOK
<1>4. worker' \in [Jobs -> Worker] /\ \A i \in Jobs : i # j => worker'[i] = worker[i]
  <2>1. [Idle EXCEPT !.existing = DOMAIN target,
                     !.todo = {o \in Objects : Pending(j, o) # {}}] \in Worker
    BY DEF TypeInv, TypeOK, Idle, Worker, CopyModes
  <2> QED
    BY <2>1 DEF StartJob, StartFails, FinishJob, TypeInv, TypeOK
<1>5. ~ Running(j, "copy") /\ ~ Running(j, "version")
  BY <1>1, <1>2 DEF Running, Worker, Job!Actions
<1>6. worker'[j].mode = "off"
  <2>1. worker[j].mode = "off"
    BY <1>5 DEF TypeInv, ControlInv, ModeIsCopying
  <2> QED
    BY <2>1 DEF StartJob, StartFails, FinishJob, Idle, TypeInv, TypeOK
<1>7. steps' = steps /\ source' = source
  BY DEF StartJob, StartFails, FinishJob, databases
<1>8. HasSource' /\ OneRunning'
  BY <1>2, <1>3, <1>4, <1>7 DEF HasSource, OneRunning, TypeInv, ControlInv
<1>9. ModeIsCopying'
  BY <1>3, <1>4, <1>6, <1>7 DEF ModeIsCopying, Running, TypeInv, ControlInv
<1>10. VersionIsNamed'
  <2> SUFFICES ASSUME NEW i \in Jobs, Running(i, "version")'
               PROVE  worker'[i].newName \in ArchiveNames(worker'[i].cur)
    BY DEF VersionIsNamed, ArchiveNames
  <2>1. worker'[i].cur \in Objects
    BY <1>4 DEF Running, Worker
  <2>2. i # j
    BY <1>2, <1>7, <2>1 DEF Running, Job!Actions
  <2> QED
    BY <1>3, <1>4, <1>7, <2>2 DEF VersionIsNamed, Running, TypeInv, ControlInv
<1> QED
  BY <1>3, <1>4, <1>7, <1>8, <1>9, <1>10
     DEF TypeInv, TypeOK, ControlInv, StartJob, StartFails, FinishJob, databases, environment

\* What the actions within an object's steps leave alone.
LEMMA Framed ==
    ASSUME TypeInv, UNCHANGED <<registry, planned, environment>>, phase' = phase,
           DOMAIN source' \subseteq Objects,
           \A o \in DOMAIN source' : source'[o] \in SourceTable,
           DOMAIN target' \subseteq Names,
           \A n \in DOMAIN target' : target'[n] \in Table,
           steps' \in [Jobs -> Job!Plan],
           worker' \in [Jobs -> Worker],
           progress' \in [Jobs -> [Objects -> Nat]],
           ghost' \in [Jobs -> Ghost],
           ControlInv'
    PROVE  TypeInv'
BY DEF TypeInv, TypeOK, environment

LEMMA RenameType ==
    ASSUME TypeInv, NEW j \in Jobs, RenameTable(j)
    PROVE  TypeInv'
<1> DEFINE old == BaseName(worker[j].cur)
           new == worker[j].newName
<1>1. /\ Running(j, "version") /\ Succeed(j, "version", {new})
      /\ old \in DOMAIN target /\ target' = Renamed(old, new)
      /\ UNCHANGED <<source, records, progress, ghost, environment>>
  BY DEF RenameTable
<1>2. new \in Names
  BY <1>1 DEF TypeInv, ControlInv, VersionIsNamed, ArchiveNames
<1>3. /\ steps' \in [Jobs -> Job!Plan] /\ worker' \in [Jobs -> Worker] /\ ControlInv'
  BY <1>1, <1>2, SucceedType DEF records, Job!Actions
<1>4. DOMAIN target' \subseteq Names /\ \A n \in DOMAIN target' : target'[n] \in Table
  BY <1>1, <1>2 DEF TypeInv, TypeOK, Renamed
<1> QED
  BY <1>1, <1>3, <1>4, Framed DEF records, TypeInv, TypeOK

LEMMA CreateType ==
    ASSUME TypeInv, NEW j \in Jobs, CreateTable(j)
    PROVE  TypeInv'
<1> DEFINE o == worker[j].cur
           n == BaseName(o)
<1>1. /\ Running(j, "create") /\ Succeed(j, "create", {n})
      /\ target' = Created(n, BareTable(o)) \/ target' = target
      /\ UNCHANGED <<source, records, progress, ghost, environment>>
  BY DEF CreateTable
<1>2. o \in Objects /\ o \in DOMAIN source /\ n \in Names
  <2>1. o \in Objects
    BY <1>1 DEF Running, TypeInv, TypeOK, Worker
  <2> QED
    BY <1>1, <2>1, BaseNamesAreNames DEF Running, TypeInv, ControlInv, HasSource, Job!Actions
<1>3. /\ steps' \in [Jobs -> Job!Plan] /\ worker' \in [Jobs -> Worker] /\ ControlInv'
  BY <1>1, <1>2, SucceedType DEF records, Job!Actions
<1>4. BareTable(o) \in Table
  BY <1>2, PlanAssumption DEF BareTable, Table, TypeInv, TypeOK, SourceTable
<1>5. DOMAIN target' \subseteq Names /\ \A m \in DOMAIN target' : target'[m] \in Table
  BY <1>1, <1>2, <1>4, TargetTypes DEF TypeInv, TypeOK
<1> QED
  BY <1>1, <1>3, <1>5, Framed DEF records, TypeInv, TypeOK

LEMMA ColumnsType ==
    ASSUME TypeInv, NEW j \in Jobs, AddColumns(j)
    PROVE  TypeInv'
<1> DEFINE o == worker[j].cur
           n == BaseName(o)
<1>1. /\ Running(j, "columns") /\ Succeed(j, "columns", {}) /\ n \in DOMAIN target
      /\ target' = [target EXCEPT ![n] = WithColumns(target[n], planned[j][o])]
      /\ UNCHANGED <<source, records, progress, ghost, environment>>
  BY DEF AddColumns
<1>2. o \in Objects
  BY <1>1 DEF Running, TypeInv, TypeOK, Worker
<1>3. /\ steps' \in [Jobs -> Job!Plan] /\ worker' \in [Jobs -> Worker] /\ ControlInv'
  BY <1>1, SucceedType DEF records, Job!Actions
<1>4. WithColumns(target[n], planned[j][o]) \in Table
  BY <1>1, <1>2, WrittenTypes DEF TypeInv, TypeOK
<1>5. DOMAIN target' \subseteq Names /\ \A m \in DOMAIN target' : target'[m] \in Table
  BY <1>1, <1>4 DEF TypeInv, TypeOK
<1> QED
  BY <1>1, <1>3, <1>5, Framed DEF records, TypeInv, TypeOK

LEMMA StepFailsType ==
    ASSUME TypeInv, NEW j \in Jobs, StepFails(j)
    PROVE  TypeInv'
<1> DEFINE o == worker[j].cur
           n == BaseName(o)
<1>1. PICK a \in Job!Actions :
        /\ Running(j, a) /\ Fail(j, a)
        /\ \/ target' = target
           \/ /\ n \in DOMAIN target
              /\ \E some \in SUBSET (planned[j][o] \ target[n].cols) :
                    target' = [target EXCEPT ![n] = WithColumns(target[n], some)]
        /\ UNCHANGED <<source, records, progress, ghost, environment>>
  BY DEF StepFails
<1>2. o \in Objects
  BY <1>1 DEF Running, TypeInv, TypeOK, Worker
<1>3. /\ steps' \in [Jobs -> Job!Plan] /\ worker' \in [Jobs -> Worker] /\ ControlInv'
  BY <1>1, FailType DEF records
<1>4. DOMAIN target' \subseteq Names /\ \A m \in DOMAIN target' : target'[m] \in Table
  <2>1. CASE target' = target
    BY <2>1 DEF TypeInv, TypeOK
  <2>2. ASSUME n \in DOMAIN target, NEW some \in SUBSET (planned[j][o] \ target[n].cols),
               target' = [target EXCEPT ![n] = WithColumns(target[n], some)]
        PROVE  DOMAIN target' \subseteq Names /\ \A m \in DOMAIN target' : target'[m] \in Table
    <3>1. WithColumns(target[n], some) \in Table
      BY <1>2, <2>2, WrittenTypes DEF TypeInv, TypeOK
    <3> QED
      BY <2>2, <3>1 DEF TypeInv, TypeOK
  <2> QED
    BY <1>1, <2>1, <2>2
<1> QED
  BY <1>1, <1>3, <1>4, Framed DEF records, TypeInv, TypeOK

LEMMA GhostTypes ==
    ASSUME NEW g \in Ghost, NEW keys \in SUBSET Keys
    PROVE  /\ CopyOf(keys) \in Ghost /\ Wrote(g, keys) \in Ghost
           /\ Skipped(g, keys) \in Ghost /\ Lost(g, keys) \in Ghost
BY DEF Ghost, CopyOf, Wrote, Skipped, Lost

LEMMA LoopStepsType ==
    ASSUME TypeInv, NEW j \in Jobs,
           OpenCopy(j) \/ SelectBatch(j) \/ InsertBatchFails(j)
    PROVE  TypeInv'
<1>1. worker[j] \in Worker /\ worker[j].cur \in Objects /\ Running(j, "copy")
  BY DEF OpenCopy, SelectBatch, InsertBatchFails, Copying, Running, TypeInv, TypeOK, Worker
<1>2. worker[j].cur \in DOMAIN source
  BY <1>1 DEF Running, TypeInv, ControlInv, HasSource, Job!Actions
<1>3. source[worker[j].cur].keys \subseteq Keys
  BY <1>2 DEF TypeInv, TypeOK, SourceTable
<1>4. \E w \in Worker : w.cur = worker[j].cur /\ worker' = [worker EXCEPT ![j] = w]
  <2>1. CASE OpenCopy(j)
    <3>1. [worker[j] EXCEPT !.mode = "select"] \in Worker
      BY <1>1 DEF Worker, CopyModes
    <3>2. worker' = [worker EXCEPT ![j] = [worker[j] EXCEPT !.mode = "select"]]
      BY <2>1 DEF OpenCopy
    <3> QED
      BY <1>1, <3>1, <3>2 DEF Worker
  <2>2. CASE SelectBatch(j)
    <3>1. PICK page \in SUBSET Keys :
             worker' = [worker EXCEPT ![j].batch = page,
                           ![j].mode = IF page = {} THEN "end" ELSE "insert"]
      BY <1>3, <2>2 DEF SelectBatch, KeysetPages, OffsetPages
    <3> DEFINE w == [worker[j] EXCEPT !.batch = page,
                           !.mode = IF page = {} THEN "end" ELSE "insert"]
    <3>2. w \in Worker /\ w.cur = worker[j].cur
      BY <1>1 DEF Worker, CopyModes
    <3>3. worker' = [worker EXCEPT ![j] = w]
      BY <3>1 DEF TypeInv, TypeOK
    <3> QED
      BY <3>2, <3>3
  <2>3. CASE InsertBatchFails(j)
    <3> DEFINE w == [worker[j] EXCEPT !.mode = "rows", !.left = worker[j].batch]
    <3>1. w \in Worker /\ w.cur = worker[j].cur
      BY <1>1 DEF Worker, CopyModes
    <3>2. worker' = [worker EXCEPT ![j] = w]
      BY <2>3 DEF InsertBatchFails, TypeInv, TypeOK
    <3> QED
      BY <3>1, <3>2
  <2> QED
    BY <2>1, <2>2, <2>3
<1>5. ghost' \in [Jobs -> Ghost]
  BY <1>3, GhostTypes DEF OpenCopy, SelectBatch, InsertBatchFails, TypeInv, TypeOK
<1>6. UNCHANGED <<databases, records, steps, progress, environment>>
  BY DEF OpenCopy, SelectBatch, InsertBatchFails
<1>7. worker' \in [Jobs -> Worker] /\ ControlInv'
  BY <1>1, <1>4, <1>6, LoopType DEF records, databases
<1> QED
  BY <1>5, <1>6, <1>7, Framed DEF records, databases, TypeInv, TypeOK

LEMMA EndCopyType ==
    ASSUME TypeInv, NEW j \in Jobs, EndCopy(j)
    PROVE  TypeInv'
<1>1. /\ Running(j, "copy") /\ Succeed(j, "copy", {})
      /\ UNCHANGED <<databases, records, progress, ghost, environment>>
  BY DEF EndCopy, Copying
<1>2. /\ steps' \in [Jobs -> Job!Plan] /\ worker' \in [Jobs -> Worker] /\ ControlInv'
  BY <1>1, SucceedType DEF records, databases, Job!Actions
<1> QED
  BY <1>1, <1>2, Framed DEF records, databases, TypeInv, TypeOK

LEMMA InsertBatchType ==
    ASSUME TypeInv, NEW j \in Jobs, InsertBatch(j)
    PROVE  TypeInv'
<1> DEFINE w == worker[j]
           n == BaseName(w.cur)
           rows == w.batch \ Duplicates(w.cur, w.batch)
<1>1. /\ Running(j, "copy") /\ n \in DOMAIN target
      /\ target' = [target EXCEPT ![n] = WithRows(target[n], rows)]
      /\ ghost' = [ghost EXCEPT ![j] = Wrote(ghost[j], rows)]
      /\ EndBatch(j, Cardinality(w.batch))
      /\ UNCHANGED <<source, records, steps, environment>>
  BY DEF InsertBatch, Copying
<1>2. w.batch \in SUBSET Keys /\ rows \in SUBSET Keys
  BY DEF TypeInv, TypeOK, Worker
<1>3. /\ worker' \in [Jobs -> Worker] /\ ControlInv'
      /\ progress' \in [Jobs -> [Objects -> Nat]]
  BY <1>1, <1>2, KeySetsAreFinite, EndBatchType DEF records
<1>4. WithRows(target[n], rows) \in Table
  BY <1>1, <1>2, WrittenTypes DEF TypeInv, TypeOK
<1>5. DOMAIN target' \subseteq Names /\ \A m \in DOMAIN target' : target'[m] \in Table
  BY <1>1, <1>4 DEF TypeInv, TypeOK
<1>6. ghost' \in [Jobs -> Ghost]
  BY <1>1, <1>2, GhostTypes DEF TypeInv, TypeOK
<1> QED
  BY <1>1, <1>3, <1>5, <1>6, Framed DEF records, TypeInv, TypeOK

LEMMA InsertRowType ==
    ASSUME TypeInv, NEW j \in Jobs, InsertRow(j)
    PROVE  TypeInv'
<1> DEFINE w == worker[j]
           n == BaseName(w.cur)
<1>1. PICK k \in w.left :
        /\ \/ /\ n \in DOMAIN target
              /\ target' = [target EXCEPT ![n] = WithRows(target[n], {k})]
              /\ ghost' = [ghost EXCEPT ![j] = Wrote(ghost[j], {k})]
           \/ /\ target' = target
              /\ ghost' = [ghost EXCEPT ![j] = Skipped(ghost[j], {k})]
        /\ IF w.left = {k}
           THEN EndBatch(j, Cardinality(w.batch))
           ELSE /\ worker' = [worker EXCEPT ![j].left = @ \ {k}]
                /\ progress' = progress
  BY DEF InsertRow
<1>2. Running(j, "copy") /\ UNCHANGED <<source, records, steps, environment>>
  BY DEF InsertRow, Copying
<1>3. k \in Keys /\ w \in Worker /\ w.batch \in SUBSET Keys
  BY DEF TypeInv, TypeOK, Worker
<1>4. /\ worker' \in [Jobs -> Worker] /\ ControlInv'
      /\ progress' \in [Jobs -> [Objects -> Nat]]
  <2>1. CASE w.left = {k}
    BY <1>1, <1>2, <1>3, <2>1, KeySetsAreFinite, EndBatchType DEF records
  <2>2. CASE w.left # {k}
    <3> DEFINE v == [w EXCEPT !.left = @ \ {k}]
    <3>1. v \in Worker /\ v.cur = w.cur
      BY <1>3 DEF Worker
    <3>2. worker' = [worker EXCEPT ![j] = v] /\ progress' = progress
      BY <1>1, <2>2 DEF TypeInv, TypeOK
    <3> QED
      BY <1>2, <3>1, <3>2, LoopType DEF records, TypeInv, TypeOK
  <2> QED
    BY <2>1, <2>2
<1>5. DOMAIN target' \subseteq Names /\ \A m \in DOMAIN target' : target'[m] \in Table
  <2>1. n \in DOMAIN target => WithRows(target[n], {k}) \in Table
    BY <1>3, WrittenTypes DEF TypeInv, TypeOK
  <2> QED
    BY <1>1, <2>1 DEF TypeInv, TypeOK
<1>6. ghost' \in [Jobs -> Ghost]
  BY <1>1, <1>3, GhostTypes DEF TypeInv, TypeOK
<1> QED
  BY <1>2, <1>4, <1>5, <1>6, Framed DEF records, TypeInv, TypeOK

LEMMA InsertManyType ==
    ASSUME TypeInv, NEW j \in Jobs, InsertMany(j)
    PROVE  TypeInv'
<1> DEFINE w == worker[j]
           n == BaseName(w.cur)
           there == n \in DOMAIN target
           old == IF there THEN target[n]
                  ELSE [cols |-> {}, extras |-> BareExtras, rows |-> {}]
           dups == IF there THEN Duplicates(w.cur, w.batch) ELSE {}
<1>1. PICK taken \in SUBSET (w.batch \ (dups \cup Rejected)) :
        /\ target' = IF there \/ taken # {}
                     THEN Created(n, WithRows(old, taken)) ELSE target
        /\ ghost' = [ghost EXCEPT
              ![j] = Skipped(Wrote(ghost[j], taken), (w.batch \ dups) \ taken)]
        /\ \/ EndBatch(j, Inserted(w.batch, taken))
           \/ EndBatch(j, 0)
  BY DEF InsertMany
<1>2. Running(j, "copy") /\ UNCHANGED <<source, records, steps, environment>>
  BY DEF InsertMany, Copying
<1>3. w.batch \in SUBSET Keys /\ taken \in SUBSET Keys /\ w.cur \in Objects
  BY <1>2 DEF TypeInv, TypeOK, Worker, Running
<1>4. /\ worker' \in [Jobs -> Worker] /\ ControlInv'
      /\ progress' \in [Jobs -> [Objects -> Nat]]
  BY <1>1, <1>2, <1>3, KeySetsAreFinite, EndBatchType DEF records, Inserted
<1>5. DOMAIN target' \subseteq Names /\ \A m \in DOMAIN target' : target'[m] \in Table
  <2>1. old \in Table
    BY PlanAssumption DEF TypeInv, TypeOK, Table
  <2>2. WithRows(old, taken) \in Table
    BY <1>3, <2>1, WrittenTypes
  <2> QED
    BY <1>1, <1>3, <2>2, BaseNamesAreNames, TargetTypes DEF TypeInv, TypeOK
<1>6. ghost' \in [Jobs -> Ghost]
  BY <1>1, <1>3, GhostTypes DEF TypeInv, TypeOK
<1> QED
  BY <1>2, <1>4, <1>5, <1>6, Framed DEF records, TypeInv, TypeOK

LEMMA WriteSourceType ==
    ASSUME TypeInv, WriteSource
    PROVE  TypeInv'
<1>1. PICK o \in DOMAIN source, k \in Keys :
        \/ /\ source' = [source EXCEPT
                            ![o] = WithSourceKeys(source[o], source[o].keys \cup {k})]
           /\ ghost' = ghost
        \/ /\ source' = [source EXCEPT
                            ![o] = WithSourceKeys(source[o], source[o].keys \ {k})]
           /\ ghost' = [j \in Jobs |->
                 IF worker[j].cur = o THEN Lost(ghost[j], {k}) ELSE ghost[j]]
  BY DEF WriteSource
<1>2. DOMAIN source' = DOMAIN source /\ \A p \in DOMAIN source' : source'[p] \in SourceTable
  <2>1. /\ WithSourceKeys(source[o], source[o].keys \cup {k}) \in SourceTable
        /\ WithSourceKeys(source[o], source[o].keys \ {k}) \in SourceTable
    BY DEF WithSourceKeys, SourceTable, TypeInv, TypeOK
  <2> QED
    BY <1>1, <2>1 DEF TypeInv, TypeOK
<1>3. ghost' \in [Jobs -> Ghost]
  <2>1. \A j \in Jobs : ghost[j] \in Ghost /\ Lost(ghost[j], {k}) \in Ghost
    <3>1. {k} \in SUBSET Keys
      BY <1>1
    <3> QED
      BY <3>1, GhostTypes DEF TypeInv, TypeOK
  <2>2. CASE ghost' = ghost
    BY <2>2 DEF TypeInv, TypeOK
  <2>3. CASE ghost' = [j \in Jobs |->
                IF worker[j].cur = o THEN Lost(ghost[j], {k}) ELSE ghost[j]]
    BY <2>1, <2>3
  <2> QED
    BY <1>1, <2>2, <2>3
<1>4. writes' \in 0..MaxWrites
  BY ExecutorAssumption DEF WriteSource, TypeInv, TypeOK
<1>5. UNCHANGED <<target, records, steps, progress, worker, crashes>>
  BY DEF WriteSource
<1>6. ControlInv'
  BY <1>2, <1>5 DEF TypeInv, ControlInv, HasSource, OneRunning, ModeIsCopying,
                    VersionIsNamed, Running, records
<1> QED
  BY <1>2, <1>3, <1>4, <1>5, <1>6 DEF TypeInv, TypeOK, records

LEMMA CrashType ==
    ASSUME TypeInv, Crash
    PROVE  TypeInv'
<1>1. phase' \in [Jobs -> Phases] /\ \A j \in Jobs : phase'[j] # "running"
  BY DEF Crash, Phases, TypeInv, TypeOK
<1>2. worker' \in [Jobs -> Worker] /\ \A j \in Jobs : worker'[j].mode = "off"
  BY DEF Crash, Idle, Worker, CopyModes
<1>3. \A j \in Jobs, o \in Objects, a \in Job!Actions :
        steps[j][o][a] = "running" => phase'[j] = "lost"
  BY DEF Crash, TypeInv, TypeOK, ControlInv, OneRunning
<1>4. ControlInv'
  BY <1>1, <1>2, <1>3 DEF Crash, databases, TypeInv, ControlInv, HasSource, OneRunning,
                     ModeIsCopying, VersionIsNamed, Running
<1>5. crashes' \in 0..MaxCrashes
  BY ExecutorAssumption DEF Crash, TypeInv, TypeOK
<1> QED
  BY <1>1, <1>2, <1>4, <1>5 DEF Crash, databases, TypeInv, TypeOK

LEMMA TypeStutter ==
    ASSUME TypeInv, UNCHANGED vars
    PROVE  TypeInv'
BY DEF vars, TypeInv, TypeOK, ControlInv, HasSource, OneRunning, ModeIsCopying,
       VersionIsNamed, Running

LEMMA TypeNext == TypeInv /\ [Next]_vars => TypeInv'
<1> SUFFICES ASSUME TypeInv, [Next]_vars
             PROVE  TypeInv'
  OBVIOUS
<1>1. ASSUME NEW j \in Jobs, PrepareJob(j) PROVE TypeInv'
  BY <1>1, PrepareType
<1>2. ASSUME NEW j \in Jobs, Work(j) PROVE TypeInv'
  BY <1>2, PhaseType, BeginStepType, StepFailsType, RenameType, CreateType, ColumnsType,
     LoopStepsType, EndCopyType, InsertBatchType, InsertRowType, InsertManyType DEF Work
<1>3. CASE WriteSource
  BY <1>3, WriteSourceType
<1>4. CASE Crash
  BY <1>4, CrashType
<1>5. CASE UNCHANGED vars
  BY <1>5, TypeStutter
<1> QED
  BY <1>1, <1>2, <1>3, <1>4, <1>5 DEF Next

\* Every variable of the engine keeps its type, however jobs, other clients and
\* crashes interleave; with it, that every step run by a worker has a table to
\* read on the source, and every rename a name to give.
THEOREM ExecutorTypeCorrect == Spec => []TypeOK
<1>1. TypeInv => TypeOK
  BY DEF TypeInv
<1> QED
  BY <1>1, TypeInit, TypeNext, PTL DEF Spec

-----------------------------------------------------------------------------
(* What a step may do to the target.                                       *)

\* A table becomes its own archive, under a name nobody has.
Archives(o) ==
    /\ BaseName(o) \in DOMAIN target
    /\ \E new \in ArchiveNames(o) :
          new \notin DOMAIN target /\ target' = Renamed(BaseName(o), new)

\* The columns and rows of t are those of old, and others.
Extends(t, old) == old.cols \subseteq t.cols /\ old.rows \subseteq t.rows

\* A table gets columns or rows and keeps those it has, or is made with every
\* column of the source (a collection has none).
Grows(o) ==
    \E t \in Table :
        /\ target' = Created(BaseName(o), t)
        /\ BaseName(o) \in DOMAIN target => Extends(t, target[BaseName(o)])
        /\ BaseName(o) \notin DOMAIN target /\ Kind = "sql" => source[o].cols \subseteq t.cols

\* The object a worker is in the middle of.
Busy(o) == o \in DOMAIN source /\ \E j \in Jobs, a \in Job!Actions :
               phase[j] = "running" /\ steps[j][o][a] = "running"

Touches(o) == Busy(o) /\ (Archives(o) \/ Grows(o))

LEMMA RunningIsBusy ==
    ASSUME TypeInv, NEW j \in Jobs, NEW a \in Job!Actions, Running(j, a)
    PROVE  worker[j].cur \in Objects /\ Busy(worker[j].cur)
<1>1. worker[j].cur \in Objects
  BY DEF TypeInv, TypeOK, Running, Worker
<1> QED
  BY <1>1 DEF TypeInv, ControlInv, HasSource, Running, Busy

\* Replacing a table by one with at least its rows is a way to grow.
LEMMA Growing ==
    ASSUME TypeInv, NEW o \in Objects, BaseName(o) \in DOMAIN target,
           NEW t \in Table, Extends(t, target[BaseName(o)]),
           target' = [target EXCEPT ![BaseName(o)] = t]
    PROVE  Grows(o)
<1>1. target' = Created(BaseName(o), t)
  <2>1. DOMAIN target \cup {BaseName(o)} = DOMAIN target
    OBVIOUS
  <2> QED
    BY <2>1 DEF Created
<1> QED
  BY <1>1 DEF Grows

LEMMA RowsStay ==
    ASSUME NEW t \in Table
    PROVE  /\ \A keys \in SUBSET Keys : Extends(WithRows(t, keys), t)
           /\ \A cols \in SUBSET Columns : Extends(WithColumns(t, cols), t)
BY DEF Table, WithRows, WithColumns, Extends

LEMMA RenameTouches ==
    ASSUME TypeInv, NEW j \in Jobs, RenameTable(j)
    PROVE  \E o \in Objects : Touches(o)
<1>1. worker[j].cur \in Objects /\ Busy(worker[j].cur)
  BY RunningIsBusy DEF RenameTable, Job!Actions
<1>2. worker[j].newName \in ArchiveNames(worker[j].cur)
  BY DEF RenameTable, TypeInv, ControlInv, VersionIsNamed
<1> QED
  BY <1>1, <1>2 DEF RenameTable, Free, Touches, Archives

LEMMA CreateTouches ==
    ASSUME TypeInv, NEW j \in Jobs, CreateTable(j)
    PROVE  target' = target \/ \E o \in Objects : Touches(o)
<1>1. worker[j].cur \in Objects /\ Busy(worker[j].cur)
  BY RunningIsBusy DEF CreateTable, Job!Actions
<1>2. BareTable(worker[j].cur) \in Table
  BY <1>1, PlanAssumption DEF Busy, BareTable, Table, SourceTable, TypeInv, TypeOK
<1>3. source[worker[j].cur].cols \subseteq BareTable(worker[j].cur).cols
  BY DEF BareTable
<1> QED
  BY <1>1, <1>2, <1>3 DEF CreateTable, Free, Touches, Grows

LEMMA ColumnsTouches ==
    ASSUME TypeInv, NEW j \in Jobs, NEW some \in SUBSET Columns,
           NEW a \in Job!Actions, Running(j, a),
           BaseName(worker[j].cur) \in DOMAIN target,
           target' = [target EXCEPT ![BaseName(worker[j].cur)] = WithColumns(@, some)]
    PROVE  \E o \in Objects : Touches(o)
<1> DEFINE o == worker[j].cur
           t == WithColumns(target[BaseName(o)], some)
<1>1. o \in Objects /\ Busy(o)
  BY RunningIsBusy
<1>2. target[BaseName(o)] \in Table
  BY DEF TypeInv, TypeOK
<1>3. t \in Table /\ Extends(t, target[BaseName(o)])
  BY <1>2, RowsStay, WrittenTypes
<1>4. target' = [target EXCEPT ![BaseName(o)] = t]
  OBVIOUS
<1>5. Grows(o)
  BY <1>1, <1>3, <1>4, Growing
<1> QED
  BY <1>1, <1>5 DEF Touches

LEMMA RowsTouch ==
    ASSUME TypeInv, NEW j \in Jobs, NEW keys \in SUBSET Keys,
           Running(j, "copy"), BaseName(worker[j].cur) \in DOMAIN target,
           target' = [target EXCEPT ![BaseName(worker[j].cur)] = WithRows(@, keys)]
    PROVE  \E o \in Objects : Touches(o)
<1> DEFINE o == worker[j].cur
           t == WithRows(target[BaseName(o)], keys)
<1>1. o \in Objects /\ Busy(o)
  BY RunningIsBusy DEF Job!Actions
<1>2. target[BaseName(o)] \in Table
  BY DEF TypeInv, TypeOK
<1>3. t \in Table /\ Extends(t, target[BaseName(o)])
  BY <1>2, RowsStay, WrittenTypes
<1>4. target' = [target EXCEPT ![BaseName(o)] = t]
  OBVIOUS
<1>5. Grows(o)
  BY <1>1, <1>3, <1>4, Growing
<1> QED
  BY <1>1, <1>5 DEF Touches

LEMMA InsertManyTouches ==
    ASSUME TypeInv, NEW j \in Jobs, InsertMany(j)
    PROVE  target' = target \/ \E o \in Objects : Touches(o)
<1> DEFINE w == worker[j]
           n == BaseName(w.cur)
           there == n \in DOMAIN target
           old == IF there THEN target[n]
                  ELSE [cols |-> {}, extras |-> BareExtras, rows |-> {}]
           dups == IF there THEN Duplicates(w.cur, w.batch) ELSE {}
<1>1. PICK taken \in SUBSET (w.batch \ (dups \cup Rejected)) :
        target' = IF there \/ taken # {} THEN Created(n, WithRows(old, taken)) ELSE target
  BY DEF InsertMany
<1>2. w.cur \in Objects /\ Busy(w.cur) /\ Kind # "sql"
  BY RunningIsBusy DEF InsertMany, Copying, Job!Actions
<1>3. taken \in SUBSET Keys
  BY DEF TypeInv, TypeOK, Worker
<1>4. old \in Table
  BY PlanAssumption DEF TypeInv, TypeOK, Table
<1>5. WithRows(old, taken) \in Table /\ Extends(WithRows(old, taken), old)
  BY <1>3, <1>4, RowsStay, WrittenTypes
<1>6. CASE there \/ taken # {}
  <2>1. target' = Created(n, WithRows(old, taken))
    BY <1>1, <1>6
  <2>2. Grows(w.cur)
    BY <1>2, <1>5, <2>1 DEF Grows
  <2> QED
    BY <1>2, <2>2 DEF Touches
<1>7. CASE ~(there \/ taken # {})
  BY <1>1, <1>7
<1> QED
  BY <1>6, <1>7

LEMMA TargetSteps == TypeInv /\ [Next]_vars => target' = target \/ \E o \in Objects : Touches(o)
<1> SUFFICES ASSUME TypeInv, [Next]_vars
             PROVE  target' = target \/ \E o \in Objects : Touches(o)
  OBVIOUS
<1>1. ASSUME NEW j \in Jobs, StepFails(j)
      PROVE  target' = target \/ \E o \in Objects : Touches(o)
  <2>1. PICK a \in Job!Actions :
          /\ Running(j, a)
          /\ \/ target' = target
             \/ /\ BaseName(worker[j].cur) \in DOMAIN target
                /\ \E some \in SUBSET (planned[j][worker[j].cur]
                                          \ target[BaseName(worker[j].cur)].cols) :
                      target' = [target EXCEPT
                          ![BaseName(worker[j].cur)] = WithColumns(@, some)]
    BY <1>1 DEF StepFails
  <2>2. planned[j][worker[j].cur] \in SUBSET Columns
    BY <2>1, RunningIsBusy DEF TypeInv, TypeOK
  <2> QED
    BY <2>1, <2>2, ColumnsTouches
<1>2. ASSUME NEW j \in Jobs, AddColumns(j)
      PROVE  \E o \in Objects : Touches(o)
  <2>1. "columns" \in Job!Actions /\ Running(j, "columns")
    BY <1>2 DEF AddColumns, Job!Actions
  <2>2. planned[j][worker[j].cur] \in SUBSET Columns
    BY <2>1, RunningIsBusy DEF TypeInv, TypeOK
  <2> QED
    BY <1>2, <2>1, <2>2, ColumnsTouches DEF AddColumns
<1>3. ASSUME NEW j \in Jobs, InsertBatch(j)
      PROVE  \E o \in Objects : Touches(o)
  <2>1. worker[j].batch \in SUBSET Keys
    BY DEF TypeInv, TypeOK, Worker
  <2> QED
    BY <1>3, <2>1, RowsTouch DEF InsertBatch, Copying
<1>4. ASSUME NEW j \in Jobs, InsertRow(j)
      PROVE  target' = target \/ \E o \in Objects : Touches(o)
  <2>1. worker[j].left \in SUBSET Keys
    BY DEF TypeInv, TypeOK, Worker
  <2> QED
    BY <1>4, <2>1, RowsTouch DEF InsertRow, Copying
<1>5. ASSUME NEW j \in Jobs, PrepareJob(j) PROVE target' = target
  BY <1>5 DEF PrepareJob, databases
<1>6. ASSUME NEW j \in Jobs,
             \/ StartJob(j) \/ StartFails(j) \/ FinishJob(j) \/ BeginStep(j)
             \/ OpenCopy(j) \/ SelectBatch(j) \/ EndCopy(j) \/ InsertBatchFails(j)
      PROVE  target' = target
  BY <1>6 DEF StartJob, StartFails, FinishJob, BeginStep, OpenCopy, SelectBatch, EndCopy,
              InsertBatchFails, databases
<1>7. ASSUME NEW j \in Jobs, Work(j)
      PROVE  target' = target \/ \E o \in Objects : Touches(o)
  BY <1>1, <1>2, <1>3, <1>4, <1>6, <1>7, RenameTouches, CreateTouches, InsertManyTouches
     DEF Work
<1>8. CASE WriteSource \/ Crash \/ UNCHANGED vars
  BY <1>8 DEF WriteSource, Crash, databases, vars
<1> QED
  BY <1>5, <1>7, <1>8 DEF Next

LEMMA RowsStayStored ==
    ASSUME TypeInv, [Next]_vars, NEW n \in DOMAIN target, NEW r \in target[n].rows
    PROVE  \E m \in DOMAIN target' : ObjectOf(m) = ObjectOf(n) /\ r \in target'[m].rows
<1>1. CASE target' = target
  BY <1>1
<1>2. ASSUME NEW o \in Objects, Archives(o)
      PROVE  \E m \in DOMAIN target' : ObjectOf(m) = ObjectOf(n) /\ r \in target'[m].rows
  <2>1. PICK new \in ArchiveNames(o) :
            new \notin DOMAIN target /\ target' = Renamed(BaseName(o), new)
    BY <1>2 DEF Archives
  <2>2. ObjectOf(new) = o /\ ObjectOf(BaseName(o)) = o
    BY BaseNamesAreNames DEF ArchiveNames
  <2>3. CASE n = BaseName(o)
    BY <2>1, <2>2, <2>3 DEF Renamed
  <2>4. CASE n # BaseName(o)
    BY <2>1, <2>4 DEF Renamed
  <2> QED
    BY <2>3, <2>4
<1>3. ASSUME NEW o \in Objects, Grows(o)
      PROVE  \E m \in DOMAIN target' : ObjectOf(m) = ObjectOf(n) /\ r \in target'[m].rows
  BY <1>3 DEF Grows, Created, Extends
<1> QED
  BY <1>1, <1>2, <1>3, TargetSteps DEF Touches

\* What the target has may move to an archive of its object, and is never lost:
\* whatever jobs run, whichever calls fail, and at whatever point the server dies.
THEOREM TargetRowsKept == Spec => NoRowLost
<1>1. TypeInv /\ [Next]_vars =>
        [\A n \in DOMAIN target : \A r \in target[n].rows :
            \E m \in DOMAIN target' :
               ObjectOf(m) = ObjectOf(n) /\ r \in target'[m].rows]_vars
  BY RowsStayStored
<1> QED
  BY <1>1, TypeInit, TypeNext, PTL DEF Spec, NoRowLost

\* An archive is never written to, renamed or dropped, by any job.
THEOREM ArchivesNeverChange == Spec => ArchivesFrozen
<1>1. ASSUME TypeInv, [Next]_vars, NEW n \in DOMAIN target, IsArchive(n)
      PROVE  n \in DOMAIN target' /\ target'[n] = target[n]
  <2>1. CASE target' = target
    BY <2>1
  <2>2. ASSUME NEW o \in Objects, Archives(o)
        PROVE  n \in DOMAIN target' /\ target'[n] = target[n]
    <3>1. n # BaseName(o)
      BY <1>1, BaseNamesAreNames
    <3> QED
      BY <2>2, <3>1 DEF Archives, Renamed
  <2>3. ASSUME NEW o \in Objects, Grows(o)
        PROVE  n \in DOMAIN target' /\ target'[n] = target[n]
    <3>1. n # BaseName(o)
      BY <1>1, BaseNamesAreNames
    <3> QED
      BY <2>3, <3>1 DEF Grows, Created
  <2> QED
    BY <1>1, <2>1, <2>2, <2>3, TargetSteps DEF Touches
<1>2. TypeInv /\ [Next]_vars =>
        [\A n \in DOMAIN target : IsArchive(n) =>
            n \in DOMAIN target' /\ target'[n] = target[n]]_vars
  BY <1>1
<1> QED
  BY <1>2, TypeInit, TypeNext, PTL DEF Spec, ArchivesFrozen

\* What is not part of a step some job is running stays as it is: an object the
\* user left out or only the target has cannot change.
THEOREM OthersUntouched == Spec => OnlyChosenChange
<1>1. ASSUME TypeInv, [Next]_vars, NEW n \in DOMAIN target \cup DOMAIN target'
      PROVE  \/ n \in DOMAIN target \cap DOMAIN target' /\ target'[n] = target[n]
             \/ Busy(ObjectOf(n))
  <2>1. CASE target' = target
    BY <2>1
  <2>2. ASSUME NEW o \in Objects, Busy(o), Archives(o)
        PROVE  \/ n \in DOMAIN target \cap DOMAIN target' /\ target'[n] = target[n]
               \/ Busy(ObjectOf(n))
    BY <2>2, BaseNamesAreNames DEF Archives, Renamed, ArchiveNames
  <2>3. ASSUME NEW o \in Objects, Busy(o), Grows(o)
        PROVE  \/ n \in DOMAIN target \cap DOMAIN target' /\ target'[n] = target[n]
               \/ Busy(ObjectOf(n))
    BY <2>3, BaseNamesAreNames DEF Grows, Created
  <2> QED
    BY <1>1, <2>1, <2>2, <2>3, TargetSteps DEF Touches
<1>2. TypeInv /\ [Next]_vars =>
        [\A n \in DOMAIN target \cup DOMAIN target' :
          \/ n \in DOMAIN target \cap DOMAIN target' /\ target'[n] = target[n]
          \/ /\ ObjectOf(n) \in DOMAIN source
             /\ \E j \in Jobs : \E a \in Job!Actions :
                   phase[j] = "running" /\ steps[j][ObjectOf(n)][a] = "running"]_vars
  BY <1>1 DEF Busy
<1> QED
  BY <1>2, TypeInit, TypeNext, PTL DEF Spec, OnlyChosenChange

-----------------------------------------------------------------------------
(* The columns of the target.                                              *)

\* A step that is to add columns was given those the table lacked, so that what
\* the table has and what will be added make up the source.
ColumnsCover ==
    Kind = "sql" => \A j \in Jobs, o \in Objects :
        steps[j][o]["columns"] # "none" /\ BaseName(o) \in DOMAIN target =>
            source[o].cols \subseteq target[BaseName(o)].cols \cup planned[j][o]

SchemaInv == TypeInv /\ ColumnsCover /\ SchemaReached

\* No step of any kind takes columns away, and a table that is made has them all.
LEMMA ColumnsGrow ==
    ASSUME TypeInv, [Next]_vars, Kind = "sql", NEW o \in Objects,
           BaseName(o) \in DOMAIN target'
    PROVE  \/ /\ BaseName(o) \in DOMAIN target
              /\ target[BaseName(o)].cols \subseteq target'[BaseName(o)].cols
           \/ source[o].cols \subseteq target'[BaseName(o)].cols
<1> DEFINE n == BaseName(o)
<1>1. CASE target' = target
  BY <1>1
<1>2. ASSUME NEW p \in Objects, Archives(p)
      PROVE  n \in DOMAIN target /\ target'[n] = target[n]
  BY <1>2, BaseNamesAreNames DEF Archives, Renamed, ArchiveNames
<1>3. ASSUME NEW p \in Objects, p # o, Grows(p)
      PROVE  n \in DOMAIN target /\ target'[n] = target[n]
  BY <1>3, BaseNamesAreNames DEF Grows, Created
<1>4. CASE Grows(o)
  BY <1>4 DEF Grows, Created, Extends
<1> QED
  BY <1>1, <1>2, <1>3, <1>4, TargetSteps DEF Touches

LEMMA SourceColumnsStay ==
    ASSUME TypeInv, [Next]_vars
    PROVE  /\ DOMAIN source' = DOMAIN source
           /\ \A o \in DOMAIN source : source'[o].cols = source[o].cols
<1>1. ASSUME NEW j \in Jobs, PrepareJob(j) PROVE source' = source
  BY <1>1 DEF PrepareJob, databases
<1>2. ASSUME NEW j \in Jobs, Work(j) PROVE source' = source
  BY <1>2 DEF Work, StartJob, StartFails, FinishJob, BeginStep, StepFails, RenameTable,
     CreateTable, AddColumns, OpenCopy, SelectBatch, EndCopy, InsertBatch, InsertBatchFails,
     InsertRow, InsertMany, databases
<1>3. CASE WriteSource
  <2>1. PICK p \in DOMAIN source, keys \in SUBSET Keys :
          source' = [source EXCEPT ![p] = WithSourceKeys(source[p], keys)]
    BY <1>3 DEF WriteSource, TypeInv, TypeOK, SourceTable
  <2>2. WithSourceKeys(source[p], keys).cols = source[p].cols
    BY DEF WithSourceKeys, TypeInv, TypeOK, SourceTable
  <2> QED
    BY <2>1, <2>2
<1> QED
  BY <1>1, <1>2, <1>3 DEF Next, Crash, databases, vars

\* Only prepare_job hands out steps and plans columns; nothing takes them back.
LEMMA PlansStay ==
    ASSUME TypeInv, [Next]_vars, NEW j \in Jobs
    PROVE  \/ PrepareJob(j)
           \/ /\ planned'[j] = planned[j]
              /\ \A o \in Objects, a \in Job!Actions :
                    steps'[j][o][a] = "none" <=> steps[j][o][a] = "none"
<1> DEFINE Stay == /\ planned'[j] = planned[j]
                   /\ \A o \in Objects, a \in Job!Actions :
                         steps'[j][o][a] = "none" <=> steps[j][o][a] = "none"
<1>1. ASSUME NEW i \in Jobs, i # j, PrepareJob(i) PROVE Stay
  BY <1>1 DEF PrepareJob, TypeInv, TypeOK
<1>2. ASSUME NEW i \in Jobs, Work(i) PROVE Stay
  <2>1. ASSUME NEW a \in Job!Actions, NEW names, Running(i, a), Succeed(i, a, names),
               planned' = planned
        PROVE  Stay
    BY <2>1, RunningIsBusy DEF Succeed, Running, TypeInv, TypeOK, Job!Plan
  <2>2. ASSUME NEW a \in Job!Actions, Running(i, a), Fail(i, a), planned' = planned
        PROVE  Stay
    BY <2>2, RunningIsBusy DEF Fail, Running, TypeInv, TypeOK, Job!Plan
  <2>3. CASE BeginStep(i)
    BY <2>3 DEF BeginStep, Pending, records, TypeInv, TypeOK, Job!Plan
  <2>4. CASE StepFails(i)
    BY <2>2, <2>4 DEF StepFails, records
  <2>5. CASE RenameTable(i) \/ CreateTable(i) \/ AddColumns(i) \/ EndCopy(i)
    BY <2>1, <2>5 DEF RenameTable, CreateTable, AddColumns, EndCopy, Copying, records,
       Job!Actions
  <2>6. CASE \/ StartJob(i) \/ StartFails(i) \/ FinishJob(i)
             \/ OpenCopy(i) \/ SelectBatch(i) \/ InsertBatch(i) \/ InsertBatchFails(i)
             \/ InsertRow(i) \/ InsertMany(i)
    BY <2>6 DEF StartJob, StartFails, FinishJob, OpenCopy, SelectBatch, InsertBatch,
       InsertBatchFails, InsertRow, InsertMany, records
  <2> QED
    BY <1>2, <2>3, <2>4, <2>5, <2>6 DEF Work
<1>3. CASE WriteSource \/ Crash \/ UNCHANGED vars
  BY <1>3 DEF WriteSource, Crash, records, vars
<1> QED
  BY <1>1, <1>2, <1>3 DEF Next

\* A columns step is built for a table both sides have.
LEMMA ColumnsArePlanned ==
    ASSUME TypeInv, Kind = "sql", NEW j \in Jobs, NEW o \in Objects, PrepareJob(j),
           steps'[j][o]["columns"] # "none"
    PROVE  source[o].cols \subseteq target[BaseName(o)].cols \cup planned'[j][o]
<1>1. PICK versioned \in SUBSET Objects, included \in SUBSET Objects, scope \in Scopes :
           steps' = [steps EXCEPT ![j] = BuildSteps(included, versioned, scope)]
  BY DEF PrepareJob
<1>2. "columns" \in StepsFor(o, source, target, o \in versioned, scope)
  BY <1>1 DEF BuildSteps, TypeInv, TypeOK, Job!Actions
<1>3. StatusOf(o, source, target) = "common_changed"
  BY <1>2 DEF StepsFor, StatusOf
<1>4. o \in DOMAIN source /\ BaseName(o) \in DOMAIN target
  BY <1>3 DEF StatusOf
<1>5. planned'[j][o] = ColumnsAdded(o, source, target)
  BY <1>4 DEF PrepareJob, PlannedColumns, TypeInv, TypeOK
<1> QED
  BY <1>5 DEF ColumnsAdded

LEMMA ColumnsCoverNext == TypeInv /\ ColumnsCover /\ [Next]_vars => ColumnsCover'
<1> SUFFICES ASSUME TypeInv, ColumnsCover, [Next]_vars, Kind = "sql",
                    NEW j \in Jobs, NEW o \in Objects,
                    steps'[j][o]["columns"] # "none", BaseName(o) \in DOMAIN target'
             PROVE  source'[o].cols \subseteq target'[BaseName(o)].cols \cup planned'[j][o]
  BY DEF ColumnsCover, BaseName
<1>1. o \in DOMAIN source /\ source'[o].cols = source[o].cols
  <2>1. o \in DOMAIN source'
    BY TypeNext DEF TypeInv, ControlInv, HasSource, Job!Actions
  <2>2. DOMAIN source' = DOMAIN source
    BY SourceColumnsStay
  <2> QED
    BY <2>1, <2>2, SourceColumnsStay
<1>2. CASE source[o].cols \subseteq target'[BaseName(o)].cols
  BY <1>1, <1>2
<1>3. CASE /\ BaseName(o) \in DOMAIN target
           /\ target[BaseName(o)].cols \subseteq target'[BaseName(o)].cols
  <2>1. source[o].cols \subseteq target[BaseName(o)].cols \cup planned'[j][o]
    BY <1>3, ColumnsArePlanned, PlansStay DEF ColumnsCover, Job!Actions
  <2> QED
    BY <1>1, <1>3, <2>1
<1> QED
  BY <1>2, <1>3, ColumnsGrow

\* A create or columns step that has just ended well leaves every column there.
LEMMA StepBringsColumns ==
    ASSUME TypeInv, ColumnsCover, [Next]_vars, Kind = "sql",
           NEW j \in Jobs, NEW o \in Objects, NEW a \in {"create", "columns"},
           steps[j][o][a] # "done", steps'[j][o][a] = "done",
           BaseName(o) \in DOMAIN target'
    PROVE  source[o].cols \subseteq target'[BaseName(o)].cols
<1>1. a \in Job!Actions
  BY DEF Job!Actions
<1>2. ASSUME NEW i \in Jobs, NEW b \in Job!Actions, NEW names, Running(i, b), Succeed(i, b, names)
      PROVE  i = j /\ o = worker[i].cur /\ a = b
  BY <1>1, <1>2, RunningIsBusy DEF Succeed, TypeInv, TypeOK, Job!Plan
<1>3. ASSUME NEW i \in Jobs, PrepareJob(i) PROVE FALSE
  BY <1>1, <1>3 DEF PrepareJob, BuildSteps, TypeInv, TypeOK
<1>4. ASSUME NEW i \in Jobs, CreateTable(i)
      PROVE  source[o].cols \subseteq target'[BaseName(o)].cols
  <2>1. Free(BaseName(o)) /\ target' = Created(BaseName(o), BareTable(o))
    BY <1>2, <1>4 DEF CreateTable, Job!Actions
  <2> QED
    BY <2>1 DEF Created, BareTable
<1>5. ASSUME NEW i \in Jobs, AddColumns(i)
      PROVE  source[o].cols \subseteq target'[BaseName(o)].cols
  <2>1. i = j /\ o = worker[i].cur /\ a = "columns" /\ steps[j][o][a] = "running"
    BY <1>2, <1>5 DEF AddColumns, Running, Job!Actions
  <2>2. /\ BaseName(o) \in DOMAIN target
        /\ target' = [target EXCEPT
              ![BaseName(o)] = WithColumns(target[BaseName(o)], planned[j][o])]
    BY <1>5, <2>1 DEF AddColumns
  <2>3. WithColumns(target[BaseName(o)], planned[j][o]).cols
            = target[BaseName(o)].cols \cup planned[j][o]
    BY <2>2 DEF WithColumns, TypeInv, TypeOK, Table
  <2> QED
    BY <2>1, <2>2, <2>3 DEF ColumnsCover
<1>6. ASSUME NEW i \in Jobs, RenameTable(i) \/ EndCopy(i) PROVE FALSE
  BY <1>2, <1>6 DEF RenameTable, EndCopy, Copying, Job!Actions
<1>7. ASSUME NEW i \in Jobs, StepFails(i) PROVE FALSE
  BY <1>1, <1>7, RunningIsBusy DEF StepFails, Fail, TypeInv, TypeOK, Job!Plan
<1>8. ASSUME NEW i \in Jobs, BeginStep(i) PROVE FALSE
  BY <1>1, <1>8 DEF BeginStep, Pending, TypeInv, TypeOK, Job!Plan
<1>9. ASSUME NEW i \in Jobs,
             \/ StartJob(i) \/ StartFails(i) \/ FinishJob(i)
             \/ OpenCopy(i) \/ SelectBatch(i) \/ InsertBatch(i) \/ InsertBatchFails(i)
             \/ InsertRow(i) \/ InsertMany(i)
      PROVE  FALSE
  BY <1>9 DEF StartJob, StartFails, FinishJob, OpenCopy, SelectBatch, InsertBatch,
     InsertBatchFails, InsertRow, InsertMany
<1>10. CASE WriteSource \/ Crash \/ UNCHANGED vars
  BY <1>10 DEF WriteSource, Crash, vars
<1> QED
  BY <1>3, <1>4, <1>5, <1>6, <1>7, <1>8, <1>9, <1>10 DEF Next, Work

LEMMA SchemaNext == TypeInv /\ ColumnsCover /\ SchemaReached /\ [Next]_vars => SchemaReached'
<1> SUFFICES ASSUME TypeInv, ColumnsCover, SchemaReached, [Next]_vars, Kind = "sql",
                    NEW j \in Jobs, NEW o \in Objects, NEW a \in {"create", "columns"},
                    steps'[j][o][a] = "done", BaseName(o) \in DOMAIN target'
             PROVE  source'[o].cols \subseteq target'[BaseName(o)].cols
  BY DEF SchemaReached, BaseName
<1>1. source'[o].cols = source[o].cols
  <2>1. o \in DOMAIN source'
    BY TypeNext DEF TypeInv, ControlInv, HasSource, Job!Actions
  <2> QED
    BY <2>1, SourceColumnsStay
<1>2. CASE steps[j][o][a] # "done"
  BY <1>1, <1>2, StepBringsColumns
<1>3. CASE steps[j][o][a] = "done"
  BY <1>1, <1>3, ColumnsGrow DEF SchemaReached
<1> QED
  BY <1>2, <1>3

\* A table that a create or columns step has brought up to date keeps every
\* column of the source, whichever jobs rename it, make it again or fail on it.
THEOREM SchemasAreReached == Spec => []SchemaReached
<1>1. Init => SchemaInv
  <2> SUFFICES ASSUME Init PROVE SchemaInv
    OBVIOUS
  <2>1. \A j \in Jobs, o \in Objects, a \in {"create", "columns"} : steps[j][o][a] = "none"
    BY DEF Init, Job!NoSteps, Job!Actions
  <2> QED
    BY <2>1, TypeInit DEF SchemaInv, ColumnsCover, SchemaReached
<1>2. SchemaInv /\ [Next]_vars => SchemaInv'
  BY TypeNext, ColumnsCoverNext, SchemaNext DEF SchemaInv
<1>3. SchemaInv => SchemaReached
  BY DEF SchemaInv
<1> QED
  BY <1>1, <1>2, <1>3, PTL DEF Spec

-----------------------------------------------------------------------------
(* What the copy loop knows of the rows it leaves behind.                  *)

InLoop(j) == worker[j].mode \in {"select", "insert", "rows", "end"}

\* A row of the source is stored, or the fallback has let it go.
Delivered(j, k) == RowStored(worker[j].cur, k) \/ k \in ghost[j].skipped

\* Before its first page a copy has counted nothing and read nothing.
BeginsAtZero(j) == ~InLoop(j) => worker[j].last = None /\ worker[j].done = 0

\* A row that nobody deleted is still there to be read.
SteadyIsThere(j) == InLoop(j) => ghost[j].steady \subseteq source[worker[j].cur].keys

\* A copy that has come to a key has delivered the rows up to it.
BehindIsDelivered(j) == InLoop(j) /\ worker[j].cur \in Keyed =>
    \A k \in ghost[j].steady : k <= worker[j].last => Delivered(j, k)

\* A page holds the rows next to that key, all that are left if it is short.
PageIsNext(j) == worker[j].mode \in {"insert", "rows"} /\ worker[j].cur \in Keyed =>
    \A k \in ghost[j].steady : k > worker[j].last =>
        \/ k \in worker[j].batch
        \/ /\ ~(Cardinality(worker[j].batch) < BatchSize)
           /\ \A b \in worker[j].batch : b < k

\* In the fallback only the rows still to be tried are undelivered.
TriedIsDelivered(j) == worker[j].mode = "rows" /\ worker[j].cur \in Keyed =>
    \A k \in worker[j].batch : k \in worker[j].left \/ Delivered(j, k)

\* Past its last page a copy has delivered everything.
EndIsDelivered(j) == worker[j].mode = "end" /\ worker[j].cur \in Keyed =>
    \A k \in ghost[j].steady : Delivered(j, k)

CopyGoesWell(j) ==
    /\ BeginsAtZero(j) /\ SteadyIsThere(j) /\ BehindIsDelivered(j)
    /\ PageIsNext(j) /\ TriedIsDelivered(j) /\ EndIsDelivered(j)

CopyInv == TypeInv /\ \A j \in Jobs : CopyGoesWell(j)

LEMMA DeliveredStays ==
    ASSUME TypeInv, [Next]_vars, NEW j \in Jobs, NEW k, Delivered(j, k),
           worker'[j].cur = worker[j].cur, ghost[j].skipped \subseteq ghost'[j].skipped
    PROVE  Delivered(j, k)'
<1>1. CASE k \in ghost[j].skipped
  BY <1>1 DEF Delivered
<1>2. CASE RowStored(worker[j].cur, k)
  <2>1. PICK n \in DOMAIN target : ObjectOf(n) = worker[j].cur /\ k \in KeysOf(target[n])
    BY <1>2 DEF RowStored
  <2>2. PICK r \in target[n].rows : k = r[1]
    BY <2>1 DEF KeysOf
  <2>3. PICK m \in DOMAIN target' : ObjectOf(m) = ObjectOf(n) /\ r \in target'[m].rows
    BY <2>2, RowsStayStored
  <2>4. k \in KeysOf(target'[m])
    BY <2>2, <2>3 DEF KeysOf
  <2> QED
    BY <2>1, <2>3, <2>4 DEF Delivered, RowStored, ObjectOf, KeysOf
<1> QED
  BY <1>1, <1>2 DEF Delivered

\* A job that does nothing: others add rows to the target, or delete rows of the
\* source, which are no longer steady then.
LEMMA CopyWaits ==
    ASSUME TypeInv, [Next]_vars, NEW j \in Jobs, CopyGoesWell(j),
           worker'[j] = worker[j], ghost'[j].skipped = ghost[j].skipped,
           ghost'[j].steady \subseteq ghost[j].steady,
           InLoop(j) => ghost'[j].steady \subseteq source'[worker[j].cur].keys
    PROVE  CopyGoesWell(j)'
<1>1. \A k : Delivered(j, k) => Delivered(j, k)'
  BY DeliveredStays
<1>2. BeginsAtZero(j)' /\ SteadyIsThere(j)'
  BY DEF CopyGoesWell, BeginsAtZero, SteadyIsThere, InLoop
<1>3. BehindIsDelivered(j)'
  BY <1>1 DEF CopyGoesWell, BehindIsDelivered, InLoop
<1>4. PageIsNext(j)'
  BY DEF CopyGoesWell, PageIsNext
<1>5. TriedIsDelivered(j)'
  BY <1>1 DEF CopyGoesWell, TriedIsDelivered
<1>6. EndIsDelivered(j)'
  BY <1>1 DEF CopyGoesWell, EndIsDelivered
<1> QED
  BY <1>2, <1>3, <1>4, <1>5, <1>6 DEF CopyGoesWell

\* A job that is in no copy loop.
LEMMA NotCopying ==
    ASSUME NEW j \in Jobs, worker'[j].mode \in {"off", "open"},
           worker'[j].last = None, worker'[j].done = 0
    PROVE  CopyGoesWell(j)'
BY DEF CopyGoesWell, BeginsAtZero, SteadyIsThere, BehindIsDelivered, PageIsNext,
       TriedIsDelivered, EndIsDelivered, InLoop

\* A batch that is over: its last row becomes last_pk, and it is delivered.
LEMMA BatchEnds ==
    ASSUME TypeInv, [Next]_vars, NEW j \in Jobs, CopyGoesWell(j), Running(j, "copy"),
           worker[j].mode \in {"insert", "rows"}, NEW count \in Nat, EndBatch(j, count),
           source' = source, ghost'[j].steady = ghost[j].steady,
           ghost[j].skipped \subseteq ghost'[j].skipped,
           worker[j].cur \in Keyed =>
               \A k \in worker[j].batch : worker'[j].cur = worker[j].cur => Delivered(j, k)'
    PROVE  CopyGoesWell(j)'
<1> DEFINE w == worker[j]
<1>1. w \in Worker /\ ghost[j] \in Ghost
  BY DEF TypeInv, TypeOK
<1>2. PICK m \in w.batch :
         /\ \A k \in w.batch : k <= m
         /\ worker' = [worker EXCEPT ![j] = AfterBatch(w, m, count)]
  BY DEF EndBatch
<1>3. worker'[j] = AfterBatch(w, m, count)
  BY <1>2 DEF TypeInv, TypeOK
<1>4. /\ worker'[j].cur = w.cur
      /\ w.cur \in Keyed => worker'[j].last = m
      /\ worker'[j].mode = IF Cardinality(w.batch) < BatchSize THEN "end" ELSE "select"
  BY <1>1, <1>3 DEF AfterBatch, Worker
<1>5. \A k : Delivered(j, k) => Delivered(j, k)'
  BY <1>4, DeliveredStays
<1>6. m \in Nat /\ w.batch \subseteq Nat /\ ghost[j].steady \subseteq Nat /\ w.last \in Nat
  <2>1. /\ w.batch \subseteq Keys /\ ghost[j].steady \subseteq Keys
        /\ w.last \in Keys \cup {None}
    BY <1>1 DEF Worker, Ghost
  <2> QED
    BY <2>1, KeysAreNumbers
<1>7. InLoop(j) /\ InLoop(j)'
  BY <1>4 DEF InLoop
<1>8. BeginsAtZero(j)' /\ SteadyIsThere(j)' /\ PageIsNext(j)' /\ TriedIsDelivered(j)'
  BY <1>4, <1>7 DEF CopyGoesWell, BeginsAtZero, SteadyIsThere, PageIsNext, TriedIsDelivered
<1>9. ASSUME w.cur \in Keyed, NEW k \in ghost[j].steady,
             k <= m \/ Cardinality(w.batch) < BatchSize
      PROVE  Delivered(j, k)'
  <2>1. CASE k <= w.last
    BY <1>5, <1>7, <1>9, <2>1 DEF CopyGoesWell, BehindIsDelivered
  <2>2. CASE k > w.last
    <3>1. k \in w.batch
      BY <1>6, <1>9, <2>2 DEF CopyGoesWell, PageIsNext
    <3> QED
      BY <1>4, <1>9, <3>1
  <2> QED
    BY <1>6, <2>1, <2>2
<1>10. BehindIsDelivered(j)' /\ EndIsDelivered(j)'
  BY <1>4, <1>9 DEF BehindIsDelivered, EndIsDelivered
<1> QED
  BY <1>8, <1>10 DEF CopyGoesWell

-----------------------------------------------------------------------------
(* The copy, action by action.                                             *)

LEMMA CopyOpens ==
    ASSUME TypeInv, NEW j \in Jobs, CopyGoesWell(j), OpenCopy(j)
    PROVE  CopyGoesWell(j)'
<1> DEFINE w == worker[j]
<1>1. w \in Worker /\ w.cur \in Objects /\ w.mode = "open" /\ Running(j, "copy")
  BY DEF OpenCopy, Copying, Running, TypeInv, TypeOK, Worker
<1>2. worker'[j] = [w EXCEPT !.mode = "select"]
  BY DEF OpenCopy, TypeInv, TypeOK
<1>3. worker'[j].mode = "select" /\ worker'[j].cur = w.cur /\ worker'[j].last = w.last
  BY <1>1, <1>2 DEF Worker
<1>4. ghost'[j].steady = source[w.cur].keys /\ source' = source
  BY DEF OpenCopy, CopyOf, databases, TypeInv, TypeOK
<1>5. w.last = None
  BY <1>1 DEF CopyGoesWell, BeginsAtZero, InLoop
<1>6. \A k \in ghost'[j].steady : ~(k <= w.last)
  <2>1. w.cur \in DOMAIN source
    BY <1>1 DEF TypeInv, ControlInv, HasSource, Running, Job!Actions
  <2>2. source[w.cur].keys \subseteq Nat \ {0}
    BY <2>1, PlanAssumption DEF TypeInv, TypeOK, SourceTable
  <2> QED
    BY <1>4, <1>5, <2>2 DEF None
<1> QED
  BY <1>3, <1>4, <1>6 DEF CopyGoesWell, BeginsAtZero, SteadyIsThere, BehindIsDelivered,
     PageIsNext, TriedIsDelivered, EndIsDelivered, InLoop

LEMMA CopySelects ==
    ASSUME TypeInv, [Next]_vars, NEW j \in Jobs, CopyGoesWell(j), SelectBatch(j)
    PROVE  CopyGoesWell(j)'
<1> DEFINE w == worker[j]
           rest == {k \in source[w.cur].keys : k > w.last}
<1>1. w \in Worker /\ w.mode = "select"
  BY DEF SelectBatch, Copying, TypeInv, TypeOK
<1>2. PICK page :
        /\ w.cur \in Keyed => page \in KeysetPages(w.cur, w.last)
        /\ worker' = [worker EXCEPT ![j].batch = page,
                         ![j].mode = IF page = {} THEN "end" ELSE "insert"]
  BY DEF SelectBatch
<1>3. /\ worker'[j].cur = w.cur /\ worker'[j].last = w.last /\ worker'[j].batch = page
      /\ worker'[j].mode = IF page = {} THEN "end" ELSE "insert"
  BY <1>1, <1>2 DEF TypeInv, TypeOK, Worker
<1>4. source' = source /\ ghost' = ghost
  BY DEF SelectBatch, databases
<1>5. \A k : Delivered(j, k) => Delivered(j, k)'
  BY <1>3, <1>4, DeliveredStays
<1>6. InLoop(j) /\ InLoop(j)'
  BY <1>1, <1>3 DEF InLoop
<1>7. BeginsAtZero(j)' /\ SteadyIsThere(j)' /\ TriedIsDelivered(j)'
  BY <1>3, <1>4, <1>6 DEF CopyGoesWell, BeginsAtZero, SteadyIsThere, TriedIsDelivered
<1>8. BehindIsDelivered(j)'
  BY <1>3, <1>4, <1>5, <1>6 DEF CopyGoesWell, BehindIsDelivered
<1>9. ASSUME w.cur \in Keyed, NEW k \in ghost[j].steady, k > w.last
      PROVE  \/ k \in page
             \/ ~(Cardinality(page) < BatchSize) /\ \A b \in page : b < k
  <2>1. k \in rest
    BY <1>6, <1>9 DEF CopyGoesWell, SteadyIsThere
  <2> QED
    BY <1>2, <1>9, <2>1 DEF KeysetPages
<1>10. PageIsNext(j)'
  BY <1>3, <1>4, <1>9 DEF PageIsNext
<1>11. ASSUME page = {}, w.cur \in Keyed, NEW k \in ghost[j].steady
       PROVE  Delivered(j, k)'
  <2>1. Cardinality(page) < BatchSize
    BY <1>11, FS_EmptySet, ExecutorAssumption
  <2>2. ~(k > w.last)
    BY <1>9, <1>11, <2>1
  <2>3. k \in Nat /\ w.last \in Nat
    <3>1. k \in Keys /\ w.last \in Keys \cup {None}
      BY <1>1 DEF Worker, TypeInv, TypeOK, Ghost
    <3> QED
      BY <3>1, KeysAreNumbers
  <2>4. k <= w.last
    BY <2>2, <2>3
  <2> QED
    BY <1>5, <1>6, <1>11, <2>4 DEF CopyGoesWell, BehindIsDelivered
<1>12. EndIsDelivered(j)'
  BY <1>3, <1>4, <1>11 DEF EndIsDelivered
<1> QED
  BY <1>7, <1>8, <1>10, <1>12 DEF CopyGoesWell

LEMMA CopyFallsBack ==
    ASSUME TypeInv, [Next]_vars, NEW j \in Jobs, CopyGoesWell(j), InsertBatchFails(j)
    PROVE  CopyGoesWell(j)'
<1> DEFINE w == worker[j]
<1>1. w \in Worker /\ w.mode = "insert"
  BY DEF InsertBatchFails, Copying, TypeInv, TypeOK
<1>2. worker' = [worker EXCEPT ![j].mode = "rows", ![j].left = w.batch]
  BY DEF InsertBatchFails
<1>3. /\ worker'[j].cur = w.cur /\ worker'[j].last = w.last /\ worker'[j].batch = w.batch
      /\ worker'[j].mode = "rows" /\ worker'[j].left = w.batch
  BY <1>1, <1>2 DEF TypeInv, TypeOK, Worker
<1>4. source' = source /\ ghost' = ghost
  BY DEF InsertBatchFails, databases
<1>5. \A k : Delivered(j, k) => Delivered(j, k)'
  BY <1>3, <1>4, DeliveredStays
<1>6. InLoop(j) /\ InLoop(j)'
  BY <1>1, <1>3 DEF InLoop
<1>7. BehindIsDelivered(j)'
  BY <1>3, <1>4, <1>5, <1>6 DEF CopyGoesWell, BehindIsDelivered
<1>8. PageIsNext(j)'
  BY <1>1, <1>3, <1>4 DEF CopyGoesWell, PageIsNext
<1> QED
  BY <1>3, <1>4, <1>6, <1>7, <1>8 DEF CopyGoesWell, BeginsAtZero, SteadyIsThere,
     TriedIsDelivered, EndIsDelivered

\* A row that is written, or was there already.
LEMMA WrittenIsThere ==
    ASSUME NEW t \in Table, NEW keys, NEW k, k \in keys \/ k \in KeysOf(t)
    PROVE  k \in KeysOf(WithRows(t, keys))
<1>1. WithRows(t, keys).rows = t.rows \cup (keys \X {"source"})
  BY DEF WithRows, Table
<1>2. CASE k \in keys
  <2>1. <<k, "source">> \in WithRows(t, keys).rows /\ <<k, "source">>[1] = k
    BY <1>1, <1>2
  <2> QED
    BY <2>1 DEF KeysOf
<1>3. CASE k \in KeysOf(t)
  BY <1>1, <1>3 DEF KeysOf
<1> QED
  BY <1>2, <1>3

\* What the history of a copy says after a row is written or let go.
LEMMA GhostFields ==
    ASSUME NEW g \in Ghost, NEW keys
    PROVE  /\ Wrote(g, keys).steady = g.steady /\ Wrote(g, keys).skipped = g.skipped
           /\ Wrote(g, keys).inserted = g.inserted \cup keys
           /\ Skipped(g, keys).steady = g.steady
           /\ Skipped(g, keys).skipped = g.skipped \cup keys
           /\ Skipped(g, keys).inserted = g.inserted
           /\ Lost(g, keys).steady = g.steady \ keys /\ Lost(g, keys).skipped = g.skipped
           /\ Lost(g, keys).inserted = g.inserted
BY DEF Wrote, Skipped, Lost, Ghost

LEMMA CopyBatch ==
    ASSUME TypeInv, [Next]_vars, NEW j \in Jobs, CopyGoesWell(j), InsertBatch(j)
    PROVE  CopyGoesWell(j)'
<1> DEFINE w == worker[j]
           n == BaseName(w.cur)
           dups == Duplicates(w.cur, w.batch)
<1>1. /\ Running(j, "copy") /\ w.mode = "insert" /\ n \in DOMAIN target
      /\ target' = [target EXCEPT ![n] = WithRows(target[n], w.batch \ dups)]
      /\ ghost' = [ghost EXCEPT ![j] = Wrote(ghost[j], w.batch \ dups)]
      /\ EndBatch(j, Cardinality(w.batch)) /\ source' = source
  BY DEF InsertBatch, Copying
<1>2. w.batch \in SUBSET Keys /\ w.cur \in Objects /\ target[n] \in Table
  BY <1>1 DEF TypeInv, TypeOK, Worker, Running
<1>3. ghost'[j].steady = ghost[j].steady /\ ghost'[j].skipped = ghost[j].skipped
  BY <1>1 DEF Wrote, TypeInv, TypeOK, Ghost
<1>4. ASSUME NEW k \in w.batch, worker'[j].cur = w.cur
      PROVE  Delivered(j, k)'
  <2>1. k \in w.batch \ dups \/ k \in KeysOf(target[n])
    BY <1>4 DEF Duplicates
  <2>2. k \in KeysOf(WithRows(target[n], w.batch \ dups))
    BY <1>2, <2>1, WrittenIsThere
  <2>3. \E m \in DOMAIN target' : ObjectOf(m) = w.cur /\ k \in KeysOf(target'[m])
    BY <1>1, <1>2, <2>2, BaseNamesAreNames
  <2> QED
    BY <1>4, <2>3 DEF Delivered, RowStored
<1> QED
  BY <1>1, <1>2, <1>3, <1>4, KeySetsAreFinite, BatchEnds

LEMMA CopyRow ==
    ASSUME TypeInv, [Next]_vars, NEW j \in Jobs, CopyGoesWell(j), InsertRow(j)
    PROVE  CopyGoesWell(j)'
<1> DEFINE w == worker[j]
           n == BaseName(w.cur)
<1>1. PICK k \in w.left :
        /\ \/ /\ n \in DOMAIN target
              /\ target' = [target EXCEPT ![n] = WithRows(target[n], {k})]
              /\ ghost' = [ghost EXCEPT ![j] = Wrote(ghost[j], {k})]
           \/ /\ target' = target
              /\ ghost' = [ghost EXCEPT ![j] = Skipped(ghost[j], {k})]
        /\ IF w.left = {k}
           THEN EndBatch(j, Cardinality(w.batch))
           ELSE /\ worker' = [worker EXCEPT ![j].left = @ \ {k}]
                /\ progress' = progress
  BY DEF InsertRow
<1>2. Running(j, "copy") /\ w.mode = "rows" /\ source' = source
  BY DEF InsertRow, Copying
<1>3. w \in Worker /\ w.batch \in SUBSET Keys /\ w.cur \in Objects /\ ghost[j] \in Ghost
  BY <1>2 DEF TypeInv, TypeOK, Worker, Running
<1>4. /\ ghost'[j].steady = ghost[j].steady
      /\ ghost[j].skipped \subseteq ghost'[j].skipped
  <2>1. ghost'[j] = Wrote(ghost[j], {k}) \/ ghost'[j] = Skipped(ghost[j], {k})
    BY <1>1 DEF TypeInv, TypeOK
  <2> QED
    BY <1>3, <2>1, GhostFields
<1>5. worker'[j].cur = w.cur => Delivered(j, k)'
  <2>1. CASE /\ n \in DOMAIN target
             /\ target' = [target EXCEPT ![n] = WithRows(target[n], {k})]
    <3>1. target[n] \in Table
      BY <2>1 DEF TypeInv, TypeOK
    <3>2. k \in KeysOf(WithRows(target[n], {k}))
      BY <3>1, WrittenIsThere
    <3>3. \E m \in DOMAIN target' : ObjectOf(m) = w.cur /\ k \in KeysOf(target'[m])
      BY <1>3, <2>1, <3>2, BaseNamesAreNames
    <3> QED
      BY <3>3 DEF Delivered, RowStored
  <2>2. CASE ghost' = [ghost EXCEPT ![j] = Skipped(ghost[j], {k})]
    <3>1. k \in ghost'[j].skipped
      BY <1>3, <2>2 DEF Skipped, TypeInv, TypeOK, Ghost
    <3> QED
      BY <3>1 DEF Delivered
  <2> QED
    BY <1>1, <2>1, <2>2
<1>6. CASE w.left = {k}
  <2>1. ASSUME w.cur \in Keyed, NEW i \in w.batch, worker'[j].cur = w.cur
        PROVE  Delivered(j, i)'
    <3>1. i = k \/ Delivered(j, i)
      BY <1>2, <1>6, <2>1 DEF CopyGoesWell, TriedIsDelivered
    <3> QED
      BY <1>4, <1>5, <2>1, <3>1, DeliveredStays
  <2>2. EndBatch(j, Cardinality(w.batch)) /\ Cardinality(w.batch) \in Nat
    BY <1>1, <1>3, <1>6, KeySetsAreFinite
  <2> QED
    BY <1>2, <1>4, <2>1, <2>2, BatchEnds
<1>7. CASE w.left # {k}
  <2>1. /\ worker'[j].cur = w.cur /\ worker'[j].last = w.last
        /\ worker'[j].batch = w.batch /\ worker'[j].mode = "rows"
        /\ worker'[j].left = w.left \ {k}
    BY <1>1, <1>2, <1>3, <1>7 DEF TypeInv, TypeOK, Worker
  <2>2. \A i : Delivered(j, i) => Delivered(j, i)'
    BY <1>4, <2>1, DeliveredStays
  <2>3. InLoop(j) /\ InLoop(j)'
    BY <1>2, <2>1 DEF InLoop
  <2>4. BehindIsDelivered(j)'
    BY <1>4, <2>1, <2>2, <2>3 DEF CopyGoesWell, BehindIsDelivered
  <2>5. PageIsNext(j)'
    BY <1>2, <1>4, <2>1 DEF CopyGoesWell, PageIsNext
  <2>6. TriedIsDelivered(j)'
    BY <1>2, <1>5, <2>1, <2>2 DEF CopyGoesWell, TriedIsDelivered
  <2>7. BeginsAtZero(j)' /\ SteadyIsThere(j)' /\ EndIsDelivered(j)'
    BY <1>2, <1>4, <2>1, <2>3 DEF CopyGoesWell, BeginsAtZero, SteadyIsThere, EndIsDelivered
  <2> QED
    BY <2>4, <2>5, <2>6, <2>7 DEF CopyGoesWell
<1> QED
  BY <1>6, <1>7

LEMMA CopyMany ==
    ASSUME TypeInv, [Next]_vars, NEW j \in Jobs, CopyGoesWell(j), InsertMany(j)
    PROVE  CopyGoesWell(j)'
<1> DEFINE w == worker[j]
           n == BaseName(w.cur)
           there == n \in DOMAIN target
           old == IF there THEN target[n]
                  ELSE [cols |-> {}, extras |-> BareExtras, rows |-> {}]
           dups == IF there THEN Duplicates(w.cur, w.batch) ELSE {}
<1>1. PICK taken \in SUBSET (w.batch \ (dups \cup Rejected)) :
        /\ target' = IF there \/ taken # {}
                     THEN Created(n, WithRows(old, taken)) ELSE target
        /\ ghost' = [ghost EXCEPT
              ![j] = Skipped(Wrote(ghost[j], taken), (w.batch \ dups) \ taken)]
        /\ \/ EndBatch(j, Inserted(w.batch, taken))
           \/ EndBatch(j, 0)
  BY DEF InsertMany
<1>2. Running(j, "copy") /\ w.mode = "insert" /\ source' = source
  BY DEF InsertMany, Copying
<1>3. /\ w.batch \in SUBSET Keys /\ taken \in SUBSET Keys /\ w.cur \in Objects
      /\ ghost[j] \in Ghost
  BY <1>2 DEF TypeInv, TypeOK, Worker, Running
<1>4. ghost'[j] = Skipped(Wrote(ghost[j], taken), (w.batch \ dups) \ taken)
  BY <1>1 DEF TypeInv, TypeOK
<1>5. /\ ghost'[j].steady = ghost[j].steady
      /\ ghost'[j].skipped = ghost[j].skipped \cup ((w.batch \ dups) \ taken)
  BY <1>3, <1>4 DEF Wrote, Skipped, Ghost
<1>6. old \in Table
  BY PlanAssumption DEF TypeInv, TypeOK, Table
<1>7. ASSUME NEW k \in w.batch, worker'[j].cur = w.cur
      PROVE  Delivered(j, k)'
  <2>1. CASE k \in (w.batch \ dups) \ taken
    BY <1>5, <2>1 DEF Delivered
  <2>2. CASE k \in taken \/ k \in dups
    <3>1. there \/ taken # {}
      BY <2>2
    <3>2. n \in DOMAIN target' /\ target'[n] = WithRows(old, taken)
      BY <1>1, <3>1 DEF Created
    <3>3. k \in taken \/ k \in KeysOf(old)
      BY <2>2 DEF Duplicates
    <3>4. k \in KeysOf(WithRows(old, taken))
      BY <1>6, <3>3, WrittenIsThere
    <3>5. \E m \in DOMAIN target' : ObjectOf(m) = w.cur /\ k \in KeysOf(target'[m])
      BY <1>3, <3>2, <3>4, BaseNamesAreNames
    <3> QED
      BY <1>7, <3>5 DEF Delivered, RowStored
  <2> QED
    BY <2>1, <2>2
<1>8. \E count \in Nat : EndBatch(j, count)
  BY <1>1, <1>3, KeySetsAreFinite DEF Inserted
<1> QED
  BY <1>2, <1>5, <1>7, <1>8, BatchEnds

\* Whatever one job does, the worker of another does not move.
LEMMA WorkersApart ==
    ASSUME TypeInv, NEW i \in Jobs, NEW j \in Jobs,
           PrepareJob(i) \/ (Work(i) /\ i # j)
    PROVE  worker'[j] = worker[j] /\ ghost'[j] = ghost[j] /\ source' = source
<1>1. CASE PrepareJob(i)
  BY <1>1 DEF PrepareJob, databases
<1>2. CASE Work(i) /\ i # j
  <2>1. CASE StartJob(i) \/ StartFails(i) \/ FinishJob(i)
    BY <1>2, <2>1 DEF StartJob, StartFails, FinishJob, databases, TypeInv, TypeOK
  <2>2. CASE BeginStep(i)
    BY <1>2, <2>2 DEF BeginStep, databases, TypeInv, TypeOK
  <2>3. CASE StepFails(i)
    BY <1>2, <2>3 DEF StepFails, Fail, TypeInv, TypeOK
  <2>4. CASE RenameTable(i) \/ CreateTable(i) \/ AddColumns(i) \/ EndCopy(i)
    BY <1>2, <2>4 DEF RenameTable, CreateTable, AddColumns, EndCopy, Succeed, databases,
       TypeInv, TypeOK
  <2>5. CASE OpenCopy(i) \/ SelectBatch(i) \/ InsertBatchFails(i)
    BY <1>2, <2>5 DEF OpenCopy, SelectBatch, InsertBatchFails, databases, TypeInv, TypeOK
  <2>6. CASE InsertBatch(i) \/ InsertMany(i)
    BY <1>2, <2>6 DEF InsertBatch, InsertMany, EndBatch, TypeInv, TypeOK
  <2>7. CASE InsertRow(i)
    BY <1>2, <2>7 DEF InsertRow, EndBatch, TypeInv, TypeOK
  <2> QED
    BY <1>2, <2>1, <2>2, <2>3, <2>4, <2>5, <2>6, <2>7 DEF Work
<1> QED
  BY <1>1, <1>2

\* Before, between and after its steps a worker is in no copy loop.
LEMMA WorkerRests ==
    ASSUME TypeInv, [Next]_vars, NEW j \in Jobs, CopyGoesWell(j),
           \/ StartJob(j) \/ StartFails(j) \/ FinishJob(j) \/ BeginStep(j) \/ StepFails(j)
           \/ RenameTable(j) \/ CreateTable(j) \/ AddColumns(j) \/ EndCopy(j)
    PROVE  CopyGoesWell(j)'
<1>1. worker[j] \in Worker
  BY DEF TypeInv, TypeOK
<1>2. CASE StartJob(j)
  <2>1. /\ worker'[j].mode = "off" /\ worker'[j].last = None /\ worker'[j].done = 0
    BY <1>2 DEF StartJob, Idle, TypeInv, TypeOK
  <2> QED
    BY <2>1, NotCopying
<1>3. CASE StartFails(j) \/ FinishJob(j)
  <2>1. worker' = worker /\ ghost' = ghost /\ source' = source
    BY <1>3 DEF StartFails, FinishJob, databases
  <2> QED
    BY <2>1, CopyWaits DEF CopyGoesWell, SteadyIsThere
<1>4. CASE BeginStep(j)
  <2>1. PICK o \in Objects, a \in Job!Actions :
           \E new : worker' = [worker EXCEPT ![j] = Started(worker[j], o, a, new)]
    BY <1>4 DEF BeginStep, Pending
  <2>2. /\ worker'[j].mode \in {"off", "open"}
        /\ worker'[j].last = worker[j].last /\ worker'[j].done = worker[j].done
    BY <1>1, <2>1 DEF Started, TypeInv, TypeOK, Worker
  <2>3. ~Running(j, "copy")
    BY <1>1, <1>4 DEF BeginStep, Resting, Running, Worker, Job!Actions
  <2>4. worker[j].mode = "off"
    BY <2>3 DEF TypeInv, ControlInv, ModeIsCopying
  <2>5. worker[j].last = None /\ worker[j].done = 0
    BY <2>4 DEF CopyGoesWell, BeginsAtZero, InLoop
  <2> QED
    BY <2>2, <2>5, NotCopying
<1>5. ASSUME NEW o, NEW names,
             \/ worker' = [worker EXCEPT ![j] = Rested(worker[j], o)]
             \/ worker' = [worker EXCEPT ![j] = Knowing(Rested(worker[j], o), names)]
      PROVE  CopyGoesWell(j)'
  <2>1. \/ worker'[j] = Rested(worker[j], o)
        \/ worker'[j] = Knowing(Rested(worker[j], o), names)
    BY <1>5 DEF TypeInv, TypeOK
  <2>2. worker'[j].mode = "off" /\ worker'[j].last = None /\ worker'[j].done = 0
    BY <1>1, <2>1 DEF Rested, Knowing, Worker
  <2> QED
    BY <2>2, NotCopying
<1>6. CASE StepFails(j)
  BY <1>5, <1>6 DEF StepFails, Fail
<1>7. CASE RenameTable(j) \/ CreateTable(j) \/ AddColumns(j) \/ EndCopy(j)
  BY <1>5, <1>7 DEF RenameTable, CreateTable, AddColumns, EndCopy, Succeed
<1> QED
  BY <1>2, <1>3, <1>4, <1>6, <1>7

\* A row that is deleted is steady for no copy of its table any more.
LEMMA CopyOfAWrittenSource ==
    ASSUME TypeInv, [Next]_vars, NEW j \in Jobs, CopyGoesWell(j), WriteSource
    PROVE  CopyGoesWell(j)'
<1>1. PICK o \in DOMAIN source, k \in Keys :
        \/ /\ source' = [source EXCEPT
                            ![o] = WithSourceKeys(source[o], source[o].keys \cup {k})]
           /\ ghost' = ghost
        \/ /\ source' = [source EXCEPT
                            ![o] = WithSourceKeys(source[o], source[o].keys \ {k})]
           /\ ghost' = [i \in Jobs |->
                 IF worker[i].cur = o THEN Lost(ghost[i], {k}) ELSE ghost[i]]
  BY DEF WriteSource
<1>2. worker' = worker /\ ghost[j] \in Ghost
  BY DEF WriteSource, TypeInv, TypeOK
<1>3. \A keys : WithSourceKeys(source[o], keys).keys = keys
  BY DEF WithSourceKeys, TypeInv, TypeOK, SourceTable
<1>4. InLoop(j) => ghost[j].steady \subseteq source[worker[j].cur].keys
  BY DEF CopyGoesWell, SteadyIsThere
<1>5. CASE /\ source' = [source EXCEPT
                            ![o] = WithSourceKeys(source[o], source[o].keys \cup {k})]
           /\ ghost' = ghost
  <2>1. \A p : source[p].keys \subseteq source'[p].keys
    BY <1>3, <1>5
  <2> QED
    BY <1>2, <1>4, <1>5, <2>1, CopyWaits
<1>6. CASE /\ source' = [source EXCEPT
                            ![o] = WithSourceKeys(source[o], source[o].keys \ {k})]
           /\ ghost' = [i \in Jobs |->
                 IF worker[i].cur = o THEN Lost(ghost[i], {k}) ELSE ghost[i]]
  <2>1. CASE worker[j].cur = o
    <3>1. ghost'[j] = Lost(ghost[j], {k})
      BY <1>6, <2>1
    <3>2. ghost'[j].steady = ghost[j].steady \ {k} /\ ghost'[j].skipped = ghost[j].skipped
      BY <1>2, <3>1, GhostFields
    <3>3. source'[worker[j].cur].keys = source[worker[j].cur].keys \ {k}
      BY <1>3, <1>6, <2>1
    <3> QED
      BY <1>2, <1>4, <3>2, <3>3, CopyWaits
  <2>2. CASE worker[j].cur # o
    <3>1. ghost'[j] = ghost[j] /\ source'[worker[j].cur] = source[worker[j].cur]
      BY <1>6, <2>2
    <3> QED
      BY <1>2, <1>4, <3>1, CopyWaits
  <2> QED
    BY <2>1, <2>2
<1> QED
  BY <1>1, <1>5, <1>6

LEMMA CopyNext ==
    ASSUME TypeInv, [Next]_vars, NEW j \in Jobs, CopyGoesWell(j)
    PROVE  CopyGoesWell(j)'
<1>1. ASSUME NEW i \in Jobs, PrepareJob(i) \/ (Work(i) /\ i # j)
      PROVE  CopyGoesWell(j)'
  BY <1>1, WorkersApart, CopyWaits DEF CopyGoesWell, SteadyIsThere
<1>2. CASE Work(j)
  BY <1>2, WorkerRests, CopyOpens, CopySelects, CopyFallsBack, CopyBatch, CopyRow, CopyMany
     DEF Work
<1>3. CASE WriteSource
  BY <1>3, CopyOfAWrittenSource
<1>4. CASE Crash
  <2>1. worker'[j].mode = "off" /\ worker'[j].last = None /\ worker'[j].done = 0
    BY <1>4 DEF Crash, Idle
  <2> QED
    BY <2>1, NotCopying
<1>5. CASE UNCHANGED vars
  BY <1>5, CopyWaits DEF vars, CopyGoesWell, SteadyIsThere
<1> QED
  BY <1>1, <1>2, <1>3, <1>4, <1>5 DEF Next

LEMMA CopyInit == Init => CopyInv
<1> SUFFICES ASSUME Init, NEW j \in Jobs PROVE CopyGoesWell(j)
  BY TypeInit DEF CopyInv
<1>1. worker[j].mode = "off" /\ worker[j].last = None /\ worker[j].done = 0
  BY DEF Init, Idle
<1> QED
  BY <1>1 DEF CopyGoesWell, BeginsAtZero, SteadyIsThere, BehindIsDelivered, PageIsNext,
     TriedIsDelivered, EndIsDelivered, InLoop

LEMMA CopyInvNext == CopyInv /\ [Next]_vars => CopyInv'
<1> SUFFICES ASSUME CopyInv, [Next]_vars PROVE CopyInv'
  OBVIOUS
<1>1. ASSUME NEW j \in Jobs PROVE CopyGoesWell(j)'
  BY CopyNext DEF CopyInv
<1>2. TypeInv'
  BY TypeNext DEF CopyInv
<1> QED
  BY <1>1, <1>2 DEF CopyInv

\* The copy loop of _copy_sql_rows and _copy_mongo_docs over a table with a single
\* key delivers every row that was in the source all along, or the fallback let
\* it go; other clients may insert and delete rows, other jobs may rename the
\* table it writes to, and batches may fail, at any point.
THEOREM CopiesAreComplete == Spec => []CopyComplete
<1>1. CopyInv => CopyComplete
  BY DEF CopyInv, CopyGoesWell, EndIsDelivered, Delivered, CopyComplete
<1> QED
  BY <1>1, CopyInit, CopyInvNext, PTL DEF Spec

-----------------------------------------------------------------------------
(* What a MongoDB copy reports.                                            *)

\* A copy of documents has no row-by-row fallback; what it wrote lies behind the
\* page it is at; and it counts nothing it did not write.
CountsOnce(j) == Kind = "mongo" =>
    /\ worker[j].mode # "rows"
    /\ InLoop(j) => \A k \in ghost[j].inserted : k <= worker[j].last
    /\ worker[j].mode = "insert" => \A k \in worker[j].batch : k > worker[j].last
    /\ worker[j].done <= Cardinality(ghost[j].inserted)

CountInv == CopyInv /\ \A j \in Jobs : CountsOnce(j)

LEMMA CountWaits ==
    ASSUME NEW j \in Jobs, CountsOnce(j), worker'[j] = worker[j],
           ghost'[j].inserted = ghost[j].inserted
    PROVE  CountsOnce(j)'
BY DEF CountsOnce, InLoop

LEMMA NothingCounted ==
    ASSUME TypeInv', NEW j \in Jobs, worker'[j].mode \in {"off", "open"},
           worker'[j].done = 0
    PROVE  CountsOnce(j)'
<1>1. ghost'[j].inserted \in SUBSET Keys
  BY DEF TypeInv, TypeOK, Ghost
<1>2. Cardinality(ghost'[j].inserted) \in Nat
  BY <1>1, KeySetsAreFinite
<1> QED
  BY <1>2 DEF CountsOnce, InLoop

LEMMA CountRests ==
    ASSUME CopyInv, CopyInv', NEW j \in Jobs, CountsOnce(j),
           \/ StartJob(j) \/ StartFails(j) \/ FinishJob(j) \/ BeginStep(j) \/ StepFails(j)
           \/ RenameTable(j) \/ CreateTable(j) \/ AddColumns(j) \/ EndCopy(j)
    PROVE  CountsOnce(j)'
<1>1. worker[j] \in Worker
  BY DEF CopyInv, TypeInv, TypeOK
<1>2. CASE StartFails(j) \/ FinishJob(j)
  BY <1>2, CountWaits DEF StartFails, FinishJob
<1>3. CASE \/ StartJob(j) \/ BeginStep(j) \/ StepFails(j)
           \/ RenameTable(j) \/ CreateTable(j) \/ AddColumns(j) \/ EndCopy(j)
  <2>1. worker'[j].mode \in {"off", "open"}
    <3>1. CASE StartJob(j)
      BY <3>1 DEF StartJob, Idle, CopyInv, TypeInv, TypeOK
    <3>2. CASE BeginStep(j)
      <4>1. PICK o, a, new : worker' = [worker EXCEPT ![j] = Started(worker[j], o, a, new)]
        BY <3>2 DEF BeginStep
      <4>2. worker'[j] = Started(worker[j], o, a, new)
        BY <4>1 DEF CopyInv, TypeInv, TypeOK
      <4> QED
        BY <1>1, <4>2 DEF Started, Worker
    <3>3. CASE \/ StepFails(j) \/ RenameTable(j) \/ CreateTable(j) \/ AddColumns(j)
               \/ EndCopy(j)
      <4>1. ASSUME NEW o, NEW names,
                   \/ worker' = [worker EXCEPT ![j] = Rested(worker[j], o)]
                   \/ worker' = [worker EXCEPT ![j] = Knowing(Rested(worker[j], o), names)]
            PROVE  worker'[j].mode = "off"
        <5>1. \/ worker'[j] = Rested(worker[j], o)
              \/ worker'[j] = Knowing(Rested(worker[j], o), names)
          BY <4>1 DEF CopyInv, TypeInv, TypeOK
        <5> QED
          BY <1>1, <5>1 DEF Rested, Knowing, Worker
      <4>2. CASE StepFails(j)
        BY <4>1, <4>2 DEF StepFails, Fail
      <4>3. CASE RenameTable(j) \/ CreateTable(j) \/ AddColumns(j) \/ EndCopy(j)
        BY <4>1, <4>3 DEF RenameTable, CreateTable, AddColumns, EndCopy, Succeed
      <4> QED
        BY <3>3, <4>2, <4>3
    <3> QED
      BY <1>3, <3>1, <3>2, <3>3
  <2>2. worker'[j].done = 0
    BY <2>1 DEF CopyInv, CopyGoesWell, BeginsAtZero, InLoop
  <2> QED
    BY <2>1, <2>2, NothingCounted DEF CopyInv
<1> QED
  BY <1>2, <1>3

LEMMA CountOpens ==
    ASSUME CopyInv, NEW j \in Jobs, OpenCopy(j)
    PROVE  CountsOnce(j)'
<1>1. worker[j] \in Worker /\ worker[j].mode = "open"
  BY DEF OpenCopy, Copying, CopyInv, TypeInv, TypeOK
<1>2. worker'[j] = [worker[j] EXCEPT !.mode = "select"]
  BY DEF OpenCopy, CopyInv, TypeInv, TypeOK
<1>3. worker'[j].mode = "select" /\ worker'[j].done = worker[j].done
  BY <1>1, <1>2 DEF Worker
<1>4. worker[j].done = 0
  BY <1>1 DEF CopyInv, CopyGoesWell, BeginsAtZero, InLoop
<1>5. ghost'[j].inserted = {}
  BY DEF OpenCopy, CopyOf, CopyInv, TypeInv, TypeOK
<1> QED
  BY <1>3, <1>4, <1>5, FS_EmptySet DEF CountsOnce

LEMMA CountSelects ==
    ASSUME CopyInv, NEW j \in Jobs, CountsOnce(j), SelectBatch(j)
    PROVE  CountsOnce(j)'
<1> SUFFICES ASSUME Kind = "mongo" PROVE CountsOnce(j)'
  BY DEF CountsOnce
<1> DEFINE w == worker[j]
<1>1. w \in Worker /\ w.mode = "select" /\ w.cur \in Keyed
  BY ExecutorAssumption
     DEF SelectBatch, Copying, Running, CopyInv, TypeInv, TypeOK, Worker
<1>2. PICK page \in KeysetPages(w.cur, w.last) :
         worker' = [worker EXCEPT ![j].batch = page,
                         ![j].mode = IF page = {} THEN "end" ELSE "insert"]
  BY <1>1 DEF SelectBatch
<1>3. /\ worker'[j].last = w.last /\ worker'[j].batch = page /\ worker'[j].done = w.done
      /\ worker'[j].mode = IF page = {} THEN "end" ELSE "insert"
  BY <1>1, <1>2 DEF CopyInv, TypeInv, TypeOK, Worker
<1>4. \A k \in page : k > w.last
  BY DEF KeysetPages
<1>5. ghost' = ghost
  BY DEF SelectBatch
<1>6. /\ \A k \in ghost[j].inserted : k <= w.last
      /\ w.done <= Cardinality(ghost[j].inserted)
  BY <1>1 DEF CountsOnce, InLoop
<1> QED
  BY <1>3, <1>4, <1>5, <1>6 DEF CountsOnce

LEMMA CountMany ==
    ASSUME CopyInv, NEW j \in Jobs, CountsOnce(j), InsertMany(j)
    PROVE  CountsOnce(j)'
<1> DEFINE w == worker[j]
           g == ghost[j]
<1>1. PICK taken, passed, count :
        /\ taken \subseteq w.batch /\ count \in {0, Cardinality(taken)}
        /\ ghost' = [ghost EXCEPT ![j] = Skipped(Wrote(g, taken), passed)]
        /\ EndBatch(j, count)
  BY DEF InsertMany, Inserted
<1>2. w \in Worker /\ g \in Ghost /\ w.mode = "insert" /\ w.cur \in Keyed /\ Kind = "mongo"
  BY ExecutorAssumption
     DEF InsertMany, Copying, Running, CopyInv, TypeInv, TypeOK, Worker
<1>3. PICK m \in w.batch :
         /\ \A k \in w.batch : k <= m
         /\ worker' = [worker EXCEPT ![j] = AfterBatch(w, m, count)]
  BY <1>1 DEF EndBatch
<1>4. worker'[j] = AfterBatch(w, m, count)
  BY <1>3 DEF CopyInv, TypeInv, TypeOK
<1>5. /\ worker'[j].last = m /\ worker'[j].done = w.done + count
      /\ worker'[j].mode \in {"select", "end"}
  BY <1>2, <1>4 DEF AfterBatch, Worker
<1>6. ghost'[j].inserted = g.inserted \cup taken
  <2>1. ghost'[j] = Skipped(Wrote(g, taken), passed)
    BY <1>1 DEF CopyInv, TypeInv, TypeOK
  <2>2. Wrote(g, taken) \in Ghost
    BY <1>1, <1>2, GhostTypes DEF Worker
  <2> QED
    BY <1>2, <2>1, <2>2, GhostFields
<1>7. /\ w.batch \subseteq Keys /\ g.inserted \subseteq Keys
      /\ w.last \in Keys \cup {None} /\ w.done \in Nat
  BY <1>2 DEF Worker, Ghost
<1>8. w.batch \subseteq Nat /\ g.inserted \subseteq Nat /\ w.last \in Nat
  BY <1>7, KeysAreNumbers
<1>9. /\ \A k \in g.inserted : k <= w.last
      /\ \A k \in w.batch : k > w.last
      /\ w.done <= Cardinality(g.inserted)
  BY <1>2 DEF CountsOnce, InLoop
<1>10. \A k \in g.inserted \cup taken : k <= m
  BY <1>1, <1>3, <1>8, <1>9
<1>11. g.inserted \cap taken = {}
  BY <1>1, <1>8, <1>9
<1>12. /\ IsFiniteSet(g.inserted) /\ IsFiniteSet(taken)
       /\ Cardinality(g.inserted) \in Nat /\ Cardinality(taken) \in Nat
  BY <1>1, <1>7, KeySetsAreFinite
<1>13. Cardinality(g.inserted \cup taken) = Cardinality(g.inserted) + Cardinality(taken)
  <2>1. Cardinality(g.inserted \cup taken) = Cardinality(g.inserted) + Cardinality(taken)
                                                  - Cardinality(g.inserted \cap taken)
    BY <1>12, FS_Union
  <2>2. Cardinality(g.inserted \cap taken) = 0
    BY <1>11, FS_EmptySet
  <2> QED
    BY <1>12, <2>1, <2>2
<1>14. w.done + count <= Cardinality(g.inserted \cup taken)
  BY <1>1, <1>7, <1>9, <1>12, <1>13
<1> QED
  BY <1>5, <1>6, <1>10, <1>14 DEF CountsOnce

LEMMA CountNext ==
    ASSUME CopyInv, CopyInv', [Next]_vars, NEW j \in Jobs, CountsOnce(j)
    PROVE  CountsOnce(j)'
<1>1. ASSUME NEW i \in Jobs, PrepareJob(i) \/ (Work(i) /\ i # j)
      PROVE  CountsOnce(j)'
  BY <1>1, WorkersApart, CountWaits DEF CopyInv
<1>2. CASE Work(j)
  <2>1. CASE InsertBatch(j) \/ InsertBatchFails(j)
    BY <2>1 DEF InsertBatch, InsertBatchFails, CountsOnce
  <2>2. CASE InsertRow(j)
    BY <2>2 DEF InsertRow, Copying, CountsOnce
  <2> QED
    BY <1>2, <2>1, <2>2, CountRests, CountOpens, CountSelects, CountMany DEF Work
<1>3. CASE WriteSource
  <2>1. PICK o \in DOMAIN source, k \in Keys :
                    \/ ghost' = ghost
                    \/ ghost' = [i \in Jobs |->
                          IF worker[i].cur = o THEN Lost(ghost[i], {k}) ELSE ghost[i]]
    BY <1>3 DEF WriteSource
  <2>2. ghost'[j] = ghost[j] \/ ghost'[j] = Lost(ghost[j], {k})
    BY <2>1
  <2>3. ghost'[j].inserted = ghost[j].inserted
    BY <2>2, GhostFields DEF CopyInv, TypeInv, TypeOK
  <2>4. worker' = worker
    BY <1>3 DEF WriteSource
  <2> QED
    BY <2>3, <2>4, CountWaits
<1>4. CASE Crash
  <2>1. worker'[j].mode = "off" /\ worker'[j].done = 0
    BY <1>4 DEF Crash, Idle
  <2> QED
    BY <2>1, NothingCounted DEF CopyInv
<1>5. CASE UNCHANGED vars
  BY <1>5, CountWaits DEF vars
<1> QED
  BY <1>1, <1>2, <1>3, <1>4, <1>5 DEF Next

\* progress_done of _copy_mongo_docs, which adds up what _insert_many_ignore
\* returns, is at no time more than the number of documents the copy has written.
THEOREM ProgressCountsWrites == Spec => []ProgressIsHonest
<1>1. Init => CountInv
  <2> SUFFICES ASSUME Init PROVE CountInv
    OBVIOUS
  <2>1. CopyInv
    BY CopyInit
  <2>2. ASSUME NEW j \in Jobs PROVE CountsOnce(j)
    <3>1. worker[j].mode = "off" /\ worker[j].done = 0 /\ ghost[j].inserted = {}
      BY DEF Init, Idle, NoGhost, CopyOf
    <3> QED
      BY <3>1, FS_EmptySet DEF CountsOnce, InLoop
  <2> QED
    BY <2>1, <2>2 DEF CountInv
<1>2. CountInv /\ [Next]_vars => CountInv'
  <2> SUFFICES ASSUME CountInv, [Next]_vars PROVE CountInv'
    OBVIOUS
  <2>1. CopyInv'
    BY CopyInvNext DEF CountInv
  <2>2. ASSUME NEW j \in Jobs PROVE CountsOnce(j)'
    BY <2>1, CountNext DEF CountInv
  <2> QED
    BY <2>1, <2>2 DEF CountInv
<1>3. CountInv => ProgressIsHonest
  BY DEF CountInv, CountsOnce, ProgressIsHonest
<1> QED
  BY <1>1, <1>2, <1>3, PTL DEF Spec

-----------------------------------------------------------------------------
(* The engine implements the step protocol: Spec => JobSpec.               *)
(*                                                                         *)
(* That a step may begin, or a job may end, is a fact about the steps in   *)
(* MigrationJob, and about the worker's loop variables in the engine.      *)
(* LoopInv relates the two: what the loop has not reached is untouched,    *)
(* what it has left is settled.                                            *)

\* An accepted job that no thread runs yet has begun nothing.
WaitingInv ==
    \A j \in Jobs : phase[j] = "prepared" =>
        \A o \in Objects, a \in Job!Actions : steps[j][o][a] \in {"none", "pending"}

AheadInv ==
    \A j \in Jobs : phase[j] = "running" =>
        \A o \in worker[j].todo, a \in Job!Actions : steps[j][o][a] \in {"none", "pending"}

BehindInv ==
    \A j \in Jobs : phase[j] = "running" =>
        \A o \in Objects \ worker[j].todo :
            o # worker[j].cur => Job!Settled(steps[j], o)

AtInv ==
    \A j \in Jobs : phase[j] = "running" /\ worker[j].cur # None =>
        /\ worker[j].cur \notin worker[j].todo
        /\ \A q \in worker[j].todo : worker[j].cur < q
        /\ ~Job!Failed(steps[j], worker[j].cur)

LoopInv == WaitingInv /\ AheadInv /\ BehindInv /\ AtInv

LEMMA LoopInit == Init => LoopInv
BY DEF Init, LoopInv, WaitingInv, AheadInv, BehindInv, AtInv

\* A step that moves no loop and changes no status.
LEMMA LoopStutters ==
    ASSUME LoopInv, UNCHANGED steps,
           \A j \in Jobs : phase'[j] \in {"prepared", "running"} =>
               /\ phase'[j] = phase[j]
               /\ worker'[j].cur = worker[j].cur
               /\ worker'[j].todo = worker[j].todo
    PROVE  LoopInv'
<1>1. WaitingInv'
  BY DEF LoopInv, WaitingInv
<1>2. AheadInv'
  BY DEF LoopInv, AheadInv
<1>3. BehindInv'
  BY DEF LoopInv, BehindInv
<1>4. AtInv'
  BY DEF LoopInv, AtInv
<1> QED
  BY <1>1, <1>2, <1>3, <1>4 DEF LoopInv

\* A step of one job only has to keep what LoopInv says of that job.
LEMMA LoopOfOne ==
    ASSUME LoopInv, NEW j \in Jobs, phase'[j] # "prepared",
           \A i \in Jobs : i # j =>
               phase'[i] = phase[i] /\ steps'[i] = steps[i] /\ worker'[i] = worker[i],
           \A o \in worker'[j].todo, a \in Job!Actions :
               steps'[j][o][a] \in {"none", "pending"},
           \A o \in Objects \ worker'[j].todo :
               o # worker'[j].cur => Job!Settled(steps'[j], o),
           worker'[j].cur # None =>
               /\ worker'[j].cur \notin worker'[j].todo
               /\ \A q \in worker'[j].todo : worker'[j].cur < q
               /\ ~Job!Failed(steps'[j], worker'[j].cur)
    PROVE  LoopInv'
<1>1. WaitingInv'
  BY DEF LoopInv, WaitingInv
<1>2. AheadInv'
  BY DEF LoopInv, AheadInv
<1>3. BehindInv'
  BY DEF LoopInv, BehindInv
<1>4. AtInv'
  BY DEF LoopInv, AtInv
<1> QED
  BY <1>1, <1>2, <1>3, <1>4 DEF LoopInv

-----------------------------------------------------------------------------
LEMMA PrepareLoop ==
    ASSUME TypeInv, LoopInv, NEW j \in Jobs, PrepareJob(j)
    PROVE  LoopInv'
<1>1. /\ phase'[j] = "prepared"
      /\ \A i \in Jobs : i # j => phase'[i] = phase[i] /\ steps'[i] = steps[i]
      /\ UNCHANGED worker
      /\ \A o \in Objects, a \in Job!Actions : steps'[j][o][a] \in {"none", "pending"}
  BY DEF PrepareJob, BuildSteps, TypeInv, TypeOK
<1>2. WaitingInv'
  BY <1>1 DEF LoopInv, WaitingInv
<1>3. AheadInv'
  BY <1>1 DEF LoopInv, AheadInv
<1>4. BehindInv'
  BY <1>1 DEF LoopInv, BehindInv
<1>5. AtInv'
  BY <1>1 DEF LoopInv, AtInv
<1> QED
  BY <1>2, <1>3, <1>4, <1>5 DEF LoopInv

LEMMA StartLoop ==
    ASSUME TypeInv, LoopInv, NEW j \in Jobs, StartJob(j)
    PROVE  LoopInv'
<1>1. /\ phase[j] = "prepared" /\ phase'[j] = "running" /\ UNCHANGED steps
      /\ \A i \in Jobs : i # j => phase'[i] = phase[i] /\ worker'[i] = worker[i]
      /\ worker'[j].cur = None
      /\ worker'[j].todo = {o \in Objects : Pending(j, o) # {}}
  BY DEF StartJob, Idle, TypeInv, TypeOK, Worker
<1>2. \A o \in Objects, a \in Job!Actions : steps[j][o][a] \in {"none", "pending"}
  BY <1>1 DEF LoopInv, WaitingInv
<1>3. \A o \in Objects \ worker'[j].todo : Job!Settled(steps[j], o)
  BY <1>1, <1>2 DEF Pending, Job!Settled
<1> QED
  BY <1>1, <1>2, <1>3, LoopOfOne

LEMMA BeginLoop ==
    ASSUME TypeInv, LoopInv, NEW j \in Jobs, BeginStep(j)
    PROVE  /\ LoopInv'
           /\ phase[j] = "running"
           /\ \E o \in Objects, a \in Job!Actions :
                 /\ Job!Ready(steps[j], o, a)
                 /\ steps' = [steps EXCEPT ![j][o][a] = "running"]
<1>1. PICK o \in Objects :
        /\ \/ worker[j].cur = o
           \/ /\ worker[j].cur = None
              /\ o \in worker[j].todo
              /\ \A p \in worker[j].todo : o <= p
        /\ \E a \in Pending(j, o) :
              /\ \A b \in Pending(j, o) : Job!Rank[a] <= Job!Rank[b]
              /\ steps' = [steps EXCEPT ![j][o][a] = "running"]
              /\ \E new \in NewNames(worker[j], o, a) :
                    worker' = [worker EXCEPT ![j] = Started(worker[j], o, a, new)]
  BY DEF BeginStep
<1>2. PICK a \in Pending(j, o) :
        /\ \A b \in Pending(j, o) : Job!Rank[a] <= Job!Rank[b]
        /\ steps' = [steps EXCEPT ![j][o][a] = "running"]
        /\ \E new \in NewNames(worker[j], o, a) :
              worker' = [worker EXCEPT ![j] = Started(worker[j], o, a, new)]
  BY <1>1
<1>3. /\ phase[j] = "running" /\ UNCHANGED phase
      /\ \A p \in Objects, b \in Job!Actions : steps[j][p][b] # "running"
      /\ worker[j].todo \subseteq Objects
      /\ worker'[j].cur = o /\ worker'[j].todo = worker[j].todo \ {o}
      /\ \A i \in Jobs : i # j => steps'[i] = steps[i] /\ worker'[i] = worker[i]
  <2>1. /\ phase[j] = "running" /\ UNCHANGED phase
        /\ \A p \in Objects, b \in Job!Actions : steps[j][p][b] # "running"
    BY DEF BeginStep, Resting, records
  <2>2. PICK new \in NewNames(worker[j], o, a) :
          worker' = [worker EXCEPT ![j] = Started(worker[j], o, a, new)]
    BY <1>2
  <2>3. worker[j] \in Worker /\ worker \in [Jobs -> Worker] /\ steps \in [Jobs -> Job!Plan]
    BY DEF TypeInv, TypeOK
  <2>4. /\ Started(worker[j], o, a, new).cur = o
        /\ Started(worker[j], o, a, new).todo = worker[j].todo \ {o}
        /\ worker[j].todo \subseteq Objects
    BY <2>3 DEF Started, Worker
  <2>5. worker'[j] = Started(worker[j], o, a, new)
    BY <2>2, <2>3
  <2> QED
    BY <1>2, <2>1, <2>2, <2>3, <2>4, <2>5
<1>4. /\ a \in Job!Actions /\ steps[j][o][a] = "pending" /\ steps[j] \in Job!Plan
      /\ steps'[j] = [steps[j] EXCEPT ![o][a] = "running"]
      /\ steps'[j] \in Job!Plan
      /\ \A p \in Objects, b \in Job!Actions :
            (p = o /\ b = a) \/ steps'[j][p][b] = steps[j][p][b]
      /\ steps'[j][o][a] = "running"
  BY <1>2 DEF Pending, TypeInv, TypeOK, Job!Plan, Job!StepStatus
<1>5. \A q \in Objects : q \in Nat /\ q # None
  BY PlanAssumption DEF None
<1>6. ~Job!Failed(steps[j], o)
  BY <1>1, <1>3, <1>5 DEF LoopInv, AheadInv, AtInv, Job!Failed
<1>7. /\ \A q \in worker[j].todo \ {o} : o < q
      /\ \A q \in Objects : q < o => q \notin worker[j].todo /\ q # worker[j].cur
  BY <1>1, <1>3, <1>5 DEF LoopInv, AtInv, None
<1>8. Job!Ready(steps[j], o, a)
  <2>1. ASSUME NEW b \in Job!Actions, Job!Rank[b] < Job!Rank[a]
        PROVE  steps[j][o][b] \in {"none", "done"}
    <3>1. Job!Rank[a] \in Nat /\ Job!Rank[b] \in Nat
      BY <1>4 DEF Job!Rank, Job!Actions
    <3>2. steps[j][o][b] # "pending"
      BY <1>2, <2>1, <3>1 DEF Pending
    <3>3. steps[j][o][b] \in Job!StepStatus
      BY <1>4 DEF Job!Plan
    <3> QED
      BY <1>3, <1>6, <3>2, <3>3 DEF Job!Failed, Job!StepStatus
  <2>2. \A q \in Objects : q < o => Job!Settled(steps[j], q)
    BY <1>3, <1>7 DEF LoopInv, BehindInv
  <2> QED
    BY <1>4, <2>1, <2>2 DEF Job!Ready
<1>9. LoopInv'
  <2>1. \A p \in worker'[j].todo, b \in Job!Actions : steps'[j][p][b] \in {"none", "pending"}
    BY <1>3, <1>4 DEF LoopInv, AheadInv
  <2>2. ASSUME NEW p \in Objects \ worker'[j].todo, p # o
        PROVE  Job!Settled(steps'[j], p)
    <3>1. p \notin worker[j].todo /\ p # worker[j].cur
      BY <1>1, <1>3, <1>5, <2>2
    <3>2. Job!Settled(steps[j], p)
      BY <1>3, <3>1 DEF LoopInv, BehindInv
    <3> QED
      BY <1>4, <2>2, <3>2 DEF Job!Settled, Job!Failed
  <2>3. ~Job!Failed(steps'[j], o)
    BY <1>4, <1>6 DEF Job!Failed
  <2> QED
    BY <1>3, <1>7, <2>1, <2>2, <2>3, LoopOfOne
<1> QED
  BY <1>2, <1>3, <1>4, <1>8, <1>9

\* The running step ends, and the worker stays only if it succeeded.
LEMMA EndLoop ==
    ASSUME TypeInv, LoopInv, NEW j \in Jobs, NEW a \in Job!Actions, Running(j, a),
           UNCHANGED phase,
           \/ \E names : Succeed(j, a, names)
           \/ Fail(j, a)
    PROVE  /\ LoopInv'
           /\ \E o \in Objects, outcome \in {"done", "error"} :
                 /\ steps[j][o][a] = "running"
                 /\ steps' = [steps EXCEPT ![j][o][a] = outcome]
<1> DEFINE o == worker[j].cur
<1>1. o \in Objects /\ o # None /\ steps[j][o][a] = "running" /\ phase[j] = "running"
  BY DEF TypeInv, TypeOK, Running, Worker
<1>2. PICK outcome \in {"done", "error"} :
        /\ steps' = [steps EXCEPT ![j][o][a] = outcome]
        /\ worker'[j].todo = worker[j].todo
        /\ \A i \in Jobs : i # j => worker'[i] = worker[i]
        /\ outcome = "error" => worker'[j].cur = None
        /\ outcome = "done" =>
              worker'[j].cur = IF Pending(j, o) = {} THEN None ELSE o
  <2>1. worker[j] \in Worker /\ worker \in [Jobs -> Worker]
    BY DEF TypeInv, TypeOK
  <2>2. CASE Fail(j, a)
    BY <2>1, <2>2 DEF Fail, Rested, Worker
  <2>3. ASSUME NEW names, Succeed(j, a, names)
        PROVE  /\ steps' = [steps EXCEPT ![j][o][a] = "done"]
               /\ worker'[j].todo = worker[j].todo
               /\ \A i \in Jobs : i # j => worker'[i] = worker[i]
               /\ worker'[j].cur = IF Pending(j, o) = {} THEN None ELSE o
    <3> DEFINE w == Rested(worker[j], IF Pending(j, o) = {} THEN None ELSE o)
    <3>1. worker' = [worker EXCEPT ![j] = Knowing(w, names)]
      BY <2>3 DEF Succeed
    <3>2. w.todo = worker[j].todo /\ w.cur = IF Pending(j, o) = {} THEN None ELSE o
      BY <2>1 DEF Rested, Worker
    <3>3. Knowing(w, names).todo = w.todo /\ Knowing(w, names).cur = w.cur
      BY <2>1 DEF Knowing, Rested, Worker
    <3>4. steps' = [steps EXCEPT ![j][o][a] = "done"]
      BY <2>3 DEF Succeed
    <3> HIDE DEF w
    <3> QED
      BY <2>1, <3>1, <3>2, <3>3, <3>4
  <2> QED
    BY <2>2, <2>3
<1>3. /\ steps[j] \in Job!Plan
      /\ \A i \in Jobs : i # j => steps'[i] = steps[i]
      /\ steps'[j][o][a] = outcome
      /\ \A p \in Objects, b \in Job!Actions :
            (p = o /\ b = a) \/ steps'[j][p][b] = steps[j][p][b]
  BY <1>1, <1>2 DEF TypeInv, TypeOK, Job!Plan
<1>4. o \notin worker[j].todo /\ ~Job!Failed(steps[j], o)
  BY <1>1 DEF LoopInv, AtInv
<1>5. \A p \in worker'[j].todo, b \in Job!Actions : steps'[j][p][b] \in {"none", "pending"}
  <2>1. worker[j].todo \subseteq Objects
    BY DEF TypeInv, TypeOK, Worker
  <2> QED
    BY <1>1, <1>2, <1>3, <1>4, <2>1 DEF LoopInv, AheadInv
<1>6. ASSUME NEW p \in Objects \ worker'[j].todo, p # worker'[j].cur
      PROVE  Job!Settled(steps'[j], p)
  <2>1. CASE p # o
    <3>1. Job!Settled(steps[j], p)
      BY <1>1, <1>2, <1>6, <2>1 DEF LoopInv, BehindInv
    <3> QED
      BY <1>3, <2>1, <3>1 DEF Job!Settled, Job!Failed
  <2>2. CASE p = o /\ outcome = "error"
    BY <1>3, <2>2 DEF Job!Settled, Job!Failed
  <2>3. CASE p = o /\ outcome = "done"
    <3>1. Pending(j, o) = {}
      BY <1>2, <1>6, <2>3
    <3>2. ASSUME NEW b \in Job!Actions, b # a
          PROVE  steps[j][o][b] \in {"none", "done"}
      <4>1. steps[j][o][b] # "pending" /\ steps[j][o][b] # "error"
        BY <1>4, <3>1 DEF Pending, Job!Failed
      <4>2. steps[j][o][b] # "running"
        BY <1>1, <3>2 DEF TypeInv, ControlInv, OneRunning
      <4>3. steps[j][o][b] \in Job!StepStatus
        BY <1>1, <1>3 DEF Job!Plan
      <4> QED
        BY <4>1, <4>2, <4>3 DEF Job!StepStatus
    <3> QED
      BY <1>3, <2>3, <3>2 DEF Job!Settled
  <2> QED
    BY <2>1, <2>2, <2>3
<1>7. worker'[j].cur # None =>
        /\ worker'[j].cur \notin worker'[j].todo
        /\ \A q \in worker'[j].todo : worker'[j].cur < q
        /\ ~Job!Failed(steps'[j], worker'[j].cur)
  <2> SUFFICES ASSUME worker'[j].cur # None
               PROVE  /\ o \notin worker[j].todo
                      /\ \A q \in worker[j].todo : o < q
                      /\ ~Job!Failed(steps'[j], o)
    BY <1>2
  <2>1. outcome = "done"
    BY <1>2
  <2> QED
    BY <1>1, <1>3, <1>4, <2>1 DEF LoopInv, AtInv, Job!Failed
<1>8. LoopInv'
  BY <1>1, <1>2, <1>3, <1>5, <1>6, <1>7, LoopOfOne
<1> QED
  BY <1>1, <1>2, <1>8

-----------------------------------------------------------------------------
(* What each action is to the protocol.                                    *)

Status == [j \in Jobs |-> Shown(phase[j])]

LEMMA SameStatus ==
    ASSUME UNCHANGED phase
    PROVE  UNCHANGED Status
BY DEF Status

\* Where the phase of one job moves, its status moves and no other's.
LEMMA StatusMoves ==
    ASSUME TypeInv, NEW j \in Jobs, NEW ph \in Phases,
           phase' = [phase EXCEPT ![j] = ph]
    PROVE  Status' = [Status EXCEPT ![j] = Shown(ph)]
BY DEF Status, TypeInv, TypeOK

LEMMA PrepareSubmits ==
    ASSUME TypeInv, NEW j \in Jobs, PrepareJob(j)
    PROVE  Job!Next
<1>1. PICK included \in SUBSET Objects : \E versioned \in SUBSET included :
        \E scope \in Scopes :
           steps' = [steps EXCEPT ![j] = BuildSteps(included, versioned, scope)]
  BY DEF PrepareJob
<1>2. PICK versioned \in SUBSET included, scope \in Scopes :
           steps' = [steps EXCEPT ![j] = BuildSteps(included, versioned, scope)]
  BY <1>1
<1> DEFINE built == [o \in Objects |->
              IF o \in included \cap Known(source, target)
              THEN {a \in Job!Actions :
                       a \in StepsFor(o, source, target, o \in versioned, scope)}
              ELSE {}]
<1>3. built \in [Objects -> SUBSET Job!Actions]
  OBVIOUS
<1>4. BuildSteps(included, versioned, scope) =
        [o \in Objects |-> [a \in Job!Actions |->
            IF a \in built[o] THEN "pending" ELSE "none"]]
  BY DEF BuildSteps
<1>5. Status' = [Status EXCEPT ![j] = "running"] /\ Status[j] = "absent"
  BY StatusMoves DEF PrepareJob, Phases, Shown, Status
<1>6. Job!Submit(j, built)
  BY <1>2, <1>4, <1>5 DEF Job!Submit, Status
<1> QED
  BY <1>3, <1>6 DEF Job!Next

LEMMA BeginBegins ==
    ASSUME TypeInv, LoopInv, NEW j \in Jobs, BeginStep(j)
    PROVE  Job!Next
<1>1. PICK o \in Objects, a \in Job!Actions :
        /\ Job!Ready(steps[j], o, a)
        /\ steps' = [steps EXCEPT ![j][o][a] = "running"]
  BY BeginLoop
<1>2. Status[j] = "running" /\ UNCHANGED Status
  BY BeginLoop, SameStatus DEF BeginStep, records, Status, Shown
<1>3. Job!Begin(j, o, a)
  BY <1>1, <1>2 DEF Job!Begin, Status
<1> QED
  BY <1>3 DEF Job!Next

LEMMA EndEnds ==
    ASSUME TypeInv, LoopInv, NEW j \in Jobs, NEW a \in Job!Actions, Running(j, a),
           UNCHANGED phase,
           \/ \E names : Succeed(j, a, names)
           \/ Fail(j, a)
    PROVE  Job!Next
<1>1. PICK o \in Objects, outcome \in {"done", "error"} :
        /\ steps[j][o][a] = "running"
        /\ steps' = [steps EXCEPT ![j][o][a] = outcome]
  BY EndLoop
<1>2. Status[j] = "running" /\ UNCHANGED Status
  BY SameStatus DEF Running, Status, Shown
<1>3. Job!End(j, o, a, outcome)
  BY <1>1, <1>2 DEF Job!End, Status
<1> QED
  BY <1>1, <1>3 DEF Job!Next

LEMMA FinishFinishes ==
    ASSUME TypeInv, LoopInv, NEW j \in Jobs, FinishJob(j)
    PROVE  LoopInv' /\ Job!Next
<1>1. Job!Outcome(steps[j]) \in {"done", "error"}
  BY DEF Job!Outcome
<1>2. /\ Status' = [Status EXCEPT ![j] = Job!Outcome(steps[j])] /\ Status[j] = "running"
      /\ UNCHANGED steps
  <2>1. Job!Outcome(steps[j]) \in Phases /\ Shown(Job!Outcome(steps[j])) = Job!Outcome(steps[j])
    BY <1>1 DEF Phases, Shown
  <2>2. phase' = [phase EXCEPT ![j] = Job!Outcome(steps[j])]
    BY DEF FinishJob
  <2>3. Status' = [Status EXCEPT ![j] = Job!Outcome(steps[j])]
    BY <2>1, <2>2, StatusMoves
  <2> QED
    BY <2>3 DEF FinishJob, Status, Shown
<1>3. \A o \in Objects : Job!Settled(steps[j], o)
  BY PlanAssumption DEF FinishJob, LoopInv, BehindInv, None
<1>4. Job!Finish(j)
  BY <1>2, <1>3 DEF Job!Finish, Status
<1>5. LoopInv'
  BY <1>1, LoopStutters DEF FinishJob, TypeInv, TypeOK
<1> QED
  BY <1>4, <1>5 DEF Job!Next

LEMMA StartFailsAborts ==
    ASSUME TypeInv, LoopInv, NEW j \in Jobs, StartFails(j)
    PROVE  LoopInv' /\ Job!Next
<1>1. /\ Status' = [Status EXCEPT ![j] = "error"] /\ Status[j] = "running"
      /\ UNCHANGED steps
  BY StatusMoves DEF StartFails, Phases, Shown, Status
<1>2. \A o \in Objects, a \in Job!Actions : steps[j][o][a] \in {"none", "pending"}
  BY DEF StartFails, LoopInv, WaitingInv
<1>3. Job!Abort(j)
  BY <1>1, <1>2 DEF Job!Abort, Status
<1>4. LoopInv'
  BY LoopStutters DEF StartFails, TypeInv, TypeOK
<1> QED
  BY <1>3, <1>4 DEF Job!Next

LEMMA StartStutters ==
    ASSUME TypeInv, NEW j \in Jobs, StartJob(j)
    PROVE  UNCHANGED <<Status, steps>>
<1>1. Status' = [Status EXCEPT ![j] = "running"] /\ Status[j] = "running"
  BY StatusMoves DEF StartJob, Phases, Shown, Status
<1> QED
  BY <1>1 DEF StartJob, Status

\* The copy loop, between its first and its last call.
LEMMA CopyStutters ==
    ASSUME TypeInv, LoopInv, NEW j \in Jobs,
           \/ OpenCopy(j) \/ SelectBatch(j)
           \/ InsertBatch(j) \/ InsertBatchFails(j) \/ InsertRow(j) \/ InsertMany(j)
    PROVE  LoopInv' /\ UNCHANGED <<Status, steps>>
<1>1. worker[j] \in Worker /\ worker \in [Jobs -> Worker]
  BY DEF TypeInv, TypeOK
<1>2. ASSUME NEW count, EndBatch(j, count)
      PROVE  \A i \in Jobs :
                worker'[i].cur = worker[i].cur /\ worker'[i].todo = worker[i].todo
  BY <1>1, <1>2 DEF EndBatch, AfterBatch, Worker
<1>3. /\ UNCHANGED <<phase, steps>>
      /\ \A i \in Jobs :
            worker'[i].cur = worker[i].cur /\ worker'[i].todo = worker[i].todo
  <2>1. CASE OpenCopy(j)
    BY <1>1, <2>1 DEF OpenCopy, records, Worker
  <2>2. CASE SelectBatch(j)
    <3>1. PICK page \in IF worker[j].cur \in Keyed
                        THEN KeysetPages(worker[j].cur, worker[j].last)
                        ELSE OffsetPages(worker[j].cur, worker[j].done) :
            worker' = [worker EXCEPT ![j] =
              [worker[j] EXCEPT !.batch = page,
                                !.mode = IF page = {} THEN "end" ELSE "insert"]]
      BY <2>2 DEF SelectBatch
    <3> QED
      BY <1>1, <2>2, <3>1 DEF SelectBatch, records, Worker
  <2>3. CASE InsertBatch(j)
    BY <1>2, <2>3 DEF InsertBatch, records
  <2>4. CASE InsertBatchFails(j)
    BY <1>1, <2>4 DEF InsertBatchFails, records, Worker
  <2>5. CASE InsertRow(j)
    <3>1. \/ EndBatch(j, Cardinality(worker[j].batch))
          \/ \E k \in worker[j].left : worker' = [worker EXCEPT ![j].left = @ \ {k}]
      BY <2>5 DEF InsertRow
    <3> QED
      BY <1>1, <1>2, <2>5, <3>1 DEF InsertRow, records, Worker
  <2>6. CASE InsertMany(j)
    <3>1. \E count : EndBatch(j, count)
      BY <2>6 DEF InsertMany
    <3> QED
      BY <1>2, <2>6, <3>1 DEF InsertMany, records
  <2> QED
    BY <2>1, <2>2, <2>3, <2>4, <2>5, <2>6
<1>4. LoopInv'
  BY <1>3, LoopStutters
<1> QED
  BY <1>3, <1>4, SameStatus

LEMMA CrashCrashes ==
    ASSUME TypeInv, LoopInv, Crash
    PROVE  LoopInv' /\ Job!Next
<1>1. LoopInv'
  BY LoopStutters DEF Crash, TypeInv, TypeOK
<1>2. Status' = [j \in Jobs |-> IF Status[j] = "running" THEN "lost" ELSE Status[j]]
  <2>1. \A j \in Jobs : phase[j] \in Phases
    BY DEF TypeInv, TypeOK
  <2>2. phase' = [j \in Jobs |-> IF phase[j] \in {"prepared", "running"}
                                THEN "lost" ELSE phase[j]]
    BY DEF Crash
  <2>3. \A j \in Jobs : Shown(phase'[j]) =
            IF Shown(phase[j]) = "running" THEN "lost" ELSE Shown(phase[j])
    BY <2>1, <2>2 DEF Shown, Phases
  <2> QED
    BY <2>3 DEF Status
<1>3. Job!Crash
  BY <1>2 DEF Crash, Job!Crash, Status
<1> QED
  BY <1>1, <1>3 DEF Job!Next

LEMMA WorkImplements ==
    ASSUME TypeInv, LoopInv, NEW j \in Jobs, Work(j)
    PROVE  LoopInv' /\ (Job!Next \/ UNCHANGED <<Status, steps>>)
<1>1. CASE StartJob(j)
  BY <1>1, StartLoop, StartStutters
<1>2. CASE StartFails(j) \/ FinishJob(j)
  BY <1>2, StartFailsAborts, FinishFinishes
<1>3. CASE BeginStep(j)
  BY <1>3, BeginLoop, BeginBegins
<1>4. CASE \E a \in Job!Actions :
             /\ Running(j, a) /\ UNCHANGED phase
             /\ (\E names : Succeed(j, a, names)) \/ Fail(j, a)
  BY <1>4, EndLoop, EndEnds
<1>5. ASSUME RenameTable(j) \/ CreateTable(j) \/ AddColumns(j) \/ EndCopy(j) \/ StepFails(j)
      PROVE  \E a \in Job!Actions :
                /\ Running(j, a) /\ UNCHANGED phase
                /\ (\E names : Succeed(j, a, names)) \/ Fail(j, a)
  BY <1>5 DEF RenameTable, CreateTable, AddColumns, EndCopy, StepFails, Copying, records,
              Job!Actions
<1>6. CASE \/ OpenCopy(j) \/ SelectBatch(j)
           \/ InsertBatch(j) \/ InsertBatchFails(j) \/ InsertRow(j) \/ InsertMany(j)
  BY <1>6, CopyStutters
<1> QED
  BY <1>1, <1>2, <1>3, <1>4, <1>5, <1>6 DEF Work

LEMMA NextImplements ==
    TypeInv /\ LoopInv /\ [Next]_vars => LoopInv' /\ (Job!Next \/ UNCHANGED <<Status, steps>>)
<1> SUFFICES ASSUME TypeInv, LoopInv, [Next]_vars
             PROVE  LoopInv' /\ (Job!Next \/ UNCHANGED <<Status, steps>>)
  OBVIOUS
<1>1. ASSUME NEW j \in Jobs, PrepareJob(j)
      PROVE  LoopInv' /\ Job!Next
  BY <1>1, PrepareLoop, PrepareSubmits
<1>2. CASE WriteSource \/ UNCHANGED vars
  <2>1. UNCHANGED <<phase, steps, worker>>
    BY <1>2 DEF WriteSource, records, vars
  <2> QED
    BY <2>1, LoopStutters, SameStatus
<1> QED
  BY <1>1, <1>2, WorkImplements, CrashCrashes DEF Next

\* The engine keeps to the protocol its users are shown, whatever the databases,
\* the other jobs and crashes do.
THEOREM EngineImplementsJob == Spec => JobSpec
<1>1. Init => Job!Init
  BY DEF Init, Job!Init, Shown
<1>2. TypeInv /\ LoopInv /\ [Next]_vars => [Job!Next]_(Job!vars)
  BY NextImplements DEF Job!vars, Status
<1> QED
  BY <1>1, <1>2, TypeInit, TypeNext, LoopInit, NextImplements, PTL DEF Spec, JobSpec, Job!Spec

\* So what holds of every behaviour of the protocol holds of the engine: steps in
\* order, no "done" that is not complete, no failure that reaches another object.
Protocol == INSTANCE MigrationJobProofs WITH status <- [j \in Jobs |-> Shown(phase[j])]

THEOREM EngineKeepsPromises == Spec => []JobPromises
<1>1. Job!Init => Protocol!Init
  BY DEF Job!Init, Protocol!Init, Job!NoSteps, Protocol!NoSteps, Job!Actions, Protocol!Actions
<1>2. [Job!Next]_(Job!vars) => [Protocol!Next]_(Protocol!vars)
  <2>1. Job!vars = Protocol!vars
    BY DEF Job!vars, Protocol!vars
  <2>2. Job!Next => Protocol!Next
    BY DEF Job!Next, Protocol!Next, Job!Submit, Protocol!Submit, Job!Begin, Protocol!Begin,
           Job!End, Protocol!End, Job!Finish, Protocol!Finish, Job!Abort, Protocol!Abort,
           Job!Crash, Protocol!Crash, Job!Ready, Protocol!Ready, Job!Settled, Protocol!Settled,
           Job!Failed, Protocol!Failed, Job!Outcome, Protocol!Outcome, Job!Rank, Protocol!Rank,
           Job!Actions, Protocol!Actions
  <2> QED
    BY <2>1, <2>2 DEF Job!vars, Protocol!vars
<1>3. Protocol!IInv => JobPromises
  BY DEF Protocol!IInv, JobPromises, Protocol!StepsInOrder, Protocol!DoneIsComplete,
         Protocol!FailureIsIsolated, Job!StepsInOrder, Job!DoneIsComplete,
         Job!FailureIsIsolated, Job!Settled, Protocol!Settled, Job!Failed, Protocol!Failed,
         Job!Rank, Protocol!Rank, Job!Actions, Protocol!Actions
<1> QED
  BY <1>1, <1>2, <1>3, EngineImplementsJob, Protocol!JobInit, Protocol!JobNext, PTL
  DEF JobSpec, Job!Spec
=============================================================================
