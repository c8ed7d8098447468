------------------------------ MODULE MigrationJob ------------------------------
(***************************************************************************)
(* What a migration job promises to whoever watches it: the protocol that *)
(* MigrationJob.status and JobStep.status follow, with the databases left  *)
(* out (api/app/services/migration_executor.py, the two dataclasses and    *)
(* the order in which _run_job_sync, _run_sql_object and _run_mongo_object *)
(* write them).                                                            *)
(*                                                                         *)
(* A job is a set of steps, at most one per object and action.  Objects    *)
(* are taken in the sorted order of the plan, and the steps of an object   *)
(* in the order version, create, columns, copy.  A step that fails ends    *)
(* its object, never the job.                                              *)
(*                                                                         *)
(* MigrationExecutor implements this specification; MigrationProgress      *)
(* composes it with the WebSocket channel and the browser tab.             *)
(***************************************************************************)
EXTENDS Integers

CONSTANTS
    Jobs,       \* identifiers of the jobs a server process may create
    Objects     \* tables or collections: numbers, ordered as sorted(wanted) orders names

VARIABLES
    status,     \* MigrationJob.status
    steps       \* JobStep.status of each step; "none" where no step was built

vars == <<status, steps>>

-----------------------------------------------------------------------------
Actions == {"version", "create", "columns", "copy"}

\* The order in which _run_sql_object looks at the steps of an object.
Rank == [version |-> 1, create |-> 2, columns |-> 3, copy |-> 4]

StepStatus == {"none", "pending", "running", "done", "error"}

\* "absent": never created.  "lost": the server process died under the job.
JobStatus == {"absent", "running", "done", "error", "lost"}

Plan == [Objects -> [Actions -> StepStatus]]

NoSteps == [o \in Objects |-> [a \in Actions |-> "none"]]

TypeOK ==
    /\ status \in [Jobs -> JobStatus]
    /\ steps \in [Jobs -> Plan]

-----------------------------------------------------------------------------
Failed(p, o) == \E a \in Actions : p[o][a] = "error"

\* The loop over the plan has left object o: it failed, or all its steps are done.
Settled(p, o) == Failed(p, o) \/ \A a \in Actions : p[o][a] \in {"none", "done"}

\* The step the worker takes up next, when the one before it has ended.
Ready(p, o, a) ==
    /\ p[o][a] = "pending"
    /\ \A b \in Actions : Rank[b] < Rank[a] => p[o][b] \in {"none", "done"}
    /\ \A q \in Objects : q < o => Settled(p, q)

\* prepare_job registers the job: every step it builds starts out pending.
Submit(j, built) ==
    /\ status[j] = "absent"
    /\ status' = [status EXCEPT ![j] = "running"]
    /\ steps' = [steps EXCEPT ![j] =
                    [o \in Objects |-> [a \in Actions |->
                        IF a \in built[o] THEN "pending" ELSE "none"]]]

Begin(j, o, a) ==
    /\ status[j] = "running"
    /\ Ready(steps[j], o, a)
    /\ steps' = [steps EXCEPT ![j][o][a] = "running"]
    /\ UNCHANGED status

\* _set_done, or _fail_running_steps: only the running step gets the outcome.
End(j, o, a, outcome) ==
    /\ status[j] = "running"
    /\ steps[j][o][a] = "running"
    /\ steps' = [steps EXCEPT ![j][o][a] = outcome]
    /\ UNCHANGED status

\* Mutated form of Outcome: a verdict outside the enumeration.
LooseOutcome(p) == IF \E o \in Objects : Failed(p, o) THEN "failed" ELSE "done"

\* The tail of _run_job_sync, once the loop has been through every object.
Outcome(p) == IF \E o \in Objects : Failed(p, o) THEN "error" ELSE "done"

Finish(j) ==
    /\ status[j] = "running"
    /\ \A o \in Objects : Settled(steps[j], o)
    /\ status' = [status EXCEPT ![j] = Outcome(steps[j])]
    /\ UNCHANGED steps

\* An engine or a snapshot could not be had: the job fails before its first step.
Abort(j) ==
    /\ status[j] = "running"
    /\ \A o \in Objects, a \in Actions : steps[j][o][a] \in {"none", "pending"}
    /\ status' = [status EXCEPT ![j] = "error"]
    /\ UNCHANGED steps

\* The registry and the worker threads live in the server process.
Crash ==
    /\ status' = [j \in Jobs |-> IF status[j] = "running" THEN "lost" ELSE status[j]]
    /\ UNCHANGED steps

-----------------------------------------------------------------------------
Init ==
    /\ status = [j \in Jobs |-> "absent"]
    /\ steps = [j \in Jobs |-> NoSteps]

Next ==
    \/ \E j \in Jobs : \E built \in [Objects -> SUBSET Actions] : Submit(j, built)
    \/ \E j \in Jobs : \E o \in Objects, a \in Actions :
          \/ Begin(j, o, a)
          \/ \E outcome \in {"done", "error"} : End(j, o, a, outcome)
    \/ \E j \in Jobs : Finish(j) \/ Abort(j)
    \/ Crash

Spec == Init /\ [][Next]_vars

-----------------------------------------------------------------------------
(* Properties.                                                             *)

\* A worker runs one step at a time and in order: while a step runs or has
\* ended, every earlier step of its object is done and every earlier object of
\* the plan has been left.  (_run_sql_object runs copy only after create; the
\* loop in _run_job_sync goes through the objects one after the other.)
StepsInOrder ==
    \A j \in Jobs, o \in Objects, a \in Actions :
        steps[j][o][a] \in {"running", "done", "error"} =>
            /\ \A b \in Actions : Rank[b] < Rank[a] => steps[j][o][b] \in {"none", "done"}
            /\ \A q \in Objects : q < o => Settled(steps[j], q)

\* A job that reports "done" has done everything: no step was skipped, failed or
\* left running.  _run_job_sync decides from the absence of errors alone, so
\* this needs that nothing stays pending unless something before it failed.
DoneIsComplete ==
    \A j \in Jobs : status[j] = "done" =>
        \A o \in Objects, a \in Actions : steps[j][o][a] \in {"none", "done"}

\* Isolation: an "error" job that got past its snapshots went through all its
\* objects, so what failed in one never kept another from being attempted.
FailureIsIsolated ==
    \A j \in Jobs : status[j] = "error" =>
        \/ \A o \in Objects, a \in Actions : steps[j][o][a] \in {"none", "pending"}
        \/ \A o \in Objects : Settled(steps[j], o)

\* A job's verdict and its steps' outcomes are final: nothing is retried and
\* nothing is rewritten once the user has been told.
OutcomesAreFinal ==
    [][\A j \in Jobs :
        /\ status[j] \in {"done", "error", "lost"} =>
              status'[j] = status[j] /\ steps'[j] = steps[j]
        /\ \A o \in Objects, a \in Actions :
              steps[j][o][a] \in {"done", "error"} =>
                  steps'[j][o][a] = steps[j][o][a]]_vars
=============================================================================
