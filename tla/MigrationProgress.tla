--------------------------- MODULE MigrationProgress ---------------------------
(***************************************************************************)
(* A migration as its user sees it: the job of MigrationJob, the channel   *)
(* of WsChannel, and between them the request that starts the job and the  *)
(* migration tab that shows it.                                            *)
(*                                                                         *)
(*   api/app/routers/migration.py                    POST /execute         *)
(*   api/app/services/migration_executor.py          what each step sends  *)
(*   ui/src/components/migration/MigrationPlanReview.tsx   "Run Migration" *)
(*   ui/src/store/index.ts, ui/src/hooks/useWebSocket.ts   the tab         *)
(*                                                                         *)
(* The tab learns the identity of its job from the reply to POST /execute  *)
(* and drops every message about a job it does not know.  Replies and      *)
(* messages travel on different connections, so they arrive in any order.  *)
(* A job is named by the request that asks for it.                         *)
(***************************************************************************)
EXTENDS Integers, Sequences, FiniteSets

CONSTANTS
    Jobs,           \* requests to run a migration, and the jobs they start
    Objects,        \* objects of the plan, in its order
    Builds,         \* what _build_steps may make of the plan: actions per object
    Windows,        \* windows of the user; each may hold one migration tab
    MaxSockets,     \* bound: connections made, by all windows together
    MaxSaid,        \* bound: messages handed to send_threadsafe
    MaxSends,       \* bound: send coroutines under way at once
    MaxTicks,       \* bound: progress messages sent from within the copies
    MaxCrashes      \* bound: deaths of the server process

ASSUME BuildsAssumption ==
    Builds \subseteq [Objects -> SUBSET {"version", "create", "columns", "copy"}]
ASSUME ChannelAssumption ==
    /\ MaxSockets \in Nat /\ MaxSaid \in Nat /\ MaxSends \in Nat
    /\ IsFiniteSet(Windows)
ASSUME NoJobAssumption == "none" \notin Jobs   \* NoJob

VARIABLES
    status, steps,          \* MigrationJob
    said, sends, registered, endpoint, link, frames, read, wsRef,   \* WsChannel
    posts,                  \* where each POST /execute is
    asker,                  \* the window whose tab waits for it, or NoWindow
    tab,                    \* the migration tab of each window
    heard,                  \* numbers of the messages that changed the tab of a window
    ticks, crashes          \* counters for the bounds

NoJob == "none"
NoWindow == "none"

Messages == [kind : {"migration_progress", "migration_step_done"}, job : Jobs,
             object : Objects, action : {"version", "create", "columns", "copy"},
             value : {"running", "done", "error"}]
       \union [kind : {"migration_done", "migration_error"}, job : Jobs,
               value : {"done", "error"}]

Job == INSTANCE MigrationJob
Ws == INSTANCE WsChannel

jobVars == <<status, steps>>
wsVars == <<said, sends, registered, endpoint, link, frames, read, wsRef>>
uiVars == <<posts, asker, tab, heard>>
vars == <<jobVars, wsVars, uiVars, ticks, crashes>>

-----------------------------------------------------------------------------
(* The migration tab: MigrationTab and MigrationJobState of the store.     *)

\* "review" shows the plan and its button, "running" shows the job.
Tab == [step : {"review", "running"},
        running : Jobs \union {NoJob},  \* the request the button spins for
        job : Jobs \union {NoJob},
        shown : Job!Plan,               \* job.steps
        verdict : {"none", "running", "done", "error"}]     \* job.status

FreshTab == [step |-> "review", running |-> NoJob, job |-> NoJob,
             shown |-> Job!NoSteps, verdict |-> "none"]

TypeOK ==
    /\ Job!TypeOK
    /\ Ws!TypeOK
    /\ posts \in [Jobs -> {"unsent", "sent", "accepted", "refused", "over"}]
    /\ asker \in [Jobs -> Windows \union {NoWindow}]
    /\ tab \in [Windows -> Tab]
    /\ heard \in [Windows -> SUBSET (1..MaxSaid)]
    /\ ticks \in 0..MaxTicks
    /\ crashes \in 0..MaxCrashes

-----------------------------------------------------------------------------
(* Starting a job.                                                         *)

ButtonEnabled(w) == tab[w].step = "review" /\ tab[w].running = NoJob

RunMigration(w, j) ==
    /\ ButtonEnabled(w)
    /\ posts[j] = "unsent"
    /\ posts' = [posts EXCEPT ![j] = "sent"]
    /\ asker' = [asker EXCEPT ![j] = w]
    /\ tab' = [tab EXCEPT ![w].running = j]
    /\ UNCHANGED <<jobVars, wsVars, heard, ticks, crashes>>

\* migration_execute: prepare_job, a task for run, and the reply.
Execute(j) ==
    /\ posts[j] = "sent"
    /\ \E built \in Builds : Job!Submit(j, built)
    /\ posts' = [posts EXCEPT ![j] = "accepted"]
    /\ UNCHANGED <<wsVars, asker, tab, heard, ticks, crashes>>

\* Not an administrator, no such connection, or a plan that cannot be computed.
Refuse(j) ==
    /\ posts[j] = "sent"
    /\ posts' = [posts EXCEPT ![j] = "refused"]
    /\ UNCHANGED <<jobVars, wsVars, asker, tab, heard, ticks, crashes>>

\* job_registry.serialize in migration_execute, before the task has run.
Built(j) == [o \in Objects |-> [a \in Job!Actions |->
                IF steps[j][o][a] = "none" THEN "none" ELSE "pending"]]

\* runMigration resumes with the reply; a tab that was closed is not found.
Answered(j) ==
    /\ posts[j] = "accepted"
    /\ posts' = [posts EXCEPT ![j] = "over"]
    /\ IF asker[j] = NoWindow
       THEN UNCHANGED <<tab, heard>>
       ELSE /\ tab' = [tab EXCEPT ![asker[j]] =
                    [step |-> "running", running |-> NoJob, job |-> j,
                     shown |-> Built(j), verdict |-> "running"]]
            /\ heard' = [heard EXCEPT ![asker[j]] = {}]
    /\ UNCHANGED <<jobVars, wsVars, asker, ticks, crashes>>

\* runMigration resumes with an exception: an error is shown over the plan.
Failed(j) ==
    /\ posts[j] = "refused"
    /\ posts' = [posts EXCEPT ![j] = "over"]
    /\ tab' = [w \in Windows |->
                  IF tab[w].running = j THEN [tab[w] EXCEPT !.running = NoJob] ELSE tab[w]]
    /\ UNCHANGED <<jobVars, wsVars, asker, heard, ticks, crashes>>

\* Another tab is looked at and this one again: the state of the button was kept
\* in the component, which has been unmounted.
Remount(w) ==
    /\ tab[w].step = "review"
    /\ tab[w].running # NoJob
    /\ tab' = [tab EXCEPT ![w].running = NoJob]
    /\ UNCHANGED <<jobVars, wsVars, posts, asker, heard, ticks, crashes>>

\* closeMainTab, and a new migration up to the review of its plan.
CloseTab(w) ==
    /\ tab[w] # FreshTab
    /\ tab' = [tab EXCEPT ![w] = FreshTab]
    /\ heard' = [heard EXCEPT ![w] = {}]
    /\ asker' = [j \in Jobs |-> IF asker[j] = w THEN NoWindow ELSE asker[j]]
    /\ UNCHANGED <<jobVars, wsVars, posts, ticks, crashes>>

-----------------------------------------------------------------------------
(* The worker thread of a job: it changes its state and sends.             *)

Says(m) == Ws!Schedule(m)

StepMessage(j, o, a, value) ==
    [kind |-> IF value = "running" THEN "migration_progress" ELSE "migration_step_done",
     job |-> j, object |-> o, action |-> a, value |-> value]

VerdictMessage(j, kind, value) == [kind |-> kind, job |-> j, value |-> value]

\* _set_running.
Begin(j, o, a) ==
    /\ Job!Begin(j, o, a)
    /\ Says(StepMessage(j, o, a, "running"))
    /\ UNCHANGED <<uiVars, ticks, crashes>>

\* _emit_copy_progress.
Tick(j, o) ==
    /\ status[j] = "running"
    /\ steps[j][o]["copy"] = "running"
    /\ ticks < MaxTicks
    /\ ticks' = ticks + 1
    /\ Says(StepMessage(j, o, "copy", "running"))
    /\ UNCHANGED <<jobVars, uiVars, crashes>>

\* _set_done, _fail_running_steps.
End(j, o, a, outcome) ==
    /\ Job!End(j, o, a, outcome)
    /\ Says(StepMessage(j, o, a, outcome))
    /\ UNCHANGED <<uiVars, ticks, crashes>>

\* Mutated form of Finish: only a success is announced.
FinishQuietly(j) ==
    /\ Job!Finish(j)
    /\ IF Job!Outcome(steps[j]) = "done"
       THEN Says(VerdictMessage(j, "migration_done", "done"))
       ELSE UNCHANGED wsVars
    /\ UNCHANGED <<uiVars, ticks, crashes>>

\* The tail of _run_job_sync.
Finish(j) ==
    /\ Job!Finish(j)
    /\ Says(VerdictMessage(j, "migration_done", Job!Outcome(steps[j])))
    /\ UNCHANGED <<uiVars, ticks, crashes>>

\* The except branch of _run_job_sync.
Abort(j) ==
    /\ Job!Abort(j)
    /\ Says(VerdictMessage(j, "migration_error", "error"))
    /\ UNCHANGED <<uiVars, ticks, crashes>>

\* The server dies: requests it has not answered fail, and so may those whose
\* answer was under way.
Crash ==
    /\ crashes < MaxCrashes
    /\ crashes' = crashes + 1
    /\ Job!Crash
    /\ Ws!Stop
    /\ \E lost \in SUBSET {j \in Jobs : posts[j] = "accepted"} :
          posts' = [j \in Jobs |->
                       IF posts[j] = "sent" \/ j \in lost THEN "refused" ELSE posts[j]]
    /\ UNCHANGED <<asker, tab, heard, ticks>>

-----------------------------------------------------------------------------
(* The channel, and onmessage for the four migration_ messages.            *)

\* Mutated form of Concerns: the guard by job_id is dropped.
ConcernsAnyTab(w, m) == tab[w].job # NoJob

Concerns(w, m) == tab[w].job = m.job

\* Mutated form of Applied: the verdict is set with the steps as they were when the
\* job was answered, not as the store has them now.
AppliedStale(t, m) ==
    IF m.kind \in {"migration_progress", "migration_step_done"}
    THEN [t EXCEPT !.shown[m.object][m.action] = m.value]
    ELSE [t EXCEPT !.verdict = m.value,
                   !.shown = [o \in Objects |-> [a \in Job!Actions |->
                        IF t.shown[o][a] = "none" THEN "none" ELSE "pending"]]]

\* patchMigrationTabJobStep, or setMigrationTabJob with a verdict.
Applied(t, m) ==
    IF m.kind \in {"migration_progress", "migration_step_done"}
    THEN [t EXCEPT !.shown[m.object][m.action] = m.value]
    ELSE [t EXCEPT !.verdict = m.value]

Deliver(w) ==
    /\ Ws!Take(w)
    /\ LET n == Head(Ws!Unread(w))
       IN  IF Concerns(w, said[n])
           THEN /\ tab' = [tab EXCEPT ![w] = Applied(tab[w], said[n])]
                /\ heard' = [heard EXCEPT ![w] = @ \union {n}]
           ELSE UNCHANGED <<tab, heard>>
    /\ UNCHANGED <<jobVars, posts, asker, ticks, crashes>>

\* Everything the channel does by itself.
Channel ==
    /\ \/ \E i \in DOMAIN sends : Ws!Write(i) \/ Ws!EndSend(i)
       \/ \E s \in Ws!Sockets : Ws!Register(s) \/ Ws!Notice(s)
       \/ \E w \in Windows : Ws!Connect(w)
    /\ UNCHANGED <<jobVars, uiVars, ticks, crashes>>

\* MaxSockets bounds the breaks: the last connection stays, so that a window is never
\* cut off for good.
Disconnected(w) ==
    /\ Cardinality(Ws!Used) < MaxSockets
    /\ Ws!Drop(w)
    /\ UNCHANGED <<jobVars, uiVars, ticks, crashes>>

-----------------------------------------------------------------------------
Init ==
    /\ Job!Init
    /\ Ws!Init
    /\ posts = [j \in Jobs |-> "unsent"]
    /\ asker = [j \in Jobs |-> NoWindow]
    /\ tab = [w \in Windows |-> FreshTab]
    /\ heard = [w \in Windows |-> {}]
    /\ ticks = 0
    /\ crashes = 0

Work(j) ==
    \/ \E o \in Objects, a \in Job!Actions :
          \/ Begin(j, o, a)
          \/ \E outcome \in {"done", "error"} : End(j, o, a, outcome)
    \/ Finish(j)
    \/ Abort(j)

Next ==
    \/ \E w \in Windows, j \in Jobs : RunMigration(w, j)
    \/ \E w \in Windows : Remount(w) \/ CloseTab(w) \/ Deliver(w) \/ Disconnected(w)
    \/ \E j \in Jobs : Execute(j) \/ Refuse(j) \/ Answered(j) \/ Failed(j)
    \/ \E j \in Jobs : Work(j) \/ \E o \in Objects : Tick(j, o)
    \/ Channel
    \/ Crash

Spec == Init /\ [][Next]_vars

\* The scheduler runs worker threads, the event loop runs its coroutines and
\* handlers, the browser its callbacks.  Nobody has to click, close or crash.
FairSpec ==
    /\ Spec
    /\ \A j \in Jobs : WF_vars(Work(j))
    /\ \A j \in Jobs : WF_vars(Execute(j) \/ Refuse(j)) /\ WF_vars(Answered(j) \/ Failed(j))
    /\ \A w \in Windows : WF_vars(Deliver(w))
    /\ WF_vars(Channel)

-----------------------------------------------------------------------------
(* Properties.                                                             *)

\* A tab shows no outcome that has not come about: an ended step has ended so in
\* its own job, and a verdict is the job's.  Several jobs share the channel (a
\* second click, a migration by way of MCP), and replies race with messages.
NeverAhead ==
    \A w \in Windows : tab[w].job # NoJob =>
        LET j == tab[w].job IN
        /\ tab[w].verdict \in {"done", "error"} => status[j] = tab[w].verdict
        /\ \A o \in Objects, a \in Job!Actions :
              /\ (tab[w].shown[o][a] = "none") <=> (steps[j][o][a] = "none")
              /\ tab[w].shown[o][a] \in {"done", "error"} => steps[j][o][a] = tab[w].shown[o][a]
              /\ tab[w].shown[o][a] = "running" => steps[j][o][a] # "pending"

\* What a tab has shown of a job stands as long as it shows that job: no outcome
\* goes back to running, no verdict is replaced.
ShownIsFinal ==
    [][\A w \in Windows : tab[w].job # NoJob /\ tab'[w].job = tab[w].job =>
        /\ tab[w].verdict \in {"done", "error"} => tab'[w].verdict = tab[w].verdict
        /\ \A o \in Objects, a \in Job!Actions :
              tab[w].shown[o][a] \in {"done", "error"} =>
                  tab'[w].shown[o][a] = tab[w].shown[o][a]]_vars

Told(j) == {n \in DOMAIN said : said[n].job = j}

\* The messages carry everything: a tab that has heard all that was said of its job
\* shows the job as it is, step by step.
AllHeardAllShown ==
    \A w \in Windows : tab[w].job # NoJob /\ Told(tab[w].job) \subseteq heard[w] =>
        /\ tab[w].shown = steps[tab[w].job]
        /\ tab[w].verdict = IF status[tab[w].job] = "lost" THEN "running"
                            ELSE status[tab[w].job]

\* A message about the job of the tab has gone by: it was not heard, and it is no
\* longer on its way.
Missed(w) ==
    \E n \in Told(tab[w].job) \ heard[w] :
        /\ \A i \in DOMAIN sends : sends[i].no # n
        /\ n \notin Ws!Listed(Ws!Unread(w))

Watches(w, j) == tab[w].job = j /\ tab[w].verdict = "running"

\* A tab that misses no message learns how its job ends, unless the server dies
\* under the job.
WatchedUnlessMissed ==
    \A w \in Windows, j \in Jobs :
        Watches(w, j) ~> (~Watches(w, j) \/ status[j] = "lost" \/ Missed(w))

\* "pick objects, review the plan, watch the run" (README.md:41): a tab that shows a
\* running job learns how it ends, unless the server dies under the job.
RunIsWatched ==
    \A w \in Windows, j \in Jobs :
        Watches(w, j) ~> (~Watches(w, j) \/ status[j] = "lost")
=============================================================================
