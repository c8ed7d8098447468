# pilotbase in TLA+

TLA+ models of the parts of pilotbase in which order, concurrency and failure decide whether the
program is right, TLC configurations that check them on small instances, and theorems about them that
the TLA+ proof system checks for every instance. `PROJECT.json` lists the components, the runs, the
mutations every property has been tried against, the source lines each definition stands for, the
hazards of the code and the theorems.

1. [The system](#1-the-system): inventory of components
2. [The plan](#2-the-plan): modules, order, composition
3. [The modules](#3-the-modules-and-the-code) and the code
4. [The runs](#4-the-runs): bounds, fairness, what they show
5. [The proofs](#5-the-proofs)
6. [What is left out](#6-what-is-left-out)

To check a run, `tlc -config Migration.cfg MCMigrationExecutor`; to check the proofs,
`tlapm MigrationExecutorProofs.tla`.

## 1. The system

pilotbase is a database workbench. A FastAPI server (`api/`) holds connections to the user's databases
(PostgreSQL, MySQL, MongoDB, vector stores, ...) and its own small database. A React single-page
application (`ui/`) talks to it by HTTP and receives what happens in the background over one WebSocket
per window. An Electron shell (`desktop/`) packs both into an application: it runs the server as a child
process. An AI agent (LangGraph) reads the databases through tools and proposes writes as plans that
the user approves.

Three kinds of concurrency run through all of it.

* **The server** is one process with an event loop and a pool of worker threads. A handler runs without
  interruption from one `await` to the next; `run_off_loop` and `asyncio.to_thread` run blocking code on
  threads, which any number of requests may enter at once. Nearly all state is in memory and dies with
  the process.
* **A window** is one thread too: a handler runs to its end, a component that awaits a reply goes on with
  what it captured before, in a store others have changed.
* **The shell** is one thread around processes that start, announce themselves, crash and end by
  themselves.

| Component (source) | State it keeps | Operations | Interacts with | What is hard; what makes it correct |
|---|---|---|---|---|
| Migration engine (`migration_executor.py`) | jobs with a status per step, registry of 200 jobs | prepare, run: version (rename), create, add columns, copy in pages | two databases, push channel | Jobs race on one target, a writer changes the source, any call fails, the process dies. No row of the target is lost, no archive changes, nothing that was not chosen changes, what stays in the source is copied, every accepted job ends, statuses are final and in order |
| Migration plan (`migration_plan_service.py`, `migration_service.py`) | none | diff, steps of an object, version name | engine | The plan is built on a fresh diff, not on the one the user saw |
| Push channel (`websocket/manager.py`, `useWebSocket.ts`) | list of sockets per user; socket of each window | send, register, disconnect, reconnect | every background task, every window | The list changes under sends that are suspended; writes to dead sockets fail late. In order, no duplicates on a connection, losses only where a connection was lost |
| Migration in the UI (`MigrationPlanReview.tsx`, `store`, `routers/migration.py`) | a tab per run, with the job as last heard | run, show messages, close, remount | engine, channel | The POST and the messages race. The tab shows nothing that has not happened, takes nothing back, ends in a verdict |
| AI chat and plans (`routers/ai.py`, `RightPanel.tsx`, `store`) | sessions, pending plans (50), chat tabs, pending requests | turn, propose, commit, reject, open and close tabs | agent, channel | Replies are lost, clicks repeated, windows decide at once, tabs are closed under a turn. A plan runs once and in order, or was rejected; a tab is one conversation |
| AI agent and its tools (`agents/`) | a graph state per run | run_agent | language model, db_service | nondeterministic by nature |
| Chat history (`chat_history_service.py`) | sessions and messages | create, list, rename, delete | chat | a deleted session under a turn |
| Database adapters (`db_service.py` and its adapters) | cache of adapters, metadata caches | get_adapter, drop_adapter | all that reads a database | Check-then-act across threads; an adapter dropped under its users. One adapter per connection, with its present credentials |
| Connections (`routers/connections.py`) | rows and credentials | create, change, delete, test | adapters | The adapter is dropped before the commit |
| Generated CRUD API (`papi_*.py`) | registered databases and tables, secrets, tokens, rate windows | enable, disable, rotate, issue, call | connections | A token must die with its registration; never more calls than the limit in a window |
| LLM settings (`llm_settings.py`) | settings, a cache | get, save | AI | The cache is filled after an await |
| Desktop shell (`sidecar.ts`, `index.ts`) | the child process, its port, restarts, window, policy, MCP file | start, stop, restart, crash, quit, pick a file | server | A crash during a restart, a callback of a dead process. One backend at a time, restarts bounded, nothing left behind, window and files name the backend that runs |
| Backup (`backup_service.py`) | files | dump, list, restore | databases | Names by the second; a failed dump leaves a file |
| Query execution and history (`history_service.py`, `QueryHistoryPanel.tsx`, `QueryEditor.tsx`) | history rows; the list of a window; providers of completions | execute, record, announce, fetch; propose names | channel | A fetched list replaces entries that came over the channel; names arrive for an editor that has moved on. An entry is listed once and stays, and an editor proposes the names of its own database |
| Main tabs and results (`store/index.ts`, `MainArea.tsx`, `ResultsTable.tsx`) | tabs, each with a result and a flag of a run; one log of scripts | open, show, close, run, view rows or columns, edit columns | tree, agent, HTTP | Commands from three places fill one tab and answers come in any order. A spinner is of a call, and the scripts written give the columns shown |
| Connection tree (`ConnectionTree.tsx`) | what is open, listed and loading per connection, database and schema | open, refresh, drop, delete, reload, log in | HTTP, tabs | Handlers write back the node they saw. What spins ends |
| Chunks of a vector collection (`VectorChunksView.tsx`) | a page, a selected chunk, its edit | page, select, save, delete, upload | HTTP | Answers do not say what they answer. A chunk is saved under the id it was read under |
| Health checks (UI) (`HealthView.tsx`, `lib/health`) | the database read, the last answer | read, pick a database, lock tree, check of a migration file | adapters | Overlapping reads of two databases; cycles; a memory of earlier statements. What is shown is of the database named, each session has one place, quiet means short |
| Health checks (API), vector routes, MCP server, users and local token, schema of the API database, knowledge base, packaging, docs | none, or plain lookups | | | I/O, formatting, static data |

`PROJECT.json` gives each component its status and the reason where it is not modelled, and lists the
hazards of the code at the lines where they bite.

## 2. The plan

The order follows what a mistake would cost: the engine that rewrites the user's databases first, then the
way its user learns of it, then the plans of the agent, which write too, then the process all of it runs
in; after these the caches and the stores.

```
              MigrationPlan
                   | EXTENDS
  MigrationJob <= MigrationExecutor          abstract protocol <= engine       (refinement, proved)
       \
        INSTANCE --> MigrationProgress       job + channel + request + tab     (composition)
       /
  WsChannel => UserFeed                      channel, per window => lossy feed (refinement, proved)
                  \ INSTANCE
                   AgentChat                 chat and plans over a lossy feed  (composition)

  DesktopShell                               the process around the server

  MCParts  (parts that share no state, one used at a time)
     |-- HealthView -- LockTree              locks of a database, the view that shows them
     |-- MigrationLint                       check of a migration file beside the server
     |-- QueryTabs -- ColumnScripts          tabs and results; scripts of edited columns
     |-- ConnectionTree
     |-- ChunksView
     |-- QueryHistory -- UserFeed            list of executed queries over a lossy feed
     |-- EditorCompletions
     `-- ServerState                         what the server keeps between requests (proved)
           |-- AdapterCache, LlmSettings     two caches
           `-- GeneratedApi                  secrets and tokens of the generated API
```

Everything in the picture is written. Three specifications are abstract: **MigrationJob**, what the
statuses of a job may do, with the databases left out; **UserFeed**, what one window may rely on,
whatever other windows do; and the server in **MigrationLint**, what a statement does to whoever writes
meanwhile. The first two are implemented by detailed ones and stand for them in
compositions, so that these stay small enough to check.

Next, in this order:

1. The messages of a chat tab, with the history fetch that fills a reopened one, composed with `UserFeed`.
2. Statement statistics, as functions checked against reference definitions.

The number of runs is kept small on purpose, one per question. What shares no state is checked by one run,
`parts`, whose states are the sum of those of its parts.

## 3. The modules and the code

### MigrationPlan: the pure part of a migration

The diff of a source and a target, what the plan does about each object (`StatusOf`, `StepsFor`) and the
name a versioned table gets (`VersionNames`). A table is its columns, one opaque value for all else the
diff compares, and a set of rows; a row is its key and where it came from, since a merge must keep the
row that was there. A name is the triple of object, day and number, so that "is an archive of" is a
comparison and not a matter of strings.

### MigrationJob: what a job promises

`status` and `steps` are the fields of the two dataclasses. `Submit`, `Begin`, `End`, `Finish`, `Abort`
and `Crash` are the only ways they change. `StepsInOrder`, `DoneIsComplete`, `FailureIsIsolated` and
`OutcomesAreFinal` are the promises.

### MigrationExecutor: the engine

An action is the code between two calls to a database. `PrepareJob` is `prepare_job` with
`job_registry.create`; `StartJob`, `StartFails` and `FinishJob` are `run` and `_run_job_sync`; `BeginStep`
is `_set_running`; `RenameTable`, `CreateTable`, `AddColumns` are the three DDL steps; `OpenCopy`,
`SelectBatch`, `InsertBatch`, `InsertBatchFails`, `InsertRow`, `InsertMany`, `EndCopy` are the copy loops
with each of their insert paths (a batch in one transaction, its row-by-row fallback, an unordered
`insert_many`); `StepFails` is an exception in any of them. `WriteSource` is another client of the
source, `Crash` the death of the process.

`worker[j]` is the frame of the job's thread: the object it is at, the objects left, the names it knows
(the snapshot taken at the start of the job, plus those it made), the place in the copy loop and the
cursor. `ghost[j]` is history for the properties: the keys that have been in the source since the copy
began, those passed over, those this job inserted.

* SQL copies go by key when the primary key is one column (`Keyed`), by OFFSET otherwise. An OFFSET
  without an order may return any rows of the right number; what such a copy misses is the
  database's choice, so `CopyComplete` speaks of keyed objects.
* `Rejected` rows are those a constraint of the target refuses. `IgnoresDuplicates` and `AtomicDDL` are
  traits of the dialect.
* When the process dies its jobs are forgotten. The model keeps what they had reached, in phase `lost`,
  to speak of what had been promised.

### WsChannel and UserFeed: the push channel

`registered` is `_connections[user_id]`, a list that `Register` appends to and `EndSend` and `Notice`
remove from. `sends` are the coroutines of `send`, each with the place of its list iterator (`next`), the
socket it may be suspended at (`at`) and the sockets that failed it. `Write` is one turn of the
loop over the *live* list, so a removal shifts the list under every iterator (`Shifted`), and a user whose
last socket goes gets a new list, which leaves the old iterators `stale`. `Connect`, `Drop`, `Take` are
the window's; `Stop` is the death of the server.

Two facts of the runtime are assumptions here. Coroutines are taken from the loop in the order in which
they were scheduled, and a socket that drains wakes its writers in the order in which they wait, so none
overtakes another (`InTurn`). And a window reconnects three seconds after its connection was lost,
when what it had already read has long been written (`Register` requires `Through`).

`UserFeed` is what remains for one window: messages in order, left out at will, gone when the
connection is, and perhaps repeated after a reconnection: a coroutine that is held up at any other socket of
the user, a dead one of the same window included, writes to the new socket what the window has read
from the old. It allows more losses than the channel can cause, so what a composition proves with it holds of
the channel.

### MigrationProgress: a run and the tab that watches it

`INSTANCE`s of `MigrationJob` and `WsChannel` share a state with the POST (`posts`), the tabs (`tab`) and
what each has heard. `Begin`, `End`, `Finish`, `Abort`, `Tick` are steps of the job that also schedule the
message the engine sends at that point. `Answered` is the code of `runMigration` after its await,
`Deliver` the four `migration_` cases of `onmessage`. `Remount` is what happens when another main tab is
looked at: the review is mounted again and its "running" flag, which is component state, is false.

### AgentChat: turns, plans and approvals

The panel, the routes and the channel as a `UserFeed`. `SendMessage`, `Accept`, `Answer` or `Propose`,
`Deliver` are the life of a turn; `Decide`, `CommitCall`, `ExecuteStep`, `CommitEnds`, `RejectCall` and
`Decided` that of a plan. `Commit` pops the plan before its first step, as `commit_plan` does;
`CommitElsewhere` and `RejectElsewhere` are the same calls from another window that was shown the plan.
`Addressees` is `resolveTabForRequest`: by request, else by session. What goes wrong in between is
counted together (`MaxTroubles`): a remounted panel, a lost reply, a reconnection with
replay (`Rewind`), the death of the server.

### DesktopShell: the application around the server

The shell is one record and what runs between two awaits is a function on it: `Start`, `Stop`, `Resume`
(the part of `restart` after its stop), `Quit`, `Exited` (the listener of `exit`), `Handled` (the
continuation of whoever waited for that exit). `Announce` reads the READY line and starts the callback;
`Callback` is its next stretch: health check, cookies, policy, window, MCP file. `Ends` and `Crash` are
the processes, `Pick`, `QuitMenu`, `CloseWindow` the user. The port of a process is its number; `restart`
passes the port of the stopped process back, so that the page of the window stays valid; a restart after a
crash lets the system pick a new one.

`hurried` is set when a stop is asked for while another is waited for. `stop` then returns at once, since
`proc` is already null, and the second caller goes on as if nothing ran. Whether this may leave a backend or
an endpoint file behind depends on clicks within the five seconds of the first stop; the
properties are about behaviours without it, and say so.

### QueryTabs and ColumnScripts: tabs, results and scripts

`mainTabs`, `activeMainTab` and `alterScriptLog` are fields of the store; `calls` are the requests under way,
each with the tab whose id it captured; `grid` is the state of the one `ResultsTable`, which all tabs share.
`ViewRows`, `ViewLatest` and `ViewColumns` are the commands of the tree, `Run` that of the editor,
`AgentQuery` the message of the push channel; `RowsCame`, `ColumnsCame`, `ColumnsFailed` and `KeysCame` put
an answer into its tab, or nowhere if that is gone. `SaveEdit`, `ConfirmDrop` and `SaveAdd` change the
columns on screen and write scripts; `RunAll` sends those that are pending. `ColumnScripts` is
`generateAlterScripts` per dialect (`EditScripts`, `DropScripts`, `AddScripts`) beside what a server does
with a script (`Carried`), which is external: a column that is not there or a name that is taken is refused.

### ConnectionTree: what is listed and what spins

`nodes` is the tree's state per connection and database, `pending` the bag of calls under way. A call
carries the node its handler saw where the code writes that node back, and is applied to the node there is
where the code uses an updater (`Answer`). `DatabasesCame`, `ObjectsCame`, `SchemasCame`, `SchemaCame`,
`Relisted`, their failures, drops, logins and `Reloaded` are one action each. The spinners are what the
rows draw (`DbSpins`, `SchemaSpins`), not a variable.

### ChunksView: the chunks of a collection

`Show` and `Leave` are the tab's; `NextPage`, `PrevPage`, `Reread`, `SaveChunk`, `DeleteChunk` and `UploadFiles`
send a request, and the answers are taken by the collection shown when they come (`Takes`). `mixed` records,
for the property, that an answer was taken for another collection than it is of.

### HealthView and LockTree: locks

`reads` are the requests of `read`, which nothing cancels; `Mount`, `Listed`, `PickDatabase` and
`EditConnection` change the database of the header, and each causes the reads its effects cause (`Asks`).
`LockTree` is `buildLockTree`. `visit` is its recursive visit of a list of sessions, as a recursive function:
the depths and the cycle it writes to are passed along (`Walk`), the path it pushes to and pops from is an
argument, and what it returns is one more than the deepest. `Walked` visits every session, `Counted` are the
blockers the filter leaves, `ParentOf` is the first of the deepest of them, `Blocked` is `count`, and `Drawn` is
what `LockNode` draws below the roots.

### MigrationLint: the check of a file

Each statement is an action that updates what the check remembers (`lint`: transaction, timeouts, tables
made, constraints) and, beside it, the server (`server`), and records what was said and what happens (`last`).
The levels said are those of `checkMigration` and `checkMysql`; for MySQL the modes of `Classify` and the
clauses `ALGORITHM` and `LOCK`. What the server does is external, taken from the manuals the
code's findings are about.

### QueryHistory and EditorCompletions

`CommitEntry`, `Announce` and `CarryEntry` are an execution, its broadcast and the feed; `OpenPanel`, `Serve`,
`Fetched` and `ClosePanel` the panel, whose fetch merges into the list it captured (`MergedById`).
In `EditorCompletions`, `TurnTo` is the effect with its cleanup, `TablesCame` and `ColumnsKnown` are its two
continuations after an await, each of which asks whether it is cancelled (`GoesOn`), `GoAway` is the
unmount.

### AdapterCache, LlmSettings, GeneratedApi and ServerState: what the server keeps

`AdapterCache`: `Look`, `MakeAdapter`, `Take` are the three lines of `get_adapter`, on threads; `DropLooks`,
`DropCloses`, `DropDeletes` those of `drop_adapter`, on the event loop, before `CommitChange`.
`LlmSettings`: `GetConfig`, `RowsRead`, `KeepConfig` are `get_llm_config` around its await, `CommitSettings` and
`Invalidate` the end of `save_llm_settings`. `crossed` marks, for the property, who was between two of these
steps when a change took place. `GeneratedApi`: a request reads its row (`ReadStatus`, `ReadConfig`,
`ReadTable`) and commits the fields it changed (`CommitEnable`, `CommitDisable`, `CommitTable`); a session that
has read a row does not read it again, and an attribute set to what it was is not written.
`CreateToken` and `ValidateToken` use the secret their request has read. `ServerState` interleaves the steps of
the three, which share nothing.

## 4. The runs

| Run | Instance | Distinct states | Result |
|---|---|---|---|
| `migration` | 2 jobs, 1 table with 3 keys, pages of 1, an archive in the way, 1 write to the source | 652 k | passes |
| `migration_mongo` | 2 jobs, 2 collections with 2 keys, pages of 2, 1 refused document, 1 write, 1 crash, fair | 573 k | passes |
| `channel` | 3 windows, 3 connections, 2 messages, 2 sends at once, symmetric windows | 1.83 M | passes |
| `ws_skips` | 2 windows, 1 message | | `ConnectedReceives` fails |
| `progress` | 1 job, 1 window, 2 connections, 4 messages, 1 tick, 1 crash, fair | 564 k | passes |
| `progress_two_jobs` | 2 jobs, 1 window, 1 connection, 5 messages, 1 crash | 1.86 M | passes |
| `progress_unwatched` | 1 job, 1 connection, fair | | `RunIsWatched` fails |
| `chat` | 2 turns, 2 tabs, 1 pending plan of 1 step, 2 messages, 1 trouble | 1.98 M | passes |
| `chat_newer_plan` | 2 turns, 2 pending plans, no trouble | | `CardStaysUntilDecided` fails |
| `desktop` | each platform, 6 processes, 2 crashes, 1 pick, 1 restart per unit of time, fair | 213 k | passes |
| `desktop_unready` | the same | | `ServedIsKept` fails |
| `parts` | 10 parts, one used at a time; see below | 649 k | passes |

**Bounds.** Every bound is a constant of its module, named and commented there. Two jobs are enough for any race on a
target: what a job may meet is a name that is taken, a table that is gone and a row that is
there, and one other job brings each about. Three keys with pages of one make a first, a middle and a last
page, and an empty one; pages of two over two documents make a full last page. Three connections are a
window that stays, one that goes and one that returns, which is what a shift of the list
takes; two sends at once, one suspended and one behind it. One pending plan makes the second
turn evict the first. Two crashes are one answered by a restart and one beyond the limit, `MaxRestarts`
being 1.

In `parts`: locks of 3 sessions and one without a row, every way they may wait for each other, and 3 reads of 2
databases by a view shown twice; 2 tabs of 2 connections with 2 commands and a script, or a command, a script and
its run, or 2 scripts in a row on one list in each dialect; a tree of one connection of either kind, or one with two schemas open, and 4
lists; 2 collections, one of two pages, and 4 requests; migration files over one table that exists and one
that the file makes, 2 constraints, 2 transactions, of any length; 3 executions, a list of 2, a fetch of 1 and
a panel opened twice after the first execution, or once when there was none; 3 databases in an editor that runs its effect 4 times; 2 threads and 2 changes of
one connection; 3 readers and 2 saves of the settings; 3 requests and 1 client of a generated API.
Two of each is what it takes to be overtaken; three where the first must be undone and done again.

**Deadlock** is not checked: every bounded system here legitimately comes to rest (all jobs ended, all
messages said, the application gone). That nothing comes to rest too early is stated as
liveness: `EveryJobEnds`, `WatchedUnlessMissed`, `SettlesServed`.

**Fairness.** `MigrationExecutor`: weak fairness of each job's worker, a thread that nothing blocks except
the database calls, each of which returns or raises. `MigrationProgress`: of workers, of the server's
handlers and coroutines (the event loop is fair to what is ready), of the browser's callbacks; not of
clicks, lost connections or crashes. A message said to a window that is connected arrives, but only because
`MaxSockets` leaves the last connection standing. `DesktopShell`: a started process announces itself or
dies, one that was told to end does (SIGKILL after five seconds), callbacks go on, a quit
application goes. `AgentChat` and `WsChannel` are checked for safety only.

### What they show

*Migration.* No row the target had is lost, whatever fails: at each step it is where it was, or in an
archive (`NoRowLost`); archives do not change (`ArchivesFrozen`); a table changes only if a job that runs a step is
about it (`OnlyChosenChange`). Keys that stay in the source during a copy are in the target when the step is
done, unless the row-by-row fallback passed over them, as it does with what the target refuses, with
duplicates and with rows whose insert failed (`CopyComplete`). A schema step that is done has
done what it was for (`SchemaReached`). The engine follows the protocol (`JobSpec`) and so keeps its
promises (`JobPromises`). What a merge of documents reports as copied was inserted by that job
(`ProgressIsHonest`). Accepted jobs end (`EveryJobEnds`).

*Channel.* A connection carries messages in order and none twice (`InOrder`); a connected window is
skipped only where a socket was removed from the list during the send, at most one window per removal
(`SkipsArePaidFor`); a socket that is served is listed
once and no other is (`ServedIsListed`); and so each window sees a `UserFeed` (`FeedSpec`).

*Progress.* A tab shows no outcome its job has not reached (`NeverAhead`), takes none back
(`ShownIsFinal`), shows the job as it is once it has heard everything (`AllHeardAllShown`), and comes to a
verdict unless it misses a message or the server dies (`WatchedUnlessMissed`).

*Chat.* A step of a plan runs at most once and in order, through repeated clicks, other windows,
lost replies and crashes (`StepsRunOnce`); a plan whose rejection was announced never runs
(`RejectedNeverRuns`); the messages of a tab are all of its session, unless the
reply of a POST was lost (`OneConversationPerTab`); a tab is loading exactly as long as one turn of it is
under way, unless a reply was lost or messages came twice (`LoadingIsOneTurn`). The exceptions are in
the properties.

*Desktop.* One backend at a time (`OneBackend`), restarts within the sliding window (`RestartsBounded`),
no process and no endpoint file after a quit (`QuitLeavesNothing`), and in the end the application is gone
or page, policy and file all name the backend that runs (`SettlesServed`).

*Parts: the window.* Once the last read is answered, the health view shows the database its header
names (`NewestShowsHeader`). Every session has one place in the lock tree, below one it waits for, and a
deadlock is warned of exactly when there is one (`EverySessionHasOnePlace`); without one, advice is aimed at
sessions that hold up others and wait for nobody (`AdviceAimsAtHolders`). A tab that says it is running has a
call under way (`RunningIsACall`). Scripts turn the columns that were described into those on screen, as
far as the dialect has scripts for the edit (`ScriptsGiveShown`). Every spinner of the tree has the call
that ends it under way, unless a drop wrote back an old node (`SpinnersEnd`). A chunk is saved
where it was read, unless an answer was taken for another collection (`SavedWhereRead`). A statement
the check is quiet about holds nobody up for long, and is refused only if the check passed over it
(`QuietIsShort`). The history list has an entry once and keeps it until it is full, but for what arrives during a
fetch (`HistoryKeeps`). An editor proposes the names of its own database, and none twice (`ProposesOwnNames`).

*Parts: the server.* What an administrator changed takes hold (`ChangesTakeHold`): the adapter kept has the
present credentials and is open, unless a request was in `get_adapter`, or came, while a change was between its
drop and its commit; the settings kept are those saved last, unless a save overtook a read; a token
of a disabled or newly enabled database is never good again. The exceptions of the first two are in the
property, and last: nothing drops such an adapter, or forgets such settings, before the next change.

### Where the code does something else

Four runs end in a counterexample to what the repository says of itself; `PROJECT.json` quotes the
lines under "findings".

* `ws_skips`: a socket is removed while a send is suspended behind it, the list shifts, the
  next window is passed over.
* `progress_unwatched`: the last message of a short job arrives before the reply that makes the tab know the
  job; the tab shows it running for ever, since nothing asks for the job again.
* `chat_newer_plan`: the reply to the rejection of one plan takes down the card of the next.
* `desktop_unready`: a process that crashes right after it announced itself is restarted, but its health
  check goes on against the dead port, and after ten seconds quits the application that serves by
  then.

Seen while modelling, without a run of their own:

* *Migration.* A version name is computed against the snapshot of the job's start, so that two jobs choose the same
  one and the second rename fails (the archive stays intact, see `ArchivesFrozen`). The docstring at
  `migration_executor.py:10-11` says that the remaining steps of a failed object are marked as errors, while
  they stay pending (`_fail_running_steps`, and so `End` of `MigrationJob`, touches the running one only). SQL's
  `rows_copied` counts rows read, those passed over included. A remounted review lets the same plan run twice
  (`Remount`).
* *Chat and channel.* A chat tab whose outcome message is lost stays loading, and a card whose `plan_committed`
  is lost stays up. A window that reconnects may be sent a message twice if another socket, of whichever window, holds up its coroutine.
* *Tabs.* `RunAll` of the list of columns sends the pending scripts of every connection to the one that is
  viewed and marks none as executed (`ResultsTable.tsx:436`). The answer of an older command replaces that of
  a newer one in the same tab. `MainArea.tsx:29` picks the kind of view by the active connection, not by that of
  the tab. The panel of saved queries shows answers about another connection.
* *Tree.* `loadSchemas` does not open the default schema when its database is opened, contrary to its comment
  (`ConnectionTree.tsx:206-207`): it looks for the node in the tree of its closure.
* *Chunks and history.* Answers about one collection are taken for another, since the database is missing
  from the dependencies (`VectorChunksView.tsx:355`). Entries that arrive during a fetch of the history are lost.
* *Health.* `CREATE INDEX CONCURRENTLY` within a transaction, on a table the file made, is refused by the server
  and passed over by the check (`sqlmigrate.ts:141`). The last migration that is fetched overwrites what was typed
  meanwhile (`HealthView.tsx:184-192`).
* *Server.* Two threads that find no adapter make one each and one is never closed. Requests that enable a
  table at once each rotate the secret of its database. A request may reply that a database is enabled,
  or a table is, while another has disabled it: it found the flag set and did not write it.

## 5. The proofs

Checked by TLAPS with Z3, Zenon and LS4, for every value of the constants that satisfies the named
assumptions, which TLC evaluates on the runs:

* `PlanAssumption`, `ExecutorAssumption`: days, objects and keys are positive numbers, the keys finitely many,
  the initial databases well formed.
* `WindowsAssumption` and `BoundsAssumption` of `WsChannel`: finitely many windows, bounds that are numbers;
  `ChannelAssumption`, `BuildsAssumption` and `NoJobAssumption` say the same of a run and its tab, and that "no job" is
  none.
* `LimitsAssumption`, `BoundsAssumption`, `NoneAssumption` of `AgentChat`: the caps of the code are positive, bounds
  are numbers, "none" names no turn.
* `ShellAssumption`: bounds are numbers, the platforms those the code knows.
* `DatabasesAssumption`, `TablesAssumption`, `PagesAssumption`, `HistoryAssumption`, `FileAssumption`,
  `TargetsAssumption`, `NoEditorIsNoTarget`: of the parts of a window, that a table has a connection and columns
  no two of which have one name, a constraint a table, a collection pages, an entry a number, and that what
  stands for nothing is nothing.
* `PidsAssumption`, `SnapshotsAssumption`: pids are natural numbers, as `/^\d+$/` in `buildLockTree` sees to, and the
  server lists a session once. Whom it waits for is left open: itself, several, in circles, or one not listed.
* `TreeAssumption`: of the connections some have schemas or the health view, the default schema is one; no schema
  or database is called what stands for none or for a list under way (`__loading`, a key the code reserves).
* `UpdatesAssumption`, `SavesAssumption`: changes and saves are numbered from 1.

| Theorem | Module | States |
|---|---|---|
| `ExecutorTypeCorrect` | `MigrationExecutorProofs` | `Spec => []TypeOK` |
| `TargetRowsKept`, `ArchivesNeverChange`, `OthersUntouched` | `MigrationExecutorProofs` | the three action properties of the engine |
| `ProtocolCorrect`, `ProtocolFinal` | `MigrationJobProofs` | the promises of the protocol |
| `SchemasAreReached`, `CopiesAreComplete`, `ProgressCountsWrites` | `MigrationExecutorProofs` | `[]SchemaReached`, `[]CopyComplete`, `[]ProgressIsHonest` |
| `EngineImplementsJob` | `MigrationExecutorProofs` | `Spec => JobSpec`, the refinement |
| `EngineKeepsPromises` | `MigrationExecutorProofs` | the promises, of the engine, by the refinement and `ProtocolCorrect` |
| `ChannelTyped`, `ChannelInOrder`, `ChannelListAgrees`, `ChannelSkipsArePaidFor` | `WsChannelProofs` | the invariants of the channel |
| `ChannelIsAFeed` | `WsChannelProofs` | `Spec => FeedSpec`, the refinement, for every window |
| `ProgressComposes` | `MigrationProgressProofs` | what is proved of the job and of the channel holds of the composition |
| `TabsAreNeverAhead`, `DoneTabsAreRight` | `MigrationProgressProofs` | `Spec => []NeverAhead`, and that "done" in a tab means every step |
| `ChatTyped`, `ChatStepsRunOnce`, `ChatRejectedNeverRuns`, `ChatOneConversationPerTab`, `ChatLoadingIsOneTurn` | `AgentChatProofs` | the invariants of the chat |
| `ChatUsesTheFeed` | `AgentChatProofs` | what the chat does with the channel is a `UserFeed` |
| `OneBackendAtATime`, `RestartsAreBounded`, `NothingIsLeft` | `DesktopShellProofs` | the invariants of the shell |
| `HealthShowsHeader` | `WindowProofs` | `Spec => []NewestShowsHeader` |
| `OnePlaceInTree`, `AdviceIsOnHolders` | `WindowProofs` | `Spec => []EverySessionHasOnePlace`, `Spec => []AdviceAimsAtHolders` |
| `TabsRunCalls` | `WindowProofs` | `TabsSpec => []RunningIsACall` |
| `ScriptsShown` | `WindowProofs` | `TabsSpec => []ScriptsGiveShown` |
| `ChunksAreSavedWhereRead` | `PartsProofs` | `ChunksSpec => []SavedWhereRead` |
| `HistoryIsKept` | `PartsProofs` | `HistorySpec => []HistoryKeeps` |
| `SpinnersHaveCalls` | `PartsProofs` | `TreeSpec => []SpinnersEnd` |
| `QuietStatementsAreShort` | `PartsProofs` | `LintSpec => []QuietIsShort` |
| `OwnNamesOnly` | `PartsProofs` | `CompletionsSpec => []ProposesOwnNames` |
| `DeadTokens`, `CurrentSettings`, `CurrentAdapter` | `PartsProofs` | the promise of each, by its own specification |
| `ChangesHold` | `PartsProofs` | `ServerSpec => []ChangesTakeHold` |

**Types of the engine.** `TypeOK` is not inductive: that a rename has a name to rename to, or a copy a
source to read, follows from where the worker stands. `TypeInv` adds `HasSource` (steps were built
for objects of the source), `OneRunning` (at most one step runs, at the worker's object), `ModeIsCopying`
(who is in the loop is in a copy step) and `VersionIsNamed` (a due rename has the name of an archive of
its object).

**Rows and archives.** `TargetSteps` says once what any step may do to the target: nothing, or `Touches(o)`,
for an object with a running step: rename it to a free archive name, add it under its own name, or let its
columns and rows grow. The three action properties each follow from that.

**What a step and a copy reach.** A step that is done says something of columns or rows that other jobs may
touch later, so each property is carried by what can never be undone. `SchemaInv`: tables only gain
columns under a base name, or are made anew with all of them (`ColumnsGrow`), so what a job brought up to date
stays so. `CopyInv`: a row that was stored stays stored, in the table or an archive of it
(`DeliveredStays`); the cursor divides the keys into those that were delivered or passed over and those to
come (`CopyGoesWell`), and a page is the next of them, whatever the size of pages. `CountInv`: a key is
counted once, since the cursor is past the keys this job has inserted.

**Refinement.** The abstract actions are allowed only in the order of objects and steps, which the
engine's state does not show: it keeps a set of objects to do. `LoopInv` relates the two: objects behind the worker are
settled (`BehindInv`), those ahead are untouched (`AheadInv`), the one it is at has failed nowhere
(`AtInv`), and a job that waits has begun nothing (`WaitingInv`). Each action of the engine is then mapped
to `Submit`, `Begin`, `End`, `Finish`, `Abort`, `Crash` or a stutter.

**Protocol.** `IInv` is the conjunction of the promises with `AbsentIsEmpty` (who was never submitted has
no steps); it is inductive because only one step moves at a time (`OneStepMoves`).

**The channel.** `InOrder` is about sockets, and what may break it is in the coroutines. `Ordered` orders them:
later ones carry later messages (`Numbered`), none has been served before it was registered (`Opened`), and
what a coroutine has yet to write, behind its iterator, is newer than all that was written there (`Ahead`). A
removal shifts list and iterators together: `Remaining` keeps the order of the sockets that stay, which the
lemmas on ranks show. `Skips` counts the places that slip past an iterator against the
sockets that left the list (`Removals`). The refinement maps what is in flight to one
window onto its feed; each step of the channel is then a `Say`, `Put`, `Take`, `Lose` or a stutter of it.

**The run and its tab.** `ProgressComposes` first: every step is one of `MigrationJob` and one of `WsChannel`, or
leaves them alone, so their invariants come for free. On them rests one idea: a message is true of its job
when it is sent (`SaidIsTrue`) and stays so, as outcomes are final, so that it does no harm however late it is
taken (`TabIsTrue`). A tab that has a job has one that was accepted (`AcceptedIsThere`).

**The chat.** `Typed` says how far a turn is (`Stages`), that plans and messages are of turns whose agent is over.
`Plans`: a plan is awaited, pending, in one loop or finished, and only a loop has run
steps (`PendingUntouched`, `LoopsGoOn`); popping it before the first step makes the loop the only one. `Tabs`, while
no reply was lost: a tab without a session waits for one turn only, the one that will bring it, and the
session of any other turn is its tab's (`FirstTurns`, `SessionsAgree`). `Loading`, while moreover nothing came
twice: a tab loads exactly while one turn is awaited in it (`LoadingAwaits`), of which one outcome is
said (`OneOutcome`) and is still to be taken (`OutcomesAwaited`). In each, the exceptions are those the property
names.

**One backend.** "At most one process lives" is not inductive without whose it is. `Sound` says that a living
process is either the sidecar's, or is being waited for by a stop, in which case the sidecar has
none and will not start one by itself. Every function on the shell (`Start`, `Stop`, `Resume`,
`Quit`, `Exited`, `Handled`) is shown to keep `Kept`, which is types and, unless stops overlapped,
`Sound`; the actions compose them. **Restarts**: `Counted` adds that every restart of the last
window of time is on the list the code keeps (`Remembered`), whose length the handler of `exit`
bounds. **What is left**: `Leaving` says which process a quit waits for, and that once the windows close
there is none and the endpoint file is gone.

**Names of an editor.** That a provider is of the present database follows from who may register one: only a
run of the effect that was not cancelled. `CompletionsInv` adds `OnlyLastGoesOn`, that of all runs
under way only the last can be one of those, which each cleanup establishes before it starts the next.

**Answers in a window.** In each part the invariant says what the calls under way are for. `HealthInv`: reads
are numbered, and the newest is of the database of the header. `TabsInv`: calls carry the ids of tabs, and a
tab that runs has one among them (`RunsAreCalls`). `ChunksInv`: while nothing was mixed up, the page, the editor
and every save under way are of the collection shown (`ReadHere`, `SaveIsRight`). `HistoryInv`: what is to
be kept is on the list and on every list a fetch under way started from (`Holds`), which is why
merging into an old list loses only what came since; `NewestFirstIs` says that ranking a finite set by
`executed_at` lists each element once.

**Recursion.** The library's induction theorems take the statement as a parameter, which no prover here can
instantiate, so the induction is done by hand where a definition recurses. `LeastNat` finds the least number of a
set: a statement that fails somewhere fails at a least point, where it holds of everything below.
`RecursionExists` says that a body that asks only for values at points of a smaller measure has a function that
solves it, and so that the `CHOOSE` in which a recursive function is defined finds one; a second
solution would differ from it at a least point. Sums over children (`TogetherIs`), the visit (`VisitIs`), the counts
of `Blocked` (`BlockedIs`) and the scripts (`CarriedIs`) each get what they compute from these two.

**The tree of locks.** The visit descends: each call has either fewer sessions left off its path or a shorter
list (`VisitDescends`). What it leaves behind is an invariant of the walk, stated for every call
(`SettledAt`, `DoneAt`): depths on the path are unknown, whoever has a depth has all blockers above it, known
or on the path, unless both are in a cycle, and a cycle is recorded only where sessions do wait for
each other. That the path is a chain of waiters (`ReadyAt`) is what makes the last true. Afterwards the depths fall
towards the root (`Planted`), so that the tree has no circle and counting from the top counts each session once
(`TopsCountAll`), and an empty cycle means that of any deadlocked set the least deep member would have a deeper
blocker, which is none (`CycleIsDeadlock`).

**Scripts.** `ScriptsGiveShown` is about the list on screen; lists in other tabs come back. `ListsInv` says it of
every tab (`TabRight`): what the scripts made of the list come to, applied one after the other to the columns
described, is what the list shows, as far as the dialect goes (`Follows`), and its table is one of the tab's
connection, so that the dialect is right. For that, ids of tabs are given once, and an answer on its way
to a tab is for a table of its connection (`TabsRight`). That one more edit, drop or addition keeps `Follows` is shown
of any columns and any list without a repeated name (`EditFollows`, `DropFollows`, `AddFollows`); a script that is
refused keeps everything after it refused, which is why the lemmas also say when none is.

**Spinners.** `SpinnersEnd` is about what is drawn; a spinner below a closed row is not, and opens again with
it. `TreeInv` therefore speaks of every node there is (`Ends`): a flag of what is under way has a call of
the kind that clears it, in the bag, for that node. The errors matter, since a node that failed hides its
schemas; so does the kind of connection, which decides which flag counts. Handlers that write a node back are
harmless for calls of the same node only if what they write waits for nothing but what they
call next, which is what each lemma on an answer shows (`NodeEnds`, `SchemaEnds`, `MapEnds`); the one that is not
records it in `overwritten`. `CallIs` and `DialogIs` say what calls and dialogs may be about.

**Quiet statements.** What the check of a migration file says can be right only if what it remembers is.
`Remembers` equates transaction, new tables and foreign key checks with the server's, and says of every
constraint that one remembered as validated is, and that one the server still holds a lock for is
remembered under the number of the transaction. For MySQL the five ways are ranked, any statement has a worst one
(`WorstIs`), and a clause the worst allows is too strict for none below it (`LessIsNotStricter`).

**What the server keeps.** Each promise is about what is kept, and rests on what those who may still write
hold. `AdapterInv`: a request in `get_adapter` has the present credentials or is marked as crossed
(`RequestIsCurrent`), and between the drop and the commit of a change nothing is kept but what is crossed
(`DroppedIsGone`). `LlmInv`: what a reader is about to keep is present, was overtaken, or is about to be
forgotten (`ReadIsCurrent`). `PapiInv`: the secret of an enabled database is one that has not ended
(`EndedIsOver`), which numbering secrets as they are made gives, and what a client holds has ended or is still
that secret (`HeldWasGood`). None of the three disturbs the others, so
`ChangesHold` is their conjunction.

**Checked by TLC only**, and why.

* Liveness: `EveryJobEnds`, `WatchedUnlessMissed`, `SettlesServed` need fairness and ENABLED.
* `ShownIsFinal` and `AllHeardAllShown` are checked with at most two sockets to a window. For any number they are not
  to be expected: at five sockets TLC finds the channel bringing back to a window a message older than one it
  took, by a coroutine that a dead socket of the same window held up.
* `PartsTyped`, the types of the parts, of which each proof carries what it needs.

## 6. What is left out

* **Migration.** The introspection, the wording of DDL, type mapping, and identity of source and
  target (taken to be two databases). Rows without keys that are equal are one row. Changes of the
  source's schema during a job. The order of a MongoDB cursor is taken to be the order of the keys. A
  collection never has changed columns, so its versioning branch is unreachable, as in the code.
* **Channel.** `send_to_all`, which nothing calls. Contents of messages.
* **Progress.** Choosing objects and reading plans before the Run button.
* **Chat.** Texts, the SSE endpoint, the history fetch that fills a reopened tab, the connection chosen in a tab,
  `agent_query_applied`, the check that a plan is its caller's, and the deletion of sessions. A refused turn creates no session.
  Windows other than the one modelled only decide plans.
* **Desktop.** A process dies and its `exit` event is handled in one step. The health check fails only if nobody
  listens. A window can be closed once its page is loaded. The choose-file handler's own health check,
  bounds, logs, secrets, menus, advertisements. The plan's 30-second limit for READY
  (`docs/desktop-plan.md:63`) is not in the code, and so not in the model.
* **Tabs and tree.** Documents and JSON results, sorting, filtering, layout; the form of a connection; what a
  server does with a statement that is run.
* **Chunks.** Searching and sorting, which choose among the chunks read.
* **Health.** Statement statistics and the other panels; how statements are found in the text of a file.
* **History and editor.** Saved queries; entries of one instant; clearing.
* **Server caches.** The bound of the registry of jobs (200), which only limits what `GET /jobs/{id}` finds; caches of
  metadata inside the adapters. Provisioning, rows, expiry and the rate limiter of the generated API.
* **Everything listed as not modelled** in `PROJECT.json`: the agent and its tools, backups, the MCP server,
  vector routes and the health checks of the API are calls of other systems without state of their own; the
  rest is lookups, declarations and static data.
