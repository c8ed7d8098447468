-------------------------------- MODULE QueryTabs --------------------------------
(***************************************************************************)
(* The query tabs of the main area and the results they show: the store    *)
(* (ui/src/store/index.ts), the commands of the tree that fill a tab       *)
(* (ConnectionTree.tsx), the editor's Run (QueryEditor.tsx) and the grid   *)
(* with its list of columns and its scripts (ResultsTable.tsx).            *)
(* The agent's queries come by the push channel (useWebSocket.ts).         *)
(*                                                                         *)
(* The result, the table whose columns are viewed and the flag of a run    *)
(* under way belong to the tab; answers are put into the tab by its id,    *)
(* whenever they come.  What is being edited belongs to the grid, which is *)
(* one component for all tabs.  The scripts it writes go to one log for    *)
(* all connections, whose pending scripts a run sends to the connection of *)
(* the list viewed; what the runs do there is left out.                    *)
(***************************************************************************)
EXTENDS ColumnScripts

CONSTANTS
    Conns, Tables,
    ConnOf,         \* the connection a table is reached through
    ColumnsOf,      \* the columns the server describes, in order
    Drafts,         \* what the user may type for a column
    MaxTabs,        \* bound: tabs ever opened
    Budgets         \* bound: calls, scripts and runs of the log that a behaviour may make

ASSUME TablesAssumption ==
    /\ ConnOf \in [Tables -> Conns]
    /\ ColumnsOf \in [Tables -> Seq(Column)]
    /\ \A t \in Tables : Distinct(ColumnsOf[t])
    /\ Drafts \subseteq Column
    /\ MaxTabs \in Nat
    /\ Budgets \subseteq [calls : Nat, scripts : Nat, runs : Nat]

VARIABLES
    dbType,         \* dialect of each connection
    mainTabs,       \* the query tabs, in order
    opened,         \* tabs opened so far: the source of ids
    activeMainTab,  \* id of the tab shown
    calls,          \* calls whose answers go to a tab
    grid,           \* the state of the one ResultsTable
    alterScriptLog, \* scripts written
    loops,          \* runs of the log under way: whether the grid there is began them
    budget          \* what is left of the bounds

tabVars ==
    <<dbType, mainTabs, opened, activeMainTab, calls, grid, alterScriptLog, loops, budget>>

NoTab == 0
NoTable == "no_table"
NoRow == 0
NoResult == [kind |-> "none"]

Results ==
    [kind : {"none", "rows", "error"}]
        \union [kind : {"columns"}, of : Tables, rows : Seq(Column),
                   made : Seq(Script), clean : BOOLEAN]

QueryTab == [id : 1..MaxTabs, conn : Conns, loading : BOOLEAN, sqlPanelOpen : BOOLEAN,
             result : Results, columnView : Tables \union {NoTable}]

Call == [tab : 0..MaxTabs, kind : {"keys", "rows", "columns", "run"}, table : Tables \union {NoTable}]

Fresh == [editing |-> NoRow, deleting |-> NoRow, adding |-> FALSE, running |-> FALSE]

TabsInit ==
    /\ dbType \in [Conns -> Dialects]
    /\ mainTabs = <<>> /\ opened = 0 /\ activeMainTab = NoTab
    /\ calls = <<>>
    /\ grid = Fresh
    /\ alterScriptLog = <<>> /\ loops = <<>>
    /\ budget \in Budgets

-----------------------------------------------------------------------------
(* The store.                                                              *)

TabsOf(tabs, c) == {i \in DOMAIN tabs : tabs[i].conn = c}

\* ensureQueryTab: the tab of a connection, opened if it has none.
Ensured(c) ==
    IF TabsOf(mainTabs, c) # {}
    THEN [tabs |-> mainTabs, id |-> mainTabs[CHOOSE i \in TabsOf(mainTabs, c) : TRUE].id, opened |-> opened]
    ELSE [tabs |-> Append(mainTabs,
                       [id |-> opened + 1, conn |-> c, loading |-> FALSE, sqlPanelOpen |-> FALSE,
                        result |-> NoResult, columnView |-> NoTable]),
          id |-> opened + 1, opened |-> opened + 1]

\* updateQueryTab: nothing, if the tab is gone.
Updated(tabs, id, Patch(_)) ==
    [i \in DOMAIN tabs |-> IF tabs[i].id = id THEN Patch(tabs[i]) ELSE tabs[i]]

\* A run starts in a tab, which reveals the panel.
Begun(tabs, id, view) ==
    Updated(tabs, id, LAMBDA tab :
        [tab EXCEPT !.loading = TRUE, !.result = NoResult, !.columnView = view, !.sqlPanelOpen = TRUE])

TabAt(tabs, id) ==
    IF \E i \in DOMAIN tabs : tabs[i].id = id
    THEN tabs[CHOOSE i \in DOMAIN tabs : tabs[i].id = id]
    ELSE [id |-> NoTab, result |-> NoResult, sqlPanelOpen |-> FALSE, loading |-> FALSE,
          columnView |-> NoTable]

shown == TabAt(mainTabs, activeMainTab)

\* Where MainArea puts the grid: alone, below the editor, or nowhere.  In another place
\* it is another component.
Place(tab) == IF tab.id = NoTab THEN "nowhere" ELSE IF tab.sqlPanelOpen THEN "below" ELSE "alone"

\* The tabs and the one shown become these.  The grid is mounted anew in another place;
\* in the same one it forgets, when the result it shows is another, what was being edited
\* or added, and keeps which row was about to be dropped.
Become(tabs, id) ==
    LET new == TabAt(tabs, id)
    IN  /\ mainTabs' = tabs
        /\ activeMainTab' = id
        /\ IF Place(new) # Place(shown)
           THEN /\ grid' = Fresh
                /\ loops' = [i \in DOMAIN loops |-> FALSE]
           ELSE /\ grid' = IF new.result # shown.result \/ new.id # shown.id
                           THEN [grid EXCEPT !.editing = NoRow, !.adding = FALSE]
                           ELSE grid
                /\ loops' = loops

-----------------------------------------------------------------------------
(* Filling a tab.                                                          *)

Calls(call) ==
    /\ budget.calls > 0
    /\ budget' = [budget EXCEPT !.calls = @ - 1]
    /\ calls' = Append(calls, call)

\* The tab of the connection is shown with a run under way, and a call made for it.
Starts(c, kind, t, view) ==
    LET e == Ensured(c)
    IN  /\ e.opened <= MaxTabs
        /\ opened' = e.opened
        /\ Become(Begun(e.tabs, e.id, view), e.id)
        /\ Calls([tab |-> e.id, kind |-> kind, table |-> t])
        /\ UNCHANGED <<dbType, alterScriptLog>>

\* handleViewRows, and the same for the latest fifty, which asks for the keys first.
ViewRows(t) == Starts(ConnOf[t], "rows", t, NoTable)

ViewLatest(t) ==
    /\ Calls([tab |-> NoTab, kind |-> "keys", table |-> t])
    /\ UNCHANGED <<dbType, mainTabs, opened, activeMainTab, grid, alterScriptLog, loops>>

\* handleViewColumns
ViewColumns(t) == Starts(ConnOf[t], "columns", t, t)

\* runQuery: not while a run is under way.
Run ==
    /\ shown.id # NoTab /\ shown.sqlPanelOpen /\ ~shown.loading
    /\ Become(Begun(mainTabs, shown.id, NoTable), shown.id)
    /\ Calls([tab |-> shown.id, kind |-> "run", table |-> NoTable])
    /\ UNCHANGED <<dbType, opened, alterScriptLog>>

Described(t) == [kind |-> "columns", of |-> t, rows |-> ColumnsOf[t],
                 made |-> <<>>, clean |-> TRUE]

\* An answer goes to the tab that asked, whatever it shows by now.
Puts(i, result) ==
    /\ calls' = RemoveAt(calls, i)
    /\ Become(Updated(mainTabs, calls[i].tab, LAMBDA tab :
                  [tab EXCEPT !.loading = FALSE, !.result = result]), activeMainTab)
    /\ UNCHANGED <<dbType, opened, alterScriptLog, budget>>

RowsCame(i) ==
    /\ calls[i].kind \in {"rows", "run"}
    /\ Puts(i, [kind |-> "rows"]) \/ Puts(i, [kind |-> "error"])

ColumnsCame(i) ==
    /\ calls[i].kind = "columns"
    /\ Puts(i, Described(calls[i].table))

\* Mutated form of ColumnsFailed: the run of the tab is not ended.
ColumnsLost(i) ==
    /\ calls[i].kind = "columns"
    /\ calls' = RemoveAt(calls, i)
    /\ UNCHANGED <<dbType, mainTabs, opened, activeMainTab, grid, alterScriptLog, loops, budget>>

ColumnsFailed(i) ==
    /\ calls[i].kind = "columns"
    /\ calls' = RemoveAt(calls, i)
    /\ Become(Updated(mainTabs, calls[i].tab, LAMBDA tab : [tab EXCEPT !.loading = FALSE]),
              activeMainTab)
    /\ UNCHANGED <<dbType, opened, alterScriptLog, budget>>

\* The keys are there, or could not be had: the rows are asked for.
KeysCame(i) ==
    /\ calls[i].kind = "keys"
    /\ LET t == calls[i].table
           e == Ensured(ConnOf[t])
       IN  /\ e.opened <= MaxTabs
           /\ opened' = e.opened
           /\ Become(Begun(e.tabs, e.id, NoTable), e.id)
           /\ calls' = Append(RemoveAt(calls, i), [tab |-> e.id, kind |-> "rows", table |-> t])
    /\ UNCHANGED <<dbType, alterScriptLog, budget>>

-----------------------------------------------------------------------------
(* Tabs.                                                                   *)

\* focusConnectionQueryTab
FocusConnection(c) ==
    LET e == Ensured(c)
    IN  /\ e.opened <= MaxTabs
        /\ opened' = e.opened
        /\ Become(e.tabs, e.id)
        /\ UNCHANGED <<dbType, calls, alterScriptLog, budget>>

FocusTab(i) ==
    /\ Become(mainTabs, mainTabs[i].id)
    /\ UNCHANGED <<dbType, opened, calls, alterScriptLog, budget>>

\* closeMainTab: the last of the others is shown.
CloseTab(i) ==
    /\ LET rest == RemoveAt(mainTabs, i)
       IN  Become(rest, IF activeMainTab # mainTabs[i].id THEN activeMainTab
                        ELSE IF rest = <<>> THEN NoTab ELSE Last(rest).id)
    /\ UNCHANGED <<dbType, opened, calls, alterScriptLog, budget>>

\* toggleDb of the tree: the connection has a tab, which is not shown yet.
BrowseDatabase(c) ==
    LET e == Ensured(c)
    IN  /\ e.opened <= MaxTabs
        /\ opened' = e.opened
        /\ Become(e.tabs, activeMainTab)
        /\ UNCHANGED <<dbType, calls, alterScriptLog, budget>>

\* toggleSqlPanel, on the tab of the active connection: a click in the tree makes any
\* connection the active one.
ToggleSqlPanel(c) ==
    LET e == Ensured(c)
    IN  /\ e.opened <= MaxTabs
        /\ opened' = e.opened
        /\ Become(Updated(e.tabs, e.id, LAMBDA tab : [tab EXCEPT !.sqlPanelOpen = ~@]), e.id)
        /\ UNCHANGED <<dbType, calls, alterScriptLog, budget>>

\* agent_query_applied: what the agent ran is shown as if the user had; a run of the tab
\* goes on.
AgentQuery(c) ==
    LET e == Ensured(c)
    IN  /\ e.opened <= MaxTabs
        /\ opened' = e.opened
        /\ Become(Updated(e.tabs, e.id, LAMBDA tab :
                      [tab EXCEPT !.result = [kind |-> "rows"], !.sqlPanelOpen = TRUE,
                                  !.columnView = NoTable]), e.id)
        /\ UNCHANGED <<dbType, calls, alterScriptLog, budget>>

-----------------------------------------------------------------------------
(* The list of columns.                                                    *)

isColumnView ==
    /\ shown.id # NoTab /\ ~shown.loading
    /\ shown.columnView # NoTable
    /\ shown.result.kind = "columns"

rows == shown.result.rows

Sets(g) ==
    /\ isColumnView
    /\ grid' = g
    /\ UNCHANGED <<dbType, mainTabs, opened, activeMainTab, calls, alterScriptLog, loops, budget>>

EditRow(i) == Sets([grid EXCEPT !.adding = FALSE, !.deleting = NoRow, !.editing = i])
CancelEdit == grid.editing # NoRow /\ Sets([grid EXCEPT !.editing = NoRow])
AskDrop(i) == Sets([grid EXCEPT !.deleting = i, !.editing = NoRow])
KeepColumn == grid.deleting # NoRow /\ Sets([grid EXCEPT !.deleting = NoRow])
OpenAdd == Sets([grid EXCEPT !.editing = NoRow, !.adding = TRUE])
CancelAdd == grid.adding /\ Sets([grid EXCEPT !.adding = FALSE])

\* Scripts are written to the log for the table viewed, and the list shown is changed as
\* if they had run.  Two things are followed for the properties: what was made of the list
\* and whether no two of its columns ever had one name.
Writes(scripts, newRows, g) ==
    /\ budget.scripts >= Len(scripts)
    /\ budget' = [budget EXCEPT !.scripts = @ - Len(scripts)]
    /\ alterScriptLog' = alterScriptLog \o scripts
    /\ mainTabs' = Updated(mainTabs, shown.id, LAMBDA tab :
           [tab EXCEPT !.result.rows = newRows, !.result.made = @ \o scripts,
                       !.result.clean = @ /\ Distinct(newRows)])
    /\ grid' = g
    /\ UNCHANGED <<dbType, opened, activeMainTab, calls, loops>>

dialect == dbType[ConnOf[shown.columnView]]

\* After each of the three the result is another, so the effect forgets the rest.
SaveEdit(draft) ==
    /\ isColumnView /\ grid.editing \in DOMAIN rows
    /\ Writes(EditScripts(dialect, rows[grid.editing], draft),
              [rows EXCEPT ![grid.editing] = draft],
              [grid EXCEPT !.editing = NoRow, !.adding = FALSE])

ConfirmDrop ==
    /\ isColumnView /\ grid.deleting \in DOMAIN rows /\ grid.deleting # grid.editing
    /\ Writes(DropScripts(rows[grid.deleting]), RemoveAt(rows, grid.deleting),
              [Fresh EXCEPT !.running = grid.running])

SaveAdd(draft) ==
    /\ isColumnView /\ grid.adding
    /\ Writes(AddScripts(draft), Append(rows, draft),
              [grid EXCEPT !.editing = NoRow, !.adding = FALSE])

-----------------------------------------------------------------------------
(* The log and its runs.                                                   *)

\* handleRunAllScripts, on the connection of the view.
RunAll ==
    /\ alterScriptLog # <<>> /\ shown.columnView # NoTable /\ ~grid.running
    /\ budget.runs > 0
    /\ budget' = [budget EXCEPT !.runs = @ - 1]
    /\ grid' = [grid EXCEPT !.running = TRUE]
    /\ loops' = Append(loops, TRUE)
    /\ UNCHANGED <<dbType, mainTabs, opened, activeMainTab, calls, alterScriptLog>>

\* The run ends, with the last script or the first that fails; the grid it belongs to, if
\* it is still there, allows another.
RunEnds(k) ==
    /\ loops' = RemoveAt(loops, k)
    /\ grid' = IF loops[k] THEN [grid EXCEPT !.running = FALSE] ELSE grid
    /\ UNCHANGED <<dbType, mainTabs, opened, activeMainTab, calls, alterScriptLog, budget>>

ClearLog ==
    /\ alterScriptLog # <<>>
    /\ alterScriptLog' = <<>>
    /\ UNCHANGED <<dbType, mainTabs, opened, activeMainTab, calls, grid, loops, budget>>

-----------------------------------------------------------------------------
TabsNext ==
    \/ \E t \in Tables : ViewRows(t) \/ ViewLatest(t) \/ ViewColumns(t)
    \/ \E c \in Conns : FocusConnection(c) \/ BrowseDatabase(c) \/ ToggleSqlPanel(c) \/ AgentQuery(c)
    \/ \E i \in DOMAIN calls : RowsCame(i) \/ ColumnsCame(i) \/ ColumnsFailed(i) \/ KeysCame(i)
    \/ \E i \in DOMAIN mainTabs : FocusTab(i) \/ CloseTab(i)
    \/ Run \/ CancelEdit \/ KeepColumn \/ OpenAdd \/ CancelAdd
    \/ ConfirmDrop \/ RunAll \/ ClearLog
    \/ isColumnView /\ \E i \in DOMAIN rows : EditRow(i) \/ AskDrop(i)
    \/ \E d \in Drafts : SaveEdit(d) \/ SaveAdd(d)
    \/ \E k \in DOMAIN loops : RunEnds(k)

TabsSpec == TabsInit /\ [][TabsNext]_tabVars

-----------------------------------------------------------------------------
(* Properties.                                                             *)

TabsTyped ==
    /\ dbType \in [Conns -> Dialects]
    /\ mainTabs \in Seq(QueryTab) /\ opened \in 0..MaxTabs
    /\ activeMainTab \in 0..MaxTabs
    /\ calls \in Seq(Call)
    /\ grid \in [editing : Nat, deleting : Nat, adding : BOOLEAN, running : BOOLEAN]
    /\ alterScriptLog \in Seq(Script)
    /\ loops \in Seq(BOOLEAN)
    /\ budget \in [calls : Nat, scripts : Nat, runs : Nat]

\* A tab says that a run is under way only while one of its own calls is, through closed
\* and reopened tabs, overlapping commands of the tree and failures (handleViewRows,
\* handleViewColumns, runQuery).
RunningIsACall ==
    \A i \in DOMAIN mainTabs : mainTabs[i].loading =>
        \E k \in DOMAIN calls : calls[k].tab = mainTabs[i].id

\* Whatever is edited, dropped and added in a list of columns, in whatever order, and
\* however lists replace each other meanwhile: the scripts written turn the columns that
\* were described into those on screen; where a dialect has no script for a part of an
\* edit, the names at least agree.  The server refuses one of them only if two columns
\* were given one name, or a default of SQL Server was set twice (handleSaveEdit,
\* handleConfirmDelete, handleSaveAdd, generateAlterScripts).
ScriptsGiveShown ==
    isColumnView =>
        LET result == shown.result
            speaks == dbType[ConnOf[result.of]]
            after == Carried(ToSet(ColumnsOf[result.of]), result.made)
        IN  /\ result.clean /\ speaks # "mssql" => after.ok
            /\ after.ok =>
                  IF speaks \in WholeDialects
                  THEN after.columns = ToSet(rows)
                  ELSE {c.name : c \in after.columns} = {c.name : c \in ToSet(rows)}

==================================================================================
