--------------------------------- MODULE MCParts ---------------------------------
(***************************************************************************)
(* The parts of the window and of the server that are not about a migration *)
(* or a chat.  They share no state that is modelled, so a behaviour is one *)
(* of one of them, the others at rest: the states are the sum, not the     *)
(* product, of theirs.                                                     *)
(***************************************************************************)
EXTENDS HealthView, QueryTabs, ConnectionTree, ChunksView, MigrationLint, QueryHistory, EditorCompletions,
    ServerState, TLC

VARIABLE used       \* the part that is used

windowVars == <<vars, tabVars, treeVars, chunkVars, lintVars, historyVars, completionVars>>
partsVars == <<used, windowVars, serverVars>>

-----------------------------------------------------------------------------
(* Health: every way three sessions can wait for one another and for a     *)
(* fourth that has no row, in the last answer; fewer while the view goes on.*)

Ascending(S) == SetToSortSeq(S, <)

RowsOf(waits, resting) ==
    [p \in 1..3 |-> [pid |-> p, blockedBy |-> Ascending(waits[p]),
                     state |-> IF waits[p] = {} THEN resting ELSE "active"]]

AllSnapshots ==
    {RowsOf(waits, resting) : waits \in {w \in [1..3 -> SUBSET (0..3)] : \A p \in 1..3 : p \notin w[p]},
                              resting \in {"active", "idle_in_transaction"}}

MCSnapshots == {RowsOf([p \in 1..3 |-> IF p = 2 THEN S ELSE {}], "active") : S \in {{}, {1}}}

LastAnswer ==
    /\ tabDatabase = FirstDatabase /\ connDatabase = None
    /\ mounts = MaxMounts /\ mounted = TRUE
    /\ listings = {} /\ databases = TRUE
    /\ reads = <<>> /\ asked = MaxReads
    /\ snap \in {[no |-> MaxReads, of |-> FirstDatabase, rows |-> shownRows] : shownRows \in AllSnapshots}
    /\ loading = FALSE /\ error = FALSE
    /\ editor = NoEditor

HealthRests == Init /\ connDatabase = None

-----------------------------------------------------------------------------
(* Query tabs: two commands and a script, or one command, a script and its *)
(* run; or two scripts on one list of columns, in every dialect.           *)

ColumnA == [name |-> "a", type |-> "int", nullable |-> FALSE, default |-> NoDefault]
ColumnB == [name |-> "b", type |-> "int", nullable |-> TRUE, default |-> "x"]

MCConnOf == "t1" :> "c1" @@ "t3" :> "c2"
MCColumnsOf == "t1" :> <<ColumnA, ColumnB>> @@ "t3" :> <<ColumnA>>
MCDrafts == {[ColumnA EXCEPT !.name = "c"], [ColumnB EXCEPT !.name = "a", !.default = NoDefault],
             [ColumnA EXCEPT !.type = "text", !.nullable = TRUE]}

Races == [calls |-> 2, scripts |-> 1, runs |-> 0]
Sent == [calls |-> 1, scripts |-> 1, runs |-> 1]
Edits == [calls |-> 0, scripts |-> 2, runs |-> 0]
MCBudgets == {Races, Sent, Edits}

ColumnsShown ==
    /\ dbType \in [Conns -> Dialects] /\ dbType["c2"] = "sqlite"
    /\ mainTabs = <<[id |-> MaxTabs, conn |-> "c1", loading |-> FALSE, sqlPanelOpen |-> TRUE,
                     result |-> Described("t1"), columnView |-> "t1"]>>
    /\ opened = MaxTabs /\ activeMainTab = MaxTabs
    /\ calls = <<>>
    /\ grid = Fresh
    /\ alterScriptLog = <<>> /\ loops = <<>>
    /\ budget = Edits

TabsRest == TabsInit /\ dbType = [c \in Conns |-> "postgresql"] /\ budget = Races
TabsUsed == TabsInit /\ dbType = [c \in Conns |-> "postgresql"] /\ budget \in {Races, Sent}

-----------------------------------------------------------------------------
(* The tree: one connection of either kind, or one browsed to its schemas. *)

MCDbLists == "pg" :> {{"d1"}} @@ "my" :> {{"d1", "d2"}}

Browsed ==
    /\ connections = {"pg"} /\ openConns = {"pg"}
    /\ nodes = "pg" :> ("d1" :> [Closed EXCEPT !.open = TRUE,
           !.schemas = "s1" :> [ClosedSchema EXCEPT !.open = TRUE] @@ "s2" :> ClosedSchema])
    /\ connErrors = {} /\ deleting = Nothing /\ dialog = <<>>
    /\ pending = EmptyBag /\ reloading = FALSE
    /\ openTabs = {QueryTabOf("pg")} /\ shownTab = QueryTabOf("pg") /\ activeConnection = "pg"
    /\ awaited = 2 /\ overwritten = {}

TreeRests == TreeInit /\ connections = {}

-----------------------------------------------------------------------------
(* Chunks and migration files.                                             *)

MCPagesOf == "a" :> <<{1, 2}, {3}>> @@ "b" :> <<{1}>>

MCTableOf == "n1" :> "big" @@ "n2" :> "new"

LintRests == LintInit /\ lint.dialect = "mysql" /\ server.named = {}

-----------------------------------------------------------------------------
(* Query history: one entry is on the list and the panel is still to be    *)
(* opened twice, or nothing was executed and one opening has failed.       *)

PanelAtRest == panelOpen = FALSE /\ loadingHistory = FALSE /\ fetches = {}

OneShown ==
    /\ said = <<1>> /\ feed = <<>> /\ taken = 1
    /\ committed = {1} /\ queryHistory = <<1>> /\ kept = {1}
    /\ panels = 0 /\ PanelAtRest

OnceOpened ==
    /\ Pushes!Init
    /\ committed = {} /\ queryHistory = <<>> /\ kept = {}
    /\ panels = 1 /\ PanelAtRest

-----------------------------------------------------------------------------
PapiRests == PapiInit /\ \A a \in Admins : admin[a].task = "disable"

PartsInit ==
    /\ used \in {"health", "tabs", "tree", "chunks", "lint", "history", "completions",
                 "adapters", "llm", "papi"}
    /\ \/ used = "health" /\ (Init \/ LastAnswer)
       \/ used # "health" /\ HealthRests
    /\ \/ used = "tabs" /\ (TabsUsed \/ ColumnsShown)
       \/ used # "tabs" /\ TabsRest
    /\ \/ used = "tree" /\ (Browsed \/ (TreeInit /\ Cardinality(connections) = 1))
       \/ used # "tree" /\ TreeRests
    /\ \/ used = "lint" /\ LintInit
       \/ used # "lint" /\ LintRests
    /\ \/ used = "history" /\ (OneShown \/ OnceOpened)
       \/ used # "history" /\ HistoryInit
    /\ ChunksInit /\ CompletionsInit
    /\ AdaptersInit /\ LlmInit
    /\ \/ used = "papi" /\ PapiInit
       \/ used # "papi" /\ PapiRests

WindowNext ==
    \/ used = "health" /\ Next
       /\ UNCHANGED <<tabVars, treeVars, chunkVars, lintVars, historyVars, completionVars>>
    \/ used = "tabs" /\ TabsNext
       /\ UNCHANGED <<vars, treeVars, chunkVars, lintVars, historyVars, completionVars>>
    \/ used = "tree" /\ TreeNext
       /\ UNCHANGED <<vars, tabVars, chunkVars, lintVars, historyVars, completionVars>>
    \/ used = "chunks" /\ ChunksNext
       /\ UNCHANGED <<vars, tabVars, treeVars, lintVars, historyVars, completionVars>>
    \/ used = "lint" /\ LintNext
       /\ UNCHANGED <<vars, tabVars, treeVars, chunkVars, historyVars, completionVars>>
    \/ used = "history" /\ HistoryNext
       /\ UNCHANGED <<vars, tabVars, treeVars, chunkVars, lintVars, completionVars>>
    \/ used = "completions" /\ CompletionsNext
       /\ UNCHANGED <<vars, tabVars, treeVars, chunkVars, lintVars, historyVars>>

ServerMoves ==
    \/ used = "adapters" /\ AdaptersMove
    \/ used = "llm" /\ LlmMove
    \/ used = "papi" /\ PapiMove

PartsNext ==
    /\ UNCHANGED used
    /\ \/ WindowNext /\ UNCHANGED serverVars
       \/ ServerMoves /\ UNCHANGED windowVars

PartsSpec == PartsInit /\ [][PartsNext]_partsVars

\* Every part keeps its types.
PartsTyped ==
    /\ TypeOK /\ TabsTyped /\ TreeTyped /\ ChunksTyped /\ LintTyped /\ HistoryTyped /\ CompletionsTyped
    /\ AdaptersTyped /\ LlmTyped /\ PapiTyped

==================================================================================
