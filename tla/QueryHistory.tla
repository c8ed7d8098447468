------------------------------- MODULE QueryHistory -------------------------------
(***************************************************************************)
(* The list of executed queries of a window: the entries that executions   *)
(* leave in the database of the API (history_service.py), announced to     *)
(* every window over the push channel (UserFeed), the store that gathers   *)
(* them (ui/src/store/index.ts) and the panel that, opened, also fetches   *)
(* the latest from the API (QueryHistoryPanel.tsx).                        *)
(*                                                                         *)
(* An entry is named by its place in the order of executed_at; what else   *)
(* it says is data.  Entries of one instant, whose order is that of the    *)
(* lists they come from, are left out, and so are the saved queries that   *)
(* the panel shows beside the list.                                        *)
(***************************************************************************)
EXTENDS Integers, SequencesExt

CONSTANTS
    Executions,         \* entries, numbered by executed_at
    FetchLimit,         \* how many entries the panel asks for
    MaxQueryHistory,    \* MAX_QUERY_HISTORY
    MaxOverlap,         \* bound: executions that an older one may be committed after
    MaxPanels           \* bound: times the panel is opened

ASSUME HistoryAssumption ==
    /\ Executions \subseteq Nat /\ IsFiniteSet(Executions)
    /\ {FetchLimit, MaxQueryHistory} \subseteq Nat \ {0}
    /\ {MaxOverlap, MaxPanels} \subseteq Nat

VARIABLES
    said, feed, taken,  \* the channel (UserFeed)
    committed,          \* the table query_history
    queryHistory,       \* the list of the store, newest first
    panels,             \* times the panel was opened: names the one that is open
    panelOpen,
    loadingHistory,     \* the panel that is open waits for its fetch
    fetches,            \* fetches under way, and the list each will be merged with
    kept                \* followed for the property: entries that were on the list at a
                        \* moment when no fetch was under way

Pushes == INSTANCE UserFeed WITH
    Messages <- Executions, MaxSaid <- Cardinality(Executions)

pushVars == <<said, feed, taken>>
panelVars == <<panels, panelOpen, loadingHistory>>
historyVars == <<pushVars, committed, queryHistory, panelVars, fetches, kept>>

HistoryInit ==
    /\ Pushes!Init
    /\ committed = {}
    /\ queryHistory = <<>>
    /\ panels = 0 /\ panelOpen = FALSE /\ loadingHistory = FALSE
    /\ fetches = {} /\ kept = {}

-----------------------------------------------------------------------------
(* The server.                                                             *)

\* record_execution, to the commit.  executed_at is the start of the transaction, so an
\* entry may appear after later ones.
CommitEntry(e) ==
    /\ e \notin committed
    /\ Cardinality({d \in Executions \ committed : d < e}) <= MaxOverlap
    /\ committed' = committed \union {e}
    /\ UNCHANGED <<pushVars, queryHistory, panelVars, fetches, kept>>

\* Its rest: the entry is announced, from whatever thread and after whichever others.
Announce(e) ==
    /\ e \in committed /\ e \notin ToSet(said)
    /\ Pushes!Say(e)
    /\ UNCHANGED <<committed, queryHistory, panelVars, fetches, kept>>

Newer(entries, e) == {d \in entries : d > e}

\* list_recent
Recent(entries) ==
    {e \in entries : Cardinality(Newer(entries, e)) < FetchLimit}

Serve(f) ==
    /\ ~f.served
    /\ fetches' = (fetches \ {f}) \union {[f EXCEPT !.served = TRUE, !.entries = Recent(committed)]}
    /\ UNCHANGED <<pushVars, committed, queryHistory, panelVars, kept>>

-----------------------------------------------------------------------------
(* The window.                                                             *)

CarryEntry ==
    /\ \/ \E n \in DOMAIN said : Pushes!Put(n)
       \/ Pushes!Lose
    /\ UNCHANGED <<committed, queryHistory, panelVars, fetches, kept>>

\* The list and the fetches become these.
Lists(list, waiting) ==
    /\ queryHistory' = list
    /\ fetches' = waiting
    /\ kept' = IF waiting = {} THEN kept \union ToSet(list) ELSE kept

Capped(list) == SubSeq(list, 1, IF Len(list) < MaxQueryHistory THEN Len(list) ELSE MaxQueryHistory)

\* Mutated form of WithEntry: an entry that is on the list is put there again.
WithEntryAgain(list, e) == Capped(<<e>> \o list)

\* addQueryHistoryEntry
WithEntry(list, e) == IF e \in ToSet(list) THEN list ELSE Capped(<<e>> \o list)

\* query_executed
Executed ==
    /\ Pushes!Take
    /\ Lists(WithEntry(queryHistory, said[Head(feed)]), fetches)
    /\ UNCHANGED <<committed, panelVars>>

\* The panel is opened; the list of that moment is what its answer is merged with.
OpenPanel ==
    /\ ~panelOpen /\ panels < MaxPanels
    /\ panels' = panels + 1 /\ panelOpen' = TRUE /\ loadingHistory' = TRUE
    /\ fetches' = fetches \union
           {[panel |-> panels + 1, base |-> queryHistory, served |-> FALSE, entries |-> {}]}
    /\ UNCHANGED <<pushVars, committed, queryHistory, kept>>

ClosePanel ==
    /\ panelOpen
    /\ panelOpen' = FALSE /\ loadingHistory' = FALSE
    /\ UNCHANGED <<pushVars, committed, queryHistory, panels, fetches, kept>>

NewestFirst(entries) ==
    [k \in 1..Cardinality(entries) |->
        CHOOSE e \in entries : Cardinality(Newer(entries, e)) = k - 1]

\* Mutated form of MergedById: the fetched entries replace the list.
FetchedOnly(list, entries) == NewestFirst(entries)

\* mergeById
MergedById(list, entries) == NewestFirst(ToSet(list) \union entries)

\* finally: the panel that asked waits no more, if it is still there.
StopsLoading(f) ==
    /\ loadingHistory' = (loadingHistory /\ f.panel # panels)
    /\ UNCHANGED <<pushVars, committed, panels, panelOpen>>

Fetched(f) ==
    /\ f.served
    /\ Lists(MergedById(f.base, f.entries), fetches \ {f})
    /\ StopsLoading(f)

FetchFailed(f) ==
    /\ Lists(queryHistory, fetches \ {f})
    /\ StopsLoading(f)

\* What the panel shows.
Shows ==
    IF queryHistory # <<>> THEN "entries" ELSE IF loadingHistory THEN "loading" ELSE "no queries"

-----------------------------------------------------------------------------
HistoryNext ==
    \/ \E e \in Executions : CommitEntry(e) \/ Announce(e)
    \/ CarryEntry \/ Executed
    \/ OpenPanel \/ ClosePanel
    \/ \E f \in fetches : Serve(f) \/ Fetched(f) \/ FetchFailed(f)

HistorySpec == HistoryInit /\ [][HistoryNext]_historyVars

-----------------------------------------------------------------------------
(* Properties.                                                             *)

Fetch == [panel : 1..MaxPanels, base : Seq(Executions), served : BOOLEAN, entries : SUBSET Executions]

HistoryTyped ==
    /\ Pushes!TypeOK
    /\ committed \subseteq Executions
    /\ queryHistory \in Seq(Executions)
    /\ panels \in 0..MaxPanels /\ {panelOpen, loadingHistory} \subseteq BOOLEAN
    /\ \A f \in fetches : f \in Fetch
    /\ kept \subseteq Executions

\* The list is fed by the channel and by fetches, each of which replaces it by what it
\* was when the panel was opened and what the server had since.  An entry is on it at
\* most once, however often it comes, and one that was there while nothing was being
\* fetched stays until the list is full: only what arrives during a fetch can be lost
\* to it.  The panel does not say that no queries have been executed once it had one
\* (addQueryHistoryEntry, mergeById, the effect of QueryHistoryPanel).
HistoryKeeps ==
    /\ IsInjective(queryHistory)
    /\ Len(queryHistory) < MaxQueryHistory => kept \subseteq ToSet(queryHistory)
    /\ Shows = "no queries" => kept = {}

===================================================================================
