----------------------------- MODULE ConnectionTree -----------------------------
(***************************************************************************)
(* The tree of connections, databases and schemas                          *)
(* (ui/src/components/db/ConnectionTree.tsx) and the panel around it       *)
(* (LeftPanel.tsx): what is open, what is listed, what shows a spinner,    *)
(* and what its rows and dialogs do.                                       *)
(*                                                                         *)
(* A handler sees the tree as it was when the row or the dialog was drawn. *)
(* Some handlers write a node they saw then back when their answer comes,  *)
(* over whatever happened to it meanwhile; others change the node there is.*)
(***************************************************************************)
EXTENDS Integers, Sequences, FiniteSets, Bags

CONSTANTS
    Connections,
    SchemaCapable,  \* those whose databases have schemas
    HealthFirst,    \* those whose engine has the health view
    DbLists,        \* the lists of databases a connection may answer with
    Schemas, DefaultSchema,
    MaxTreeCalls    \* bound: calls the tree makes

Nothing == "nothing"
Busy == "busy"
Listing == "__loading"      \* the key that stands for a list of databases under way

Dbs == UNION UNION {DbLists[c] : c \in Connections}

ASSUME TreeAssumption ==
    /\ SchemaCapable \subseteq Connections /\ HealthFirst \subseteq Connections
    /\ DefaultSchema \in Schemas /\ Nothing \notin Schemas
    /\ {Nothing, Listing} \intersect Dbs = {}

VARIABLES
    connections,    \* of the store
    nodes,          \* the component's state: databases known, by connection
    openConns, connErrors,
    deleting,       \* the connection being deleted, at most one is marked
    dialog,         \* what is asked of the user, and about what
    pending,        \* calls under way, each with the node its handler saw
    reloading,      \* a list of connections is under way, at most one is (bound)
    openTabs,       \* tabs of the main area that the tree has opened
    shownTab, activeConnection,
    awaited,        \* calls made so far
    overwritten     \* databases written back over a change, for the properties

treeVars == <<connections, nodes, openConns, connErrors, deleting, dialog, pending, reloading,
              openTabs, shownTab, activeConnection, awaited, overwritten>>

-----------------------------------------------------------------------------
SchemaNode == [open : BOOLEAN, loading : BOOLEAN, error : BOOLEAN]
TreeNode == [open : BOOLEAN, loading : BOOLEAN, error : BOOLEAN,
             schemas : UNION {[S -> SchemaNode] : S \in SUBSET Schemas},
             schemasLoading : BOOLEAN, schemasError : BOOLEAN]

ClosedSchema == [open |-> FALSE, loading |-> FALSE, error |-> FALSE]
Closed == [open |-> FALSE, loading |-> FALSE, error |-> FALSE,
           schemas |-> [s \in {} |-> ClosedSchema],
           schemasLoading |-> FALSE, schemasError |-> FALSE]

NoNodes == [d \in {} |-> Closed]
JustListing == [d \in {Listing} |-> Closed]

Has(c, d) == c \in DOMAIN nodes /\ d \in DOMAIN nodes[c]
HasSchema(node, s) == s \in DOMAIN node.schemas

Assigned(f, k, v) == [x \in DOMAIN f \union {k} |-> IF x = k THEN v ELSE f[x]]

\* The state with one node written, the rest as it is by now.
With(c, d, node) ==
    Assigned(nodes, c, Assigned(IF c \in DOMAIN nodes THEN nodes[c] ELSE NoNodes, d, node))

WithSchema(node, s, schema) == [node EXCEPT !.schemas = Assigned(@, s, schema)]
SchemaOf(node, s, otherwise) == IF HasSchema(node, s) THEN node.schemas[s] ELSE otherwise

TreeCall(kind, c, d, s, node) == [kind |-> kind, conn |-> c, db |-> d, schema |-> s, node |-> node]

QueryTabOf(c) == <<"query", c>>
HealthTabOf(c) == <<"health", c>>

TreeInit ==
    /\ connections \in SUBSET Connections
    /\ nodes = NoNodes /\ openConns = {} /\ connErrors = {}
    /\ deleting = Nothing /\ dialog = <<>>
    /\ pending = EmptyBag /\ reloading = FALSE
    /\ openTabs = {} /\ shownTab = <<>> /\ activeConnection = Nothing
    /\ awaited = 0 /\ overwritten = {}

-----------------------------------------------------------------------------
(* What is drawn, and can be used: nothing below a dialog.                 *)

\* A login is asked for only while its connection is there.
Asked == dialog # <<>> /\ (dialog[1] = "login" => dialog[2] \in connections)
Free == ~Asked

ConnSpins(c) == c \in openConns /\ Has(c, Listing)

DbDrawn(c, d) ==
    /\ c \in connections \intersect openConns
    /\ Has(c, d) /\ d # Listing
    /\ ~Has(c, Listing) /\ c \notin connErrors

DbSpins(c, d) ==
    /\ DbDrawn(c, d) /\ nodes[c][d].open
    /\ IF c \in SchemaCapable THEN nodes[c][d].schemasLoading ELSE nodes[c][d].loading

SchemaDrawn(c, d, s) ==
    /\ c \in SchemaCapable /\ DbDrawn(c, d) /\ nodes[c][d].open
    /\ ~nodes[c][d].schemasLoading /\ ~nodes[c][d].schemasError
    /\ HasSchema(nodes[c][d], s)

SchemaSpins(c, d, s) ==
    SchemaDrawn(c, d, s) /\ nodes[c][d].schemas[s].open /\ nodes[c][d].schemas[s].loading

\* The objects of a database, or of one of its schemas, are listed.
ObjectsDrawn(c, d, s) ==
    IF c \in SchemaCapable
    THEN /\ SchemaDrawn(c, d, s)
         /\ nodes[c][d].schemas[s] = [open |-> TRUE, loading |-> FALSE, error |-> FALSE]
    ELSE /\ s = Nothing /\ DbDrawn(c, d)
         /\ nodes[c][d].open /\ ~nodes[c][d].loading /\ ~nodes[c][d].error

-----------------------------------------------------------------------------
(* Calls.                                                                  *)

Awaits(call) ==
    /\ awaited < MaxTreeCalls
    /\ awaited' = awaited + 1
    /\ pending' = pending (+) SetToBag({call})

Opens(tab) == openTabs' = openTabs \union {tab} /\ shownTab' = tab

TabsStay == UNCHANGED <<openTabs, shownTab, activeConnection>>
RestStays == UNCHANGED <<connections, deleting, reloading, overwritten>>

\* refreshConnDbs, and the listing of a connection opened for the first time.
ListsDatabases(c) ==
    /\ nodes' = Assigned(nodes, c, JustListing)
    /\ connErrors' = connErrors \ {c}
    /\ Awaits(TreeCall("databases", c, Nothing, Nothing, Closed))

\* loadSchemas, and the same for the objects of a database without schemas.
LoadingNode(c, node) ==
    IF c \in SchemaCapable
    THEN [node EXCEPT !.open = TRUE, !.schemasLoading = TRUE, !.schemasError = FALSE]
    ELSE [node EXCEPT !.open = TRUE, !.loading = TRUE, !.error = FALSE]

LoadCall(c, d, node) ==
    TreeCall(IF c \in SchemaCapable THEN "schemas" ELSE "objects", c, d, Nothing, node)

Loads(c, d) ==
    /\ nodes' = With(c, d, LoadingNode(c, nodes[c][d]))
    /\ Awaits(LoadCall(c, d, nodes[c][d]))

ToggleConn(c) ==
    /\ Free /\ c \in connections
    /\ activeConnection' = c
    /\ IF c \in HealthFirst /\ {QueryTabOf(c), HealthTabOf(c)} \intersect openTabs = {}
       THEN Opens(HealthTabOf(c)) ELSE Opens(QueryTabOf(c))
    /\ IF c \in openConns
       THEN openConns' = openConns \ {c} /\ UNCHANGED <<nodes, connErrors, pending, awaited>>
       ELSE /\ openConns' = openConns \union {c}
            /\ IF c \in DOMAIN nodes
               THEN UNCHANGED <<nodes, connErrors, pending, awaited>>
               ELSE ListsDatabases(c)
    /\ RestStays /\ UNCHANGED dialog

RefreshConnDbs(c) ==
    /\ Free /\ c \in connections \intersect openConns
    /\ ListsDatabases(c)
    /\ RestStays /\ TabsStay /\ UNCHANGED <<openConns, dialog>>

\* The query tab of the connection is put at the database, and opened but not shown.
ToggleDb(c, d) ==
    /\ Free /\ DbDrawn(c, d)
    /\ activeConnection' = c
    /\ openTabs' = openTabs \union {QueryTabOf(c)}
    /\ IF nodes[c][d].open
       THEN /\ nodes' = With(c, d, [nodes[c][d] EXCEPT !.open = FALSE])
            /\ UNCHANGED <<pending, awaited>>
       ELSE Loads(c, d)
    /\ RestStays /\ UNCHANGED <<openConns, connErrors, dialog, shownTab>>

RefreshDb(c, d) ==
    /\ Free /\ DbDrawn(c, d)
    /\ Loads(c, d)
    /\ RestStays /\ TabsStay /\ UNCHANGED <<openConns, connErrors, dialog>>

\* The start of toggleSchema: nothing, if the handler saw no such schema.
Opening(c, d, s) ==
    IF Has(c, d)
    THEN With(c, d, WithSchema(nodes[c][d], s, [open |-> TRUE, loading |-> TRUE, error |-> FALSE]))
    ELSE nodes

\* Its retry after an error forces it open.
ToggleSchema(c, d, s) ==
    /\ Free /\ SchemaDrawn(c, d, s)
    /\ LET schema == nodes[c][d].schemas[s]
       IN  \/ /\ schema.open
              /\ nodes' = With(c, d, WithSchema(nodes[c][d], s, [schema EXCEPT !.open = FALSE]))
              /\ UNCHANGED <<pending, awaited>>
           \/ /\ ~schema.open \/ (schema.error /\ ~schema.loading)
              /\ nodes' = Opening(c, d, s)
              /\ Awaits(TreeCall("schema", c, d, s, Closed))
    /\ RestStays /\ TabsStay /\ UNCHANGED <<openConns, connErrors, dialog>>

-----------------------------------------------------------------------------
(* Answers.                                                                *)

\* An answer to call makes the tree newNodes and may cause further calls.
Answer(call, newNodes, more) ==
    /\ nodes' = newNodes
    /\ pending' = (pending (-) SetToBag({call})) (+) more
    /\ UNCHANGED <<connections, openConns, deleting, dialog, reloading, awaited>>
    /\ TabsStay

DatabasesCame(call) ==
    /\ call.kind = "databases"
    /\ \E list \in DbLists[call.conn] :
           Answer(call, Assigned(nodes, call.conn, [d \in list |-> Closed]), EmptyBag)
    /\ UNCHANGED <<connErrors, overwritten>>

\* Mutated form of DatabasesFailed: the mark of the list under way stays.
DatabasesLost(call) ==
    /\ call.kind = "databases"
    /\ Answer(call, nodes, EmptyBag)
    /\ connErrors' = connErrors \union {call.conn}
    /\ UNCHANGED overwritten

DatabasesFailed(call) ==
    /\ call.kind = "databases"
    /\ Answer(call, Assigned(nodes, call.conn, NoNodes), EmptyBag)
    /\ connErrors' = connErrors \union {call.conn}
    /\ UNCHANGED overwritten

ObjectsCame(call) ==
    /\ call.kind = "objects"
    /\ \E failed \in BOOLEAN :
           Answer(call, With(call.conn, call.db,
                      [call.node EXCEPT !.open = TRUE, !.loading = FALSE, !.error = failed]), EmptyBag)
    /\ UNCHANGED <<connErrors, overwritten>>

\* The schemas are put into the node there is, and the default one is opened if the
\* handler saw it: toggleSchema looks at the tree of its own time.
SchemasCame(call) ==
    /\ call.kind = "schemas"
    /\ LET c == call.conn
           d == call.db
           opened == HasSchema(call.node, DefaultSchema)
           fresh == [s \in Schemas |-> ClosedSchema]
           default == IF opened THEN [open |-> TRUE, loading |-> TRUE, error |-> FALSE] ELSE ClosedSchema
       IN  Answer(call,
               IF Has(c, d)
               THEN With(c, d, [nodes[c][d] EXCEPT !.open = TRUE, !.schemasLoading = FALSE,
                            !.schemasError = FALSE, !.schemas = [fresh EXCEPT ![DefaultSchema] = default]])
               ELSE nodes,
               IF opened THEN SetToBag({TreeCall("schema", c, d, DefaultSchema, Closed)}) ELSE EmptyBag)
    /\ UNCHANGED <<connErrors, overwritten>>

SchemasFailed(call) ==
    /\ call.kind = "schemas"
    /\ Answer(call, With(call.conn, call.db, [call.node EXCEPT !.open = TRUE,
                             !.schemasLoading = FALSE, !.schemasError = TRUE]), EmptyBag)
    /\ UNCHANGED <<connErrors, overwritten>>

SchemaCame(call) ==
    /\ call.kind = "schema"
    /\ \E failed \in BOOLEAN :
           Answer(call,
               IF Has(call.conn, call.db)
               THEN With(call.conn, call.db, WithSchema(nodes[call.conn][call.db], call.schema,
                             [open |-> TRUE, loading |-> FALSE, error |-> failed]))
               ELSE nodes, EmptyBag)
    /\ UNCHANGED <<connErrors, overwritten>>

-----------------------------------------------------------------------------
(* Dialogs: a menu and what is chosen of it are one step.                  *)

AskDropDatabase(c, d) ==
    /\ Free /\ DbDrawn(c, d)
    /\ dialog' = <<"drop_database", c, d, Nothing>>
    /\ RestStays /\ TabsStay /\ UNCHANGED <<nodes, openConns, connErrors, pending, awaited>>

AskDropObject(c, d, s) ==
    /\ Free /\ ObjectsDrawn(c, d, s)
    /\ dialog' = <<"drop", c, d, s>>
    /\ RestStays /\ TabsStay /\ UNCHANGED <<nodes, openConns, connErrors, pending, awaited>>

\* "Database Login", from the menu or below an error.
AskLogin(c, d) ==
    /\ Free /\ DbDrawn(c, d)
    /\ dialog' = <<"login", c, d, Nothing>>
    /\ RestStays /\ TabsStay /\ UNCHANGED <<nodes, openConns, connErrors, pending, awaited>>

CancelDialog ==
    /\ Asked
    /\ dialog' = <<>>
    /\ RestStays /\ TabsStay /\ UNCHANGED <<nodes, openConns, connErrors, pending, awaited>>

NodeSeen(c, d) == IF Has(c, d) THEN nodes[c][d] ELSE Closed

\* executeConfirmedAction: the statement is sent; the node is that of now.
ConfirmDialog ==
    /\ Asked /\ dialog[1] \in {"drop_database", "drop"}
    /\ LET c == dialog[2]
           d == dialog[3]
       IN  Awaits(TreeCall(dialog[1], c, d, dialog[4], NodeSeen(c, d)))
    /\ dialog' = <<>>
    /\ RestStays /\ TabsStay /\ UNCHANGED <<nodes, openConns, connErrors>>

\* The login is sent, or taken back; the dialog stays, busy.
SendLogin ==
    /\ Asked /\ dialog[1] = "login" /\ dialog[4] # Busy
    /\ dialog' = [dialog EXCEPT ![4] = Busy]
    /\ Awaits(TreeCall("login", dialog[2], dialog[3], Nothing, NodeSeen(dialog[2], dialog[3])))
    /\ RestStays /\ TabsStay /\ UNCHANGED <<nodes, openConns, connErrors>>

\* It is saved: a dialog for a login goes, and a database that was open when the login was
\* sent is listed anew.
LoginSaved(call) ==
    /\ call.kind = "login"
    /\ LET c == call.conn
           d == call.db
       IN  IF call.node.open
           THEN /\ nodes' = With(c, d, LoadingNode(c, call.node))
                /\ pending' = (pending (-) SetToBag({call})) (+) SetToBag({LoadCall(c, d, call.node)})
           ELSE nodes' = nodes /\ pending' = pending (-) SetToBag({call})
    /\ dialog' = IF dialog # <<>> /\ dialog[1] = "login" THEN <<>> ELSE dialog
    /\ RestStays /\ TabsStay /\ UNCHANGED <<openConns, connErrors, awaited>>

LoginFailed(call) ==
    /\ call.kind = "login"
    /\ dialog' = IF dialog = <<"login", call.conn, call.db, Busy>>
                 THEN [dialog EXCEPT ![4] = Nothing] ELSE dialog
    /\ pending' = pending (-) SetToBag({call})
    /\ RestStays /\ TabsStay /\ UNCHANGED <<nodes, openConns, connErrors, awaited>>

\* The statement has failed, which is said and changes nothing.
StatementFailed(call) ==
    /\ call.kind \in {"drop_database", "drop"}
    /\ Answer(call, nodes, EmptyBag)
    /\ UNCHANGED <<connErrors, overwritten>>

DatabaseDropped(call) ==
    /\ call.kind = "drop_database"
    /\ LET c == call.conn
       IN  /\ Answer(call, Assigned(nodes, c, JustListing),
                     SetToBag({TreeCall("databases", c, Nothing, Nothing, Closed)}))
           /\ connErrors' = connErrors \ {c}
    /\ UNCHANGED overwritten

\* refreshObjectList: the node that was seen when the drop was confirmed is written back.
ObjectDropped(call) ==
    /\ call.kind = "drop"
    /\ LET c == call.conn
           d == call.db
           s == call.schema
           seen == call.node
           marked == IF s = Nothing THEN [seen EXCEPT !.loading = TRUE]
                     ELSE WithSchema(seen, s, [SchemaOf(seen, s, ClosedSchema) EXCEPT !.loading = TRUE])
       IN  IF s # Nothing /\ ~HasSchema(seen, s)
           THEN Answer(call, nodes, EmptyBag) /\ UNCHANGED overwritten
           ELSE /\ Answer(call, With(c, d, marked), SetToBag({TreeCall("relist", c, d, s, seen)}))
                /\ overwritten' = IF Has(c, d) /\ nodes[c][d] = seen THEN overwritten
                                  ELSE overwritten \union {<<c, d>>}
    /\ UNCHANGED connErrors

Relisted(call) ==
    /\ call.kind = "relist"
    /\ LET c == call.conn
           d == call.db
           s == call.schema
           now == nodes[c][d]
       IN  Answer(call,
               IF s = Nothing THEN With(c, d, [call.node EXCEPT !.loading = FALSE])
               ELSE IF Has(c, d)
                    THEN With(c, d, WithSchema(now, s,
                             [SchemaOf(now, s, call.node.schemas[s]) EXCEPT !.loading = FALSE]))
                    ELSE nodes, EmptyBag)
    /\ UNCHANGED <<connErrors, overwritten>>

-----------------------------------------------------------------------------
(* Connections come and go.                                                *)

\* handleDelete: its tabs stay.
Delete(c) ==
    /\ Free /\ c \in connections /\ deleting # c
    /\ deleting' = c
    /\ Awaits(TreeCall("delete", c, Nothing, Nothing, Closed))
    /\ TabsStay /\ UNCHANGED <<connections, nodes, openConns, connErrors, dialog, reloading, overwritten>>

Deleted(call) ==
    /\ call.kind = "delete"
    /\ pending' = pending (-) SetToBag({call})
    /\ deleting' = Nothing
    /\ connections' = connections \ {call.conn}
    /\ activeConnection' = IF activeConnection = call.conn THEN Nothing ELSE activeConnection
    /\ nodes' = [c \in DOMAIN nodes \ {call.conn} |-> nodes[c]]
    /\ openConns' = openConns \ {call.conn}
    /\ UNCHANGED <<connErrors, dialog, reloading, openTabs, shownTab, awaited, overwritten>>

DeleteFailed(call) ==
    /\ call.kind = "delete"
    /\ pending' = pending (-) SetToBag({call})
    /\ deleting' = Nothing
    /\ TabsStay /\ UNCHANGED <<connections, nodes, openConns, connErrors, dialog, reloading, awaited, overwritten>>

\* The panel's Refresh asks for the connections, and resets the tree when they come.
Reload ==
    /\ Free /\ ~reloading
    /\ awaited < MaxTreeCalls /\ awaited' = awaited + 1
    /\ reloading' = TRUE
    /\ TabsStay
    /\ UNCHANGED <<connections, nodes, openConns, connErrors, deleting, dialog, pending, overwritten>>

\* The list may be older than a deletion, or know a connection made elsewhere.
Reloaded(list) ==
    /\ reloading
    /\ connections' = list
    /\ nodes' = NoNodes /\ openConns' = {}
    /\ reloading' = FALSE
    /\ TabsStay
    /\ UNCHANGED <<connErrors, deleting, dialog, pending, awaited, overwritten>>

ReloadFailed ==
    /\ reloading /\ reloading' = FALSE
    /\ TabsStay
    /\ UNCHANGED <<connections, nodes, openConns, connErrors, deleting, dialog, pending, awaited, overwritten>>

TreeNext ==
    \/ \E c \in Connections :
          \/ ToggleConn(c) \/ RefreshConnDbs(c) \/ Delete(c)
          \/ \E d \in Dbs :
                \/ ToggleDb(c, d) \/ RefreshDb(c, d) \/ AskDropDatabase(c, d) \/ AskLogin(c, d)
                \/ \E s \in Schemas : ToggleSchema(c, d, s)
                \/ \E s \in Schemas \union {Nothing} : AskDropObject(c, d, s)
    \/ \E call \in BagToSet(pending) :
          \/ DatabasesCame(call) \/ DatabasesFailed(call) \/ ObjectsCame(call) \/ SchemasCame(call) \/ SchemasFailed(call)
          \/ SchemaCame(call) \/ LoginSaved(call) \/ LoginFailed(call) \/ StatementFailed(call) \/ DatabaseDropped(call)
          \/ ObjectDropped(call) \/ Relisted(call) \/ Deleted(call) \/ DeleteFailed(call)
    \/ CancelDialog \/ ConfirmDialog \/ SendLogin \/ Reload \/ ReloadFailed
    \/ \E list \in SUBSET Connections : Reloaded(list)

TreeSpec == TreeInit /\ [][TreeNext]_treeVars

-----------------------------------------------------------------------------
(* Properties.                                                             *)

Kinds == {"databases", "objects", "schemas", "schema", "drop_database", "drop", "relist", "login",
          "delete"}

TreeTyped ==
    /\ connections \subseteq Connections /\ openConns \subseteq Connections
    /\ DOMAIN nodes \subseteq Connections
    /\ \A c \in DOMAIN nodes : \A d \in DOMAIN nodes[c] :
           d \in Dbs \union {Listing} /\ nodes[c][d] \in TreeNode
    /\ connErrors \subseteq Connections /\ overwritten \subseteq Connections \X Dbs
    /\ deleting \in Connections \union {Nothing}
    /\ \A call \in BagToSet(pending) :
           call.kind \in Kinds /\ call.conn \in Connections /\ call.node \in TreeNode
    /\ openTabs \subseteq {"query", "health"} \X Connections
    /\ shownTab \in openTabs \union {<<>>}
    /\ awaited \in 0..MaxTreeCalls

Underway(kinds, c, d) ==
    \E call \in BagToSet(pending) : call.kind \in kinds /\ call.conn = c /\ call.db = d

\* Whatever is opened, closed, refreshed, dropped, deleted and reloaded while lists are
\* under way, and in whatever order they come: a spinner that is drawn ends, for the call
\* that takes it away is under way.  Only a drop that wrote a node back over a change may
\* bring back one that does not (ConnectionTree: loadSchemas, toggleSchema, toggleDb,
\* refreshDb, refreshConnDbs, refreshObjectList).
SpinnersEnd ==
    \A c \in connections :
        /\ ConnSpins(c) => Underway({"databases"}, c, Nothing)
        /\ \A d \in Dbs : <<c, d>> \notin overwritten =>
               /\ DbSpins(c, d) => Underway({"objects", "schemas", "relist"}, c, d)
               /\ \A s \in Schemas : SchemaSpins(c, d, s) =>
                      \E call \in BagToSet(pending) :
                          /\ call.kind \in {"schema", "relist"}
                          /\ call.conn = c /\ call.db = d /\ call.schema = s

=================================================================================
