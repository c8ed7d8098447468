------------------------------ MODULE PartsProofs -------------------------------
(***************************************************************************)
(* Theorems about the parts of the window and of the server that are not   *)
(* about a migration or a chat, each on its own: what the editor proposes, *)
(* the chunks of a collection, the list of executed queries, the check of  *)
(* a migration file, the tree of connections, and on the server the tokens *)
(* of the generated API, the settings of the language model and the        *)
(* adapters of the connections.  (WindowProofs has the health view and the *)
(* query tabs.)  In all but the check, answers come when they come, and    *)
(* the invariant says what the calls under way are for.                    *)
(***************************************************************************)
EXTENDS WindowProofs, ConnectionTree, ChunksView, QueryHistory, MigrationLint,
    EditorCompletions, ServerState

-----------------------------------------------------------------------------
(* The editor's completions: what it proposes is of the database it is on. *)

\* What has not been told that it was cancelled works for the run that is on screen.
OnlyLastGoesOn ==
    \A r \in registering : ~r.cancelled => /\ r.of = target /\ r.run = effects
                                           /\ target # NoEditorShown

CompletionsInv == CompletionsTyped /\ ProposesOwnNames /\ OnlyLastGoesOn

-----------------------------------------------------------------------------
\* A registration that was told that it was cancelled differs in nothing else.
LEMMA CancelledTyped ==
    ASSUME registering \subseteq Registering
    PROVE  Cancelled \subseteq Registering /\ \A r \in Cancelled : r.cancelled
BY DEF Cancelled, Registering

\* The cleanup takes down the only provider there is.
LEMMA CleanupTakesAll ==
    ASSUME ProposesOwnNames, Cleanup
    PROVE  provided' = {} /\ held' = NoProvider
BY DEF ProposesOwnNames, Cleanup

\* The effect keeps the invariant: all that it leaves going on is its own.
LEMMA RunsKeeps ==
    ASSUME CompletionsInv, NEW t \in Targets, Runs(t)
    PROVE  CompletionsInv'
<1>. USE TargetsAssumption
<1>1. /\ target' = t /\ effects' = effects + 1 /\ effects \in 0..MaxEffects
      /\ effects < MaxEffects /\ provided' = {} /\ held' = NoProvider
      BY CleanupTakesAll DEF CompletionsInv, CompletionsTyped, Runs
<1>2. effects' \in 1..MaxEffects
      BY <1>1
<1>3. Cancelled \subseteq Registering /\ \A r \in Cancelled : r.cancelled
      BY CancelledTyped DEF CompletionsInv, CompletionsTyped
<1>. DEFINE own == [run |-> effects', of |-> t, cancelled |-> FALSE, at |-> "objects"]
<1>4. registering' = IF t \in SqlTargets THEN Cancelled \union {own} ELSE Cancelled
      BY DEF Runs
<1>5. t \in SqlTargets => own \in Registering
      BY <1>2 DEF Registering
<1>. HIDE DEF own
<1>6. registering' \subseteq Registering
      BY <1>3, <1>4, <1>5
<1>7. CompletionsTyped'
      BY <1>1, <1>2, <1>6 DEF CompletionsTyped
<1>8. ProposesOwnNames'
      BY <1>1 DEF ProposesOwnNames
<1>9. t # NoEditorShown
      BY NoEditorIsNoTarget
<1>10. own.run = effects' /\ own.of = target'
      BY <1>1 DEF own
<1>11. OnlyLastGoesOn'
      <2>. SUFFICES ASSUME NEW r \in registering', ~r.cancelled
                    PROVE  r.of = target' /\ r.run = effects' /\ target' # NoEditorShown
           BY DEF OnlyLastGoesOn
      <2>1. r = own
            BY <1>3, <1>4
      <2>. QED  BY <2>1, <1>1, <1>9, <1>10
<1>. QED  BY <1>7, <1>8, <1>11 DEF CompletionsInv

\* Who leaves cancels everything.
LEMMA GoAwayKeeps ==
    ASSUME CompletionsInv, GoAway
    PROVE  CompletionsInv'
<1>1. /\ target' = NoEditorShown /\ effects' = effects /\ registering' = Cancelled
      /\ provided' = {} /\ held' = NoProvider
      BY CleanupTakesAll DEF CompletionsInv, GoAway
<1>2. Cancelled \subseteq Registering /\ \A r \in Cancelled : r.cancelled
      BY CancelledTyped DEF CompletionsInv, CompletionsTyped
<1>3. CompletionsTyped'
      BY <1>1, <1>2 DEF CompletionsInv, CompletionsTyped
<1>4. ProposesOwnNames' /\ OnlyLastGoesOn'
      BY <1>1, <1>2 DEF ProposesOwnNames, OnlyLastGoesOn
<1>. QED  BY <1>3, <1>4 DEF CompletionsInv

\* The tables came or did not: nothing is registered yet.
LEMMA TablesKeep ==
    ASSUME CompletionsInv, NEW r \in registering, TablesCame(r) \/ TablesFailed(r)
    PROVE  CompletionsInv'
<1>1. UNCHANGED <<target, effects, provided, held>>
      BY DEF TablesCame, TablesFailed
<1>. DEFINE further == [r EXCEPT !.at = "columns"]
<1>2. registering' \subseteq registering \union {further}
      /\ (r.cancelled => registering' \subseteq registering)
      BY DEF TablesCame, TablesFailed
<1>3. /\ r \in Registering
      /\ further \in Registering /\ further.cancelled = r.cancelled
      /\ further.of = r.of /\ further.run = r.run
      BY DEF CompletionsInv, CompletionsTyped, Registering
<1>. HIDE DEF further
<1>4. CompletionsTyped'
      BY <1>1, <1>2, <1>3 DEF CompletionsInv, CompletionsTyped
<1>5. ProposesOwnNames'
      BY <1>1 DEF CompletionsInv, ProposesOwnNames
<1>6. OnlyLastGoesOn'
      BY <1>1, <1>2, <1>3 DEF CompletionsInv, OnlyLastGoesOn
<1>. QED  BY <1>4, <1>5, <1>6 DEF CompletionsInv

\* The columns came: whoever registers works for what is on screen, so its provider is
\* the only one.
LEMMA ColumnsKeep ==
    ASSUME CompletionsInv, NEW r \in registering, ColumnsKnown(r)
    PROVE  CompletionsInv'
<1>1. /\ target' = target /\ effects' = effects
      /\ registering' \subseteq registering
      BY DEF ColumnsKnown
<1>2. OnlyLastGoesOn'
      BY <1>1 DEF CompletionsInv, OnlyLastGoesOn
<1>3. CASE r.cancelled
      <2>1. provided' = provided /\ held' = held
            BY <1>3 DEF ColumnsKnown, GoesOn
      <2>2. CompletionsTyped' /\ ProposesOwnNames'
            BY <1>1, <2>1 DEF CompletionsInv, CompletionsTyped, ProposesOwnNames
      <2>. QED  BY <1>2, <2>2 DEF CompletionsInv
<1>4. CASE ~r.cancelled
      <2>. DEFINE provider == [run |-> r.run, of |-> r.of]
      <2>1. r.of = target /\ r.run = effects /\ target # NoEditorShown
            BY <1>4 DEF CompletionsInv, OnlyLastGoesOn
      <2>2. provided' = provided \union {provider} /\ held' = provider
            BY <1>4, <2>1 DEF ColumnsKnown, GoesOn
      <2>3. provider \in Provider /\ provider.of = target /\ provider.run = effects
            BY <2>1 DEF CompletionsInv, CompletionsTyped, Registering, Provider
      <2>4. \A p \in provided : p = provider
            BY <2>1 DEF CompletionsInv, CompletionsTyped, ProposesOwnNames, Provider
      <2>. HIDE DEF provider
      <2>5. CompletionsTyped'
            BY <1>1, <2>2, <2>3 DEF CompletionsInv, CompletionsTyped
      <2>6. ProposesOwnNames'
            BY <1>1, <2>2, <2>3, <2>4 DEF ProposesOwnNames
      <2>. QED  BY <1>2, <2>5, <2>6 DEF CompletionsInv
<1>. QED  BY <1>3, <1>4

-----------------------------------------------------------------------------
\* The providers registered with Monaco are always those of the editor on screen: one at
\* most, and of the connection and database that editor is on.
THEOREM OwnNamesOnly == CompletionsSpec => []ProposesOwnNames
<1>1. CompletionsInit => CompletionsInv
      BY TargetsAssumption DEF CompletionsInit, CompletionsInv, CompletionsTyped, ProposesOwnNames, OnlyLastGoesOn
<1>2. CompletionsInv /\ [CompletionsNext]_completionVars => CompletionsInv'
      <2>. SUFFICES ASSUME CompletionsInv, [CompletionsNext]_completionVars
                    PROVE  CompletionsInv'
           OBVIOUS
      <2>1. CASE \E t \in Targets : TurnTo(t)
            BY <2>1, RunsKeeps DEF TurnTo
      <2>2. CASE GoAway
            BY <2>2, GoAwayKeeps
      <2>3. ASSUME NEW r \in registering, TablesCame(r) \/ TablesFailed(r) \/ ColumnsKnown(r)
            PROVE  CompletionsInv'
            BY <2>3, TablesKeep, ColumnsKeep
      <2>4. CASE UNCHANGED completionVars
            BY <2>4 DEF completionVars, CompletionsInv, CompletionsTyped, ProposesOwnNames, OnlyLastGoesOn
      <2>. QED  BY <2>1, <2>2, <2>3, <2>4 DEF CompletionsNext
<1>3. CompletionsInv => ProposesOwnNames
      BY DEF CompletionsInv
<1>. QED  BY <1>1, <1>2, <1>3, PTL DEF CompletionsSpec

-----------------------------------------------------------------------------
(* The chunks of a collection.                                             *)

\* What a view is, whatever it is of: its fields, and chunks that can be selected.
ViewIs(v) == DOMAIN v = DOMAIN Mounted /\ NoChunk \notin DOMAIN v.chunks

\* A view of a collection: its chunks say what was read under their ids there, and so
\* does what is edited.
ReadHere(v, c) ==
    /\ \A id \in DOMAIN v.chunks : v.chunks[id] = <<c, id>>
    /\ v.editing /\ v.selectedId # NoChunk => v.editPayload = <<c, v.selectedId>>

\* SavedWhereRead, of any store.
AllRight(store) == \A c \in Collections : \A id \in DOMAIN store[c] : store[c][id] = <<c, id>>

StoreIs(store) == DOMAIN store = Collections /\ \A c \in Collections : NoChunk \notin DOMAIN store[c]

SaveIsRight(r) == r.kind = "save" => r.payload = <<r.of, r.id>>

ChunksInv ==
    /\ context \in Collections \union {NoCollection} /\ mixed \in BOOLEAN
    /\ ViewIs(view) /\ (context = NoCollection => view = Mounted)
    /\ StoreIs(stored)
    /\ \A r \in BagToSet(requests) : r.of \in Collections
    /\ ~mixed => /\ AllRight(stored)
                 /\ context # NoCollection => ReadHere(view, context)
                 /\ \A r \in BagToSet(requests) : SaveIsRight(r)

LEMMA BagsChange ==
    ASSUME NEW bag, NEW e
    PROVE  BagToSet(bag (+) SetToBag({e})) = BagToSet(bag) \union {e}
           /\ BagToSet(bag (-) SetToBag({e})) \subseteq BagToSet(bag)
BY DEF BagToSet, SetToBag, (+), (-)

\* A view that was cleared shows nothing and edits nothing.
LEMMA ClearedIs ==
    ASSUME NEW v, ViewIs(v)
    PROVE  /\ ViewIs(Cleared(v)) /\ ViewIs(Rewound(v))
           /\ \A c : ReadHere(Cleared(v), c) /\ ReadHere(Rewound(v), c)
<1>1. ASSUME NEW w, DOMAIN w = DOMAIN Mounted
      PROVE  ViewIs(Cleared(w)) /\ \A c : ReadHere(Cleared(w), c)
  <2>1. DOMAIN Cleared(w) = DOMAIN Mounted /\ Cleared(w).chunks = <<>> /\ Cleared(w).editing = FALSE
    BY <1>1 DEF Cleared, Mounted
  <2> QED
    BY <2>1 DEF ViewIs, ReadHere
<1>2. DOMAIN [v EXCEPT !.cursorStack = <<FirstPage>>, !.pageIdx = 0, !.nextOffset = NoOffset]
          = DOMAIN Mounted
  BY DEF ViewIs
<1> QED
  BY <1>1, <1>2 DEF ViewIs, Rewound

\* A request more, made by a view that shows only what was read.
LEMMA SendsKeeps ==
    ASSUME ChunksInv, NEW others, BagToSet(others) \subseteq BagToSet(requests),
           NEW asking, asking.of \in Collections, ~mixed => SaveIsRight(asking),
           Sends(others, asking), stored' = stored, mixed' = mixed,
           context' \in Collections \union {NoCollection}, ViewIs(view'),
           context' = NoCollection => view' = Mounted,
           ~mixed /\ context' # NoCollection => ReadHere(view', context')
    PROVE  ChunksInv'
<1>1. \A r \in BagToSet(requests') : r \in BagToSet(requests) \/ r = asking
  <2>1. requests' = others (+) SetToBag({asking})
    BY DEF Sends
  <2>2. BagToSet(others (+) SetToBag({asking})) = BagToSet(others) \union {asking}
    BY BagsChange
  <2> QED
    BY <2>1, <2>2 DEF BagToSet
<1> QED
  BY <1>1 DEF ChunksInv

\* An answer, taken by the view that is there.
LEMMA TakesKeeps ==
    ASSUME ChunksInv, NEW r \in BagToSet(requests), NEW v, Takes(r, v), ViewIs(v),
           StoreIs(stored'), ~mixed => AllRight(stored'),
           ~mixed /\ context = r.of /\ context # NoCollection => ReadHere(v, context)
    PROVE  ChunksInv'
<1>1. \A q \in BagToSet(requests') : q \in BagToSet(requests)
  BY BagsChange DEF Takes
<1>2. /\ view' = IF context = NoCollection THEN view ELSE v
      /\ mixed' = (mixed \/ context \notin {NoCollection, r.of}) /\ context' = context
  BY DEF Takes
<1>3. mixed' \in BOOLEAN /\ (~mixed' => ~mixed /\ (context = NoCollection \/ context = r.of))
  BY <1>2 DEF ChunksInv
<1>4. ViewIs(view') /\ (context' = NoCollection => view' = Mounted)
  BY <1>2 DEF ChunksInv
<1>5. ~mixed' /\ context' # NoCollection => ReadHere(view', context')
  BY <1>2, <1>3 DEF ChunksInv
<1> QED
  BY <1>1, <1>2, <1>3, <1>4, <1>5 DEF ChunksInv

\* A view of the same collection, changed by what the user does in it.
LEMMA ActsKeeps ==
    ASSUME ChunksInv, NEW v, Acts(v), ViewIs(v), context # NoCollection,
           ~mixed => ReadHere(v, context)
    PROVE  ChunksInv'
BY DEF Acts, ChunksInv

\* Of what is shown and read.
LEMMA ReadsKeep ==
    ASSUME ChunksInv,
           \/ \E c \in Collections : Show(c)
           \/ Leave \/ Reread \/ NextPage \/ PrevPage
    PROVE  ChunksInv'
<1>1. ViewIs(view) /\ context \in Collections \union {NoCollection}
  BY DEF ChunksInv
<1>2. ViewIs(Mounted)
  BY DEF ViewIs, Mounted
<1>3. ASSUME NEW v, ViewIs(v), view' = Cleared(v) \/ view' = Rewound(v)
      PROVE  ViewIs(view') /\ \A c : ReadHere(view', c)
  BY <1>3, ClearedIs
<1>4. ASSUME NEW c, NEW cursor, Fetches(requests, c, cursor)
      PROVE  \E asking : /\ asking.of = c /\ SaveIsRight(asking)
                          /\ Sends(requests, asking)
  <2> DEFINE asking == [Request("read", c) EXCEPT !.cursor = cursor]
  <2>1. asking.of = c /\ asking.kind = "read"
    BY DEF Request
  <2>2. Sends(requests, asking)
    BY <1>4 DEF Fetches
  <2> QED
    BY <2>1, <2>2 DEF SaveIsRight
<1>5. ASSUME NEW c \in Collections, Show(c)
      PROVE  ChunksInv'
  <2>1. PICK v : v = IF context = NoCollection THEN Mounted ELSE view
    OBVIOUS
  <2>2. context' = c /\ view' = Rewound(v) /\ stored' = stored /\ mixed' = mixed
        /\ Fetches(requests, c, FirstPage)
    BY <1>5, <2>1 DEF Show
  <2>3. ViewIs(v)
    BY <1>1, <1>2, <2>1
  <2>4. ViewIs(view') /\ ReadHere(view', context')
    BY <1>3, <2>2, <2>3
  <2>5. PICK asking : asking.of = c /\ SaveIsRight(asking) /\ Sends(requests, asking)
    BY <1>4, <2>2
  <2> QED
    BY <2>2, <2>4, <2>5, SendsKeeps, PagesAssumption
<1>6. CASE Leave
  BY <1>2, <1>6 DEF Leave, ChunksInv
<1>7. ASSUME context # NoCollection, NEW v, ViewIs(v), NEW cursor,
             view' = Cleared(v) \/ view' = Rewound(v),
             Fetches(requests, context, cursor), UNCHANGED <<context, stored, mixed>>
      PROVE  ChunksInv'
  <2>1. ViewIs(view') /\ ReadHere(view', context)
    BY <1>3, <1>7
  <2>2. PICK asking : asking.of = context /\ SaveIsRight(asking) /\ Sends(requests, asking)
    BY <1>4, <1>7
  <2> QED
    BY <1>1, <1>7, <2>1, <2>2, SendsKeeps
<1>8. CASE Reread
  BY <1>1, <1>7, <1>8 DEF Reread
<1>9. ASSUME Footer
      PROVE  context # NoCollection
  <2>1. DOMAIN Mounted.chunks = {} /\ Mounted.pageIdx = 0
    BY DEF Mounted
  <2> QED
    BY <1>9, <2>1 DEF Footer, ChunksInv
<1>10. CASE NextPage
  <2> DEFINE v == [view EXCEPT
                     !.cursorStack = Append(SubSeq(@, 1, view.pageIdx + 1), view.nextOffset),
                     !.pageIdx = @ + 1]
  <2>1. ViewIs(v)
    BY <1>1 DEF ViewIs, Mounted
  <2>2. /\ Footer /\ view' = Cleared(v) /\ Fetches(requests, context, view.nextOffset)
        /\ UNCHANGED <<context, stored, mixed>>
    BY <1>10 DEF NextPage
  <2> HIDE DEF v
  <2> QED
    BY <1>7, <1>9, <2>1, <2>2
<1>11. CASE PrevPage
  <2> DEFINE v == [view EXCEPT !.pageIdx = @ - 1]
  <2>1. ViewIs(v)
    BY <1>1 DEF ViewIs, Mounted
  <2>2. /\ Footer /\ view' = Cleared(v) /\ Fetches(requests, context, view.cursorStack[view.pageIdx])
        /\ UNCHANGED <<context, stored, mixed>>
    BY <1>11 DEF PrevPage
  <2> HIDE DEF v
  <2> QED
    BY <1>7, <1>9, <2>1, <2>2
<1> QED
  BY <1>5, <1>6, <1>8, <1>10, <1>11

\* Of what the user does with a chunk.
LEMMA ChunkActsKeep ==
    ASSUME ChunksInv,
           \/ \E id \in DOMAIN view.chunks : Select(id)
           \/ StartEdit \/ CancelChunkEdit \/ AskDelete \/ KeepChunk
    PROVE  ChunksInv'
<1>1. /\ DOMAIN view = DOMAIN Mounted /\ NoChunk \notin DOMAIN view.chunks
      /\ ~mixed /\ context # NoCollection => ReadHere(view, context)
  BY DEF ChunksInv, ViewIs
<1>2. ASSUME NEW id \in DOMAIN view.chunks, Select(id)
      PROVE  ChunksInv'
  <2> DEFINE v == [view EXCEPT !.selectedId = id, !.editing = FALSE, !.confirmDelete = FALSE]
  <2>1. DOMAIN v = DOMAIN Mounted /\ v.chunks = view.chunks /\ v.editing = FALSE
    BY <1>1 DEF Mounted
  <2>2. Acts(v)
    BY <1>2, Zenon DEF Select
  <2>3. context # NoCollection
    BY DEF ChunksInv, Mounted
  <2> HIDE DEF v
  <2>4. ViewIs(v) /\ (~mixed => ReadHere(v, context))
    BY <1>1, <2>1, <2>3 DEF ViewIs, ReadHere
  <2> QED
    BY <2>2, <2>3, <2>4, ActsKeeps
<1>3. CASE StartEdit
  <2> DEFINE v == [view EXCEPT !.editPayload = view.chunks[view.selectedId], !.editing = TRUE]
  <2>1. /\ DOMAIN v = DOMAIN Mounted /\ v.chunks = view.chunks /\ v.selectedId = view.selectedId
        /\ v.editPayload = view.chunks[view.selectedId]
    BY <1>1 DEF Mounted
  <2>2. Acts(v) /\ context # NoCollection /\ view.selectedId \in DOMAIN view.chunks
    BY <1>3 DEF StartEdit, selected
  <2> HIDE DEF v
  <2>3. ViewIs(v) /\ (~mixed => ReadHere(v, context))
    BY <1>1, <2>1, <2>2 DEF ViewIs, ReadHere
  <2> QED
    BY <2>2, <2>3, ActsKeeps
<1>4. CASE CancelChunkEdit
  <2> DEFINE v == [view EXCEPT !.editing = FALSE, !.editPayload = <<>>]
  <2>1. DOMAIN v = DOMAIN Mounted /\ v.chunks = view.chunks /\ v.editing = FALSE
    BY <1>1 DEF Mounted
  <2>2. Acts(v) /\ context # NoCollection
    BY <1>4 DEF CancelChunkEdit, selected
  <2> HIDE DEF v
  <2>3. ViewIs(v) /\ (~mixed => ReadHere(v, context))
    BY <1>1, <2>1, <2>2 DEF ViewIs, ReadHere
  <2> QED
    BY <2>2, <2>3, ActsKeeps
<1>5. ASSUME NEW asks \in BOOLEAN, selected, Acts([view EXCEPT !.confirmDelete = asks])
      PROVE  ChunksInv'
  <2> DEFINE v == [view EXCEPT !.confirmDelete = asks]
  <2>1. /\ DOMAIN v = DOMAIN Mounted /\ v.chunks = view.chunks /\ v.selectedId = view.selectedId
        /\ v.editPayload = view.editPayload /\ v.editing = view.editing
    BY <1>1 DEF Mounted
  <2>2. Acts(v) /\ context # NoCollection
    BY <1>5 DEF selected
  <2> HIDE DEF v
  <2>3. ViewIs(v) /\ (~mixed => ReadHere(v, context))
    BY <1>1, <2>1, <2>2 DEF ViewIs, ReadHere
  <2> QED
    BY <2>2, <2>3, ActsKeeps
<1>6. CASE AskDelete
  BY <1>5, <1>6 DEF AskDelete
<1>7. CASE KeepChunk
  BY <1>5, <1>7 DEF KeepChunk
<1> QED
  BY <1>2, <1>3, <1>4, <1>6, <1>7

\* Of what is sent: what is saved is what is edited.
LEMMA ChunkSendsKeep ==
    ASSUME ChunksInv, SaveChunk \/ DeleteChunk \/ UploadFiles
    PROVE  ChunksInv'
<1>1. /\ DOMAIN view = DOMAIN Mounted /\ NoChunk \notin DOMAIN view.chunks
      /\ ~mixed /\ context # NoCollection => ReadHere(view, context)
      /\ context \in Collections \union {NoCollection}
  BY DEF ChunksInv, ViewIs
<1>2. context # NoCollection
  BY DEF SaveChunk, DeleteChunk, UploadFiles, selected
<1>3. ASSUME NEW asking, asking.of = context, ~mixed => SaveIsRight(asking),
             Sends(requests, asking), UNCHANGED <<context, stored, mixed>>,
             DOMAIN view' = DOMAIN Mounted, view'.chunks = view.chunks,
             view'.editing = view.editing, view'.selectedId = view.selectedId,
             view'.editPayload = view.editPayload
      PROVE  ChunksInv'
  <2>1. ViewIs(view') /\ (~mixed => ReadHere(view', context))
    BY <1>1, <1>2, <1>3 DEF ViewIs, ReadHere
  <2> QED
    BY <1>1, <1>2, <1>3, <2>1, SendsKeeps
<1>4. CASE SaveChunk
  <2> DEFINE asking == [Request("save", context) EXCEPT !.id = view.selectedId,
                                                         !.payload = view.editPayload]
  <2>1. asking.of = context /\ asking.id = view.selectedId /\ asking.payload = view.editPayload
    BY DEF Request
  <2>2. /\ Sends(requests, asking) /\ view' = [view EXCEPT !.saving = TRUE]
        /\ UNCHANGED <<context, stored, mixed>>
        /\ view.editing /\ view.selectedId \in DOMAIN view.chunks
    BY <1>4 DEF SaveChunk, selected
  <2> HIDE DEF asking
  <2>3. ~mixed => SaveIsRight(asking)
    BY <1>1, <1>2, <2>1, <2>2 DEF ReadHere, SaveIsRight
  <2>4. /\ DOMAIN view' = DOMAIN Mounted /\ view'.chunks = view.chunks
        /\ view'.editing = view.editing /\ view'.selectedId = view.selectedId
        /\ view'.editPayload = view.editPayload
    BY <1>1, <2>2 DEF Mounted
  <2> QED
    BY <1>3, <2>1, <2>2, <2>3, <2>4
<1>5. CASE DeleteChunk
  <2> DEFINE asking == [Request("delete", context) EXCEPT !.id = view.selectedId]
  <2>1. asking.of = context /\ asking.kind = "delete"
    BY DEF Request
  <2>2. /\ Sends(requests, asking) /\ view' = [view EXCEPT !.deleting = TRUE]
        /\ UNCHANGED <<context, stored, mixed>>
    BY <1>5 DEF DeleteChunk
  <2> HIDE DEF asking
  <2>3. SaveIsRight(asking)
    BY <2>1 DEF SaveIsRight
  <2>4. /\ DOMAIN view' = DOMAIN Mounted /\ view'.chunks = view.chunks
        /\ view'.editing = view.editing /\ view'.selectedId = view.selectedId
        /\ view'.editPayload = view.editPayload
    BY <1>1, <2>2 DEF Mounted
  <2> QED
    BY <1>3, <2>1, <2>2, <2>3, <2>4
<1>6. CASE UploadFiles
  <2>1. Request("upload", context).of = context /\ SaveIsRight(Request("upload", context))
    BY DEF Request, SaveIsRight
  <2> QED
    BY <1>1, <1>3, <1>6, <2>1 DEF UploadFiles
<1> QED
  BY <1>4, <1>5, <1>6

\* Of what the store answers.
LEMMA ChunkAnswersKeep ==
    ASSUME ChunksInv, NEW r \in BagToSet(requests),
           \/ PageCame(r) \/ PageFailed(r) \/ ChunkSaved(r) \/ SaveFailed(r)
           \/ ChunkDeleted(r) \/ ChunkDeleteFailed(r) \/ Uploaded(r) \/ UploadFailed(r)
    PROVE  ChunksInv'
<1>1. /\ DOMAIN view = DOMAIN Mounted /\ NoChunk \notin DOMAIN view.chunks
      /\ ~mixed /\ context # NoCollection => ReadHere(view, context)
      /\ context \in Collections \union {NoCollection}
      /\ r.of \in Collections /\ StoreIs(stored) /\ (~mixed => AllRight(stored))
      /\ ~mixed => SaveIsRight(r)
  BY DEF ChunksInv, ViewIs
<1>2. ASSUME NEW v, Takes(r, v), stored' = stored, DOMAIN v = DOMAIN Mounted,
             v.chunks = view.chunks, v.editing = view.editing,
             v.selectedId = view.selectedId, v.editPayload = view.editPayload
      PROVE  ChunksInv'
  <2>1. ViewIs(v) /\ (~mixed /\ context # NoCollection => ReadHere(v, context))
    BY <1>1, <1>2 DEF ViewIs, ReadHere
  <2> QED
    BY <1>1, <1>2, <2>1, TakesKeeps
<1>3. CASE PageFailed(r)
  <2> DEFINE v == [view EXCEPT !.error = TRUE, !.loading = FALSE]
  <2>1. Takes(r, v) /\ stored' = stored
    BY <1>3 DEF PageFailed
  <2>2. /\ DOMAIN v = DOMAIN Mounted /\ v.chunks = view.chunks /\ v.editing = view.editing
        /\ v.selectedId = view.selectedId /\ v.editPayload = view.editPayload
    BY <1>1 DEF Mounted
  <2> HIDE DEF v
  <2> QED
    BY <1>2, <2>1, <2>2
<1>4. CASE SaveFailed(r)
  <2> DEFINE v == [view EXCEPT !.saving = FALSE]
  <2>1. Takes(r, v) /\ stored' = stored
    BY <1>4 DEF SaveFailed
  <2>2. /\ DOMAIN v = DOMAIN Mounted /\ v.chunks = view.chunks /\ v.editing = view.editing
        /\ v.selectedId = view.selectedId /\ v.editPayload = view.editPayload
    BY <1>1 DEF Mounted
  <2> HIDE DEF v
  <2> QED
    BY <1>2, <2>1, <2>2
<1>5. CASE ChunkDeleteFailed(r)
  <2> DEFINE v == [view EXCEPT !.deleting = FALSE]
  <2>1. Takes(r, v) /\ stored' = stored
    BY <1>5 DEF ChunkDeleteFailed
  <2>2. /\ DOMAIN v = DOMAIN Mounted /\ v.chunks = view.chunks /\ v.editing = view.editing
        /\ v.selectedId = view.selectedId /\ v.editPayload = view.editPayload
    BY <1>1 DEF Mounted
  <2> HIDE DEF v
  <2> QED
    BY <1>2, <2>1, <2>2
<1>6. CASE UploadFailed(r)
  BY <1>6, BagsChange DEF UploadFailed, ChunksInv
<1>7. CASE Uploaded(r)
  <2> DEFINE asking == [Request("read", r.of) EXCEPT !.cursor = FirstPage]
  <2>1. asking.of = r.of /\ asking.kind = "read"
    BY DEF Request
  <2>2. /\ Sends(requests (-) SetToBag({r}), asking) /\ UNCHANGED <<context, stored, mixed>>
        /\ view' = IF context = NoCollection THEN view ELSE Rewound(view)
    BY <1>7 DEF Uploaded, Fetches
  <2> HIDE DEF asking
  <2>3. ViewIs(view) /\ (context = NoCollection => view = Mounted)
    BY DEF ChunksInv
  <2>4. ViewIs(view') /\ (context # NoCollection => ReadHere(view', context))
    BY <2>2, <2>3, ClearedIs
  <2> QED
    BY <1>1, <2>1, <2>2, <2>3, <2>4, BagsChange, SendsKeeps DEF SaveIsRight
<1>8. CASE PageCame(r)
  <2> DEFINE page == IF r.cursor = FirstPage THEN 1 ELSE r.cursor
             ids == IF page \in DOMAIN PagesOf[r.of]
                    THEN PagesOf[r.of][page] \intersect DOMAIN stored[r.of] ELSE {}
             next == IF page < Len(PagesOf[r.of]) THEN page + 1 ELSE NoOffset
             chunks == [id \in ids |-> stored[r.of][id]]
             v == [view EXCEPT !.chunks = chunks, !.loading = FALSE, !.nextOffset = next]
  <2>1. ids \subseteq DOMAIN stored[r.of]
    OBVIOUS
  <2>2. Takes(r, v) /\ stored' = stored
    BY <1>8, Zenon DEF PageCame
  <2>3. DOMAIN chunks = ids /\ \A id \in ids : chunks[id] = stored[r.of][id]
    OBVIOUS
  <2> HIDE DEF chunks, ids, next
  <2>4. /\ DOMAIN v = DOMAIN Mounted /\ v.chunks = chunks /\ v.editing = view.editing
        /\ v.selectedId = view.selectedId /\ v.editPayload = view.editPayload
    BY <1>1 DEF Mounted
  <2> HIDE DEF v
  <2>5. ViewIs(v) /\ (~mixed /\ context = r.of /\ context # NoCollection => ReadHere(v, context))
    <3>1. ViewIs(v)
      BY <1>1, <2>1, <2>3, <2>4 DEF ViewIs, StoreIs
    <3>2. ASSUME ~mixed, context = r.of, context # NoCollection
          PROVE  \A id \in DOMAIN v.chunks : v.chunks[id] = <<context, id>>
      <4>1. \A id \in DOMAIN stored[r.of] : stored[r.of][id] = <<r.of, id>>
        BY <1>1, <3>2 DEF AllRight
      <4> QED
        BY <2>1, <2>3, <2>4, <3>2, <4>1
    <3>3. ASSUME ~mixed, context # NoCollection, v.editing, v.selectedId # NoChunk
          PROVE  v.editPayload = <<context, v.selectedId>>
      BY <1>1, <2>4, <3>3 DEF ReadHere
    <3> QED
      BY <3>1, <3>2, <3>3 DEF ReadHere
  <2> QED
    BY <1>1, <2>2, <2>5, TakesKeeps
<1>9. CASE ChunkSaved(r)
  <2> DEFINE chunks == [id \in DOMAIN view.chunks |-> IF id = r.id THEN r.payload ELSE view.chunks[id]]
             v == [view EXCEPT !.editing = FALSE, !.saving = FALSE, !.chunks = chunks]
             shelf == IF r.id \in DOMAIN stored[r.of]
                      THEN [stored[r.of] EXCEPT ![r.id] = r.payload] ELSE stored[r.of]
  <2>1. Takes(r, v)
    BY <1>1, <1>9 DEF ChunkSaved, Mounted
  <2>2. stored' = [stored EXCEPT ![r.of] = shelf]
    BY <1>9 DEF ChunkSaved
  <2>3. /\ DOMAIN chunks = DOMAIN view.chunks
        /\ \A id \in DOMAIN chunks : chunks[id] = IF id = r.id THEN r.payload ELSE view.chunks[id]
    OBVIOUS
  <2>4. /\ DOMAIN shelf = DOMAIN stored[r.of]
        /\ \A id \in DOMAIN shelf : shelf[id] = IF id = r.id THEN r.payload ELSE stored[r.of][id]
    OBVIOUS
  <2> HIDE DEF chunks, shelf
  <2>5. DOMAIN v = DOMAIN Mounted /\ v.chunks = chunks /\ v.editing = FALSE
    BY <1>1 DEF Mounted
  <2> HIDE DEF v
  <2>6. r.kind = "save"
    BY <1>9 DEF ChunkSaved
  <2>7. ViewIs(v) /\ (~mixed /\ context = r.of /\ context # NoCollection => ReadHere(v, context))
    BY <1>1, <2>3, <2>5, <2>6 DEF ViewIs, ReadHere, SaveIsRight
  <2>8. StoreIs(stored') /\ (~mixed => AllRight(stored'))
    BY <1>1, <2>2, <2>4, <2>6 DEF StoreIs, AllRight, SaveIsRight
  <2> QED
    BY <2>1, <2>7, <2>8, TakesKeeps
<1>10. CASE ChunkDeleted(r)
  <2> DEFINE chunks == [id \in DOMAIN view.chunks \ {r.id} |-> view.chunks[id]]
             v == [view EXCEPT !.selectedId = NoChunk, !.confirmDelete = FALSE, !.deleting = FALSE,
                               !.chunks = chunks]
             shelf == [id \in DOMAIN stored[r.of] \ {r.id} |-> stored[r.of][id]]
  <2>1. Takes(r, v)
    BY <1>1, <1>10 DEF ChunkDeleted, Mounted
  <2>2. stored' = [stored EXCEPT ![r.of] = shelf]
    BY <1>10 DEF ChunkDeleted
  <2>3. /\ DOMAIN chunks \subseteq DOMAIN view.chunks
        /\ \A id \in DOMAIN chunks : chunks[id] = view.chunks[id]
    OBVIOUS
  <2>4. /\ DOMAIN shelf \subseteq DOMAIN stored[r.of]
        /\ \A id \in DOMAIN shelf : shelf[id] = stored[r.of][id]
    OBVIOUS
  <2> HIDE DEF chunks, shelf
  <2>5. DOMAIN v = DOMAIN Mounted /\ v.chunks = chunks /\ v.selectedId = NoChunk
    BY <1>1 DEF Mounted
  <2> HIDE DEF v
  <2>6. ViewIs(v) /\ (~mixed /\ context = r.of /\ context # NoCollection => ReadHere(v, context))
    BY <1>1, <2>3, <2>5 DEF ViewIs, ReadHere
  <2>7. StoreIs(stored') /\ (~mixed => AllRight(stored'))
    BY <1>1, <2>2, <2>4 DEF StoreIs, AllRight
  <2> QED
    BY <2>1, <2>6, <2>7, TakesKeeps
<1> QED
  BY <1>3, <1>4, <1>5, <1>6, <1>7, <1>8, <1>9, <1>10

\* What is saved under the id of a chunk is what was read under it, in the same collection,
\* unless an answer about one collection was taken for another; with any collections, pages
\* and requests under way (startEdit, saveEdit, fetchPage, the answers of deletions and
\* uploads).
THEOREM ChunksAreSavedWhereRead == ChunksSpec => []SavedWhereRead
<1>1. ChunksInit => ChunksInv
  <2> SUFFICES ASSUME ChunksInit PROVE ChunksInv
    OBVIOUS
  <2>1. context = NoCollection /\ view = Mounted /\ mixed = FALSE /\ ViewIs(Mounted)
    BY DEF ChunksInit, ViewIs, Mounted
  <2>2. BagToSet(requests) = {}
    BY DEF ChunksInit, BagToSet, EmptyBag, SetToBag
  <2>3. DOMAIN stored = Collections
        /\ \A c \in Collections :
              /\ DOMAIN stored[c] = UNION {PagesOf[c][k] : k \in DOMAIN PagesOf[c]}
              /\ \A id \in DOMAIN stored[c] : stored[c][id] = <<c, id>>
    BY DEF ChunksInit
  <2>4. ASSUME NEW c \in Collections
        PROVE  NoChunk \notin DOMAIN stored[c]
    <3>1. PagesOf[c] \in Seq(SUBSET (Nat \ {0}))
      BY PagesAssumption
    <3>2. \A k \in DOMAIN PagesOf[c] : PagesOf[c][k] \in SUBSET (Nat \ {0})
      BY <3>1, ListIs
    <3> QED
      BY <2>3, <3>2 DEF NoChunk
  <2> QED
    BY <2>1, <2>2, <2>3, <2>4 DEF ChunksInv, StoreIs, AllRight
<1>2. ChunksInv /\ [ChunksNext]_chunkVars => ChunksInv'
  <2> SUFFICES ASSUME ChunksInv, [ChunksNext]_chunkVars PROVE ChunksInv'
    OBVIOUS
  <2>1. CASE UNCHANGED chunkVars
    BY <2>1 DEF chunkVars, ChunksInv
  <2> QED
    BY <2>1, ReadsKeep, ChunkActsKeep, ChunkSendsKeep, ChunkAnswersKeep DEF ChunksNext
<1>3. ChunksInv => SavedWhereRead
  BY DEF ChunksInv, AllRight, SavedWhereRead
<1> QED
  BY <1>1, <1>2, <1>3, PTL DEF ChunksSpec

-----------------------------------------------------------------------------
(* The list of executed queries.                                           *)

\* Of finitely many entries, as many are newer than one of them as the list says.
LEMMA RanksDiffer ==
    ASSUME NEW S \in SUBSET Executions
    PROVE  /\ IsFiniteSet(S) /\ Cardinality(S) \in Nat
           /\ \A k \in 1..Cardinality(S) : \E e \in S : Cardinality(Newer(S, e)) = k - 1
           /\ \A e \in S : Cardinality(Newer(S, e)) \in 0..(Cardinality(S) - 1)
           /\ \A e, f \in S : Cardinality(Newer(S, e)) = Cardinality(Newer(S, f)) => e = f
<1>1. IsFiniteSet(S) /\ Cardinality(S) \in Nat /\ S \subseteq Nat
  BY FS_Subset, FS_CardinalityType, HistoryAssumption
<1>2. ASSUME NEW e \in S
      PROVE  IsFiniteSet(Newer(S, e)) /\ Cardinality(Newer(S, e)) \in 0..(Cardinality(S) - 1)
  <2>1. Newer(S, e) \in SUBSET (S \ {e})
    BY <1>1 DEF Newer
  <2>2. IsFiniteSet(S \ {e}) /\ Cardinality(S \ {e}) = Cardinality(S) - 1
    BY <1>1, FS_RemoveElement
  <2>3. IsFiniteSet(Newer(S, e)) /\ Cardinality(Newer(S, e)) <= Cardinality(S \ {e})
    BY <2>1, <2>2, FS_Subset
  <2>4. Cardinality(Newer(S, e)) \in Nat
    BY <2>3, FS_CardinalityType
  <2> QED
    BY <1>1, <2>2, <2>3, <2>4
<1>3. ASSUME NEW e \in S, NEW f \in S, e < f
      PROVE  Cardinality(Newer(S, f)) < Cardinality(Newer(S, e))
  <2>1. Newer(S, f) \union {f} \in SUBSET Newer(S, e) /\ f \notin Newer(S, f)
    <3>1. ASSUME NEW d \in S, d > f \/ d = f
          PROVE  d > e
      BY <1>1, <1>3, <3>1
    <3>2. ~(f > f)
      BY <1>1
    <3> QED
      BY <3>1, <3>2 DEF Newer
  <2>2. Cardinality(Newer(S, f) \union {f}) = Cardinality(Newer(S, f)) + 1
    BY <1>2, <2>1, FS_AddElement
  <2>3. Cardinality(Newer(S, f) \union {f}) <= Cardinality(Newer(S, e))
    BY <1>2, <2>1, FS_Subset
  <2> QED
    BY <1>1, <1>2, <2>2, <2>3
<1>4. \A e, f \in S : Cardinality(Newer(S, e)) = Cardinality(Newer(S, f)) => e = f
  <2> SUFFICES ASSUME NEW e \in S, NEW f \in S,
                      Cardinality(Newer(S, e)) = Cardinality(Newer(S, f)), e # f
               PROVE  FALSE
    OBVIOUS
  <2>1. e < f \/ f < e
    BY <1>1
  <2>2. Cardinality(Newer(S, e)) \in Nat /\ Cardinality(Newer(S, f)) \in Nat
    BY <1>1, <1>2
  <2> QED
    BY <1>3, <2>1, <2>2
<1>5. \A k \in 1..Cardinality(S) : \E e \in S : Cardinality(Newer(S, e)) = k - 1
  <2> DEFINE ranks == 0..(Cardinality(S) - 1)
             rank == [e \in S |-> Cardinality(Newer(S, e))]
  <2>1. rank \in Injection(S, ranks)
    BY <1>2, <1>4 DEF Injection, IsInjective
  <2>2. IsFiniteSet(ranks) /\ Cardinality(ranks) = Cardinality(S)
    <3>1. PICK n \in Nat : n = Cardinality(S)
      BY <1>1
    <3>2. IsFiniteSet(0..(n - 1)) /\ Cardinality(0..(n - 1)) = n
      BY FS_Interval
    <3> QED
      BY <3>1, <3>2
  <2>3. rank \in Surjection(S, ranks)
    BY <2>1, <2>2, FS_Injection
  <2>4. ASSUME NEW k \in 1..Cardinality(S)
        PROVE  \E e \in S : Cardinality(Newer(S, e)) = k - 1
    <3>1. k - 1 \in ranks
      BY <1>1
    <3> QED
      BY <2>3, <3>1 DEF Surjection
  <2> QED
    BY <2>4
<1> QED
  BY <1>1, <1>2, <1>4, <1>5

\* The list of entries by their age has each of them once.
LEMMA NewestFirstIs ==
    ASSUME NEW S \in SUBSET Executions
    PROVE  /\ NewestFirst(S) \in Seq(Executions) /\ Len(NewestFirst(S)) = Cardinality(S)
           /\ IsInjective(NewestFirst(S)) /\ ToSet(NewestFirst(S)) = S
<1> DEFINE n == Cardinality(S)
           list == NewestFirst(S)
<1>1. /\ n \in Nat
      /\ \A k \in 1..n : \E e \in S : Cardinality(Newer(S, e)) = k - 1
      /\ \A e \in S : Cardinality(Newer(S, e)) \in 0..(n - 1)
      /\ \A e, f \in S : Cardinality(Newer(S, e)) = Cardinality(Newer(S, f)) => e = f
  BY RanksDiffer
<1>2. /\ DOMAIN list = 1..n /\ list = [k \in 1..n |-> list[k]]
      /\ \A k \in 1..n : list[k] = CHOOSE e \in S : Cardinality(Newer(S, e)) = k - 1
  BY DEF NewestFirst
<1> HIDE DEF n, list
<1>3. \A k \in 1..n : list[k] \in S /\ Cardinality(Newer(S, list[k])) = k - 1
  BY <1>1, <1>2
<1>4. list \in Seq(Executions) /\ Len(list) = n
  <2>1. list \in [1..n -> Executions]
    BY <1>2, <1>3
  <2>2. list \in Seq(Executions)
    BY <1>1, <2>1, SeqDef
  <2> QED
    BY <1>1, <1>2, <2>2, LenProperties
<1>5. IsInjective(list)
  BY <1>1, <1>2, <1>3 DEF IsInjective
<1>6. ASSUME NEW e \in S
      PROVE  \E k \in DOMAIN list : list[k] = e
  <2>1. PICK k \in 1..n : k = Cardinality(Newer(S, e)) + 1
    BY <1>1
  <2>2. Cardinality(Newer(S, list[k])) = Cardinality(Newer(S, e))
    BY <1>1, <1>3, <2>1
  <2> QED
    BY <1>1, <1>2, <1>3, <2>2
<1>7. ToSet(list) = S
  BY <1>2, <1>3, <1>6 DEF ToSet
<1> QED
  BY <1>4, <1>5, <1>7 DEF n, list

\* A list in which nothing is twice is not longer than what is on it.
LEMMA OnceEach ==
    ASSUME NEW list \in Seq(Executions), IsInjective(list)
    PROVE  /\ ToSet(list) \in SUBSET Executions
           /\ IsFiniteSet(ToSet(list)) /\ Len(list) <= Cardinality(ToSet(list))
<1>1. Len(list) \in Nat /\ DOMAIN list = 1..Len(list) /\ \A k \in DOMAIN list : list[k] \in Executions
  BY ListIs
<1>2. ToSet(list) \in SUBSET Executions
  BY <1>1 DEF ToSet
<1>3. IsFiniteSet(ToSet(list))
  BY <1>2, FS_Subset, HistoryAssumption
<1>4. list \in Injection(1..Len(list), ToSet(list))
  <2>1. list = [k \in 1..Len(list) |-> list[k]]
    BY <1>1
  <2>2. list \in [1..Len(list) -> ToSet(list)]
    BY <1>1, <2>1 DEF ToSet
  <2> QED
    BY <1>1, <2>2 DEF Injection, IsInjective
<1>5. Cardinality(1..Len(list)) = Len(list)
  <2>1. \A n \in Nat : Cardinality(1..n) = n
    BY FS_Interval
  <2> QED
    BY <1>1, <2>1
<1> QED
  BY <1>2, <1>3, <1>4, <1>5, FS_Injection

\* A list of the window: nothing is twice on it, and until it is full it has everything
\* that is to be kept.
Holds(list, what) ==
    /\ list \in Seq(Executions) /\ IsInjective(list)
    /\ Len(list) < MaxQueryHistory => what \subseteq ToSet(list)

HistoryInv ==
    /\ said \in Seq(Executions)
    /\ feed \in Seq(Nat) /\ \A k \in DOMAIN feed : feed[k] \in DOMAIN said
    /\ committed \subseteq Executions
    /\ panels \in 0..MaxPanels
    /\ Holds(queryHistory, kept)
    /\ \A f \in fetches : f \in Fetch /\ Holds(f.base, kept)

\* An entry that is not on the list, put there: only a full list loses one for it.
LEMMA WithEntryIs ==
    ASSUME NEW list \in Seq(Executions), IsInjective(list), NEW e \in Executions
    PROVE  /\ WithEntry(list, e) \in Seq(Executions) /\ IsInjective(WithEntry(list, e))
           /\ Len(WithEntry(list, e)) < MaxQueryHistory =>
                 /\ Len(list) < MaxQueryHistory
                 /\ ToSet(list) \subseteq ToSet(WithEntry(list, e))
<1>1. CASE e \in ToSet(list)
  BY <1>1 DEF WithEntry
<1>2. CASE e \notin ToSet(list)
  <2> DEFINE all == <<e>> \o list
             n == IF Len(all) < MaxQueryHistory THEN Len(all) ELSE MaxQueryHistory
             new == SubSeq(all, 1, n)
  <2>1. WithEntry(list, e) = new
    BY <1>2 DEF WithEntry, Capped
  <2>2. /\ Len(list) \in Nat /\ DOMAIN list = 1..Len(list)
        /\ \A k \in DOMAIN list : list[k] \in Executions /\ list[k] # e
    <3>1. \A k \in DOMAIN list : list[k] \in ToSet(list)
      BY DEF ToSet
    <3> QED
      BY <1>2, <3>1, ListIs
  <2>3. <<e>> \in Seq(Executions) /\ Len(<<e>>) = 1 /\ <<e>>[1] = e
    OBVIOUS
  <2>4. /\ all \in Seq(Executions) /\ Len(all) = Len(list) + 1
        /\ all[1] = e /\ \A k \in 1..Len(list) : all[k + 1] = list[k]
    <3>1. /\ all \in Seq(Executions) /\ Len(all) = 1 + Len(list)
          /\ \A k \in 1..(1 + Len(list)) : all[k] = IF k <= 1 THEN <<e>>[k] ELSE list[k - 1]
      BY <2>3, ConcatProperties
    <3> HIDE DEF all
    <3>2. \A k \in 1..Len(list) : k + 1 \in 1..(1 + Len(list)) /\ ~(k + 1 <= 1) /\ (k + 1) - 1 = k
      BY <2>2
    <3>3. \A k \in 1..Len(list) : all[k + 1] = list[k]
      BY <3>1, <3>2
    <3> QED
      BY <2>2, <2>3, <3>1, <3>3
  <2>5. MaxQueryHistory \in Nat /\ MaxQueryHistory > 0
    BY HistoryAssumption
  <2> HIDE DEF all
  <2>6. n \in Nat /\ n <= Len(list) + 1 /\ n > 0 /\ (n < MaxQueryHistory => n = Len(list) + 1)
    BY <2>2, <2>4, <2>5
  <2> HIDE DEF n
  <2>7. /\ new \in Seq(Executions) /\ Len(new) = n /\ DOMAIN new = 1..n
        /\ \A k \in 1..n : new[k] = all[k]
    <3>1. \A k \in 1..n : all[k] \in Executions
      <4>1. DOMAIN all = 1..Len(all) /\ \A k \in DOMAIN all : all[k] \in Executions
        BY <2>4, ListIs
      <4> QED
        BY <2>2, <2>4, <2>6, <4>1
    <3>2. /\ new \in Seq(Executions) /\ Len(new) = n
          /\ \A k \in 1..n : new[k] = all[k]
      BY <2>6, <3>1, SubSeqProperties
    <3> QED
      BY <3>2, ListIs
  <2> HIDE DEF new
  <2>8. ASSUME NEW a \in 1..n, NEW b \in 1..n, a < b
        PROVE  new[a] # new[b]
    <3>1. PICK k \in 1..Len(list) : b = k + 1 /\ new[b] = list[k]
      <4>1. b - 1 \in 1..Len(list) /\ b = (b - 1) + 1
        BY <2>2, <2>6, <2>8
      <4> QED
        BY <2>4, <2>7, <4>1
    <3>2. CASE a = 1
      BY <2>2, <2>4, <2>7, <3>1, <3>2
    <3>3. CASE a # 1
      <4>1. a - 1 \in 1..Len(list) /\ a = (a - 1) + 1 /\ a - 1 # k
        BY <2>2, <2>6, <2>8, <3>1, <3>3
      <4>2. new[a] = list[a - 1]
        BY <2>4, <2>7, <4>1
      <4> QED
        BY <2>2, <3>1, <4>1, <4>2 DEF IsInjective
    <3> QED
      BY <3>2, <3>3
  <2>9. IsInjective(new)
    <3>1. \A a, b \in 1..n : a < b \/ b < a \/ a = b
      BY <2>6
    <3> QED
      BY <2>7, <2>8, <3>1 DEF IsInjective
  <2>10. ASSUME n < MaxQueryHistory
         PROVE  Len(list) < MaxQueryHistory /\ ToSet(list) \subseteq ToSet(new)
    <3>1. n = Len(list) + 1
      BY <2>6, <2>10
    <3>2. ASSUME NEW k \in 1..Len(list)
          PROVE  k + 1 \in DOMAIN new /\ new[k + 1] = list[k]
      BY <2>2, <2>4, <2>7, <3>1
    <3>3. ToSet(list) \subseteq ToSet(new)
      BY <2>2, <3>2 DEF ToSet
    <3> QED
      BY <2>2, <2>5, <2>10, <3>1, <3>3
  <2> QED
    BY <2>1, <2>7, <2>9, <2>10
<1> QED
  BY <1>1, <1>2

\* The list becomes another, and fewer fetches wait: what holds of the new list holds of
\* what is kept from now on, and of those that wait still.
LEMMA ListsKeep ==
    ASSUME HistoryInv, NEW list, Holds(list, kept), NEW waiting \in SUBSET fetches,
           Lists(list, waiting)
    PROVE  /\ Holds(queryHistory', kept')
           /\ \A f \in fetches' : f \in Fetch /\ Holds(f.base, kept')
<1>1. /\ queryHistory' = list /\ fetches' = waiting
      /\ kept' = IF waiting = {} THEN kept \union ToSet(list) ELSE kept
  BY DEF Lists
<1>2. CASE waiting = {}
  BY <1>1, <1>2 DEF Holds
<1>3. CASE waiting # {}
  BY <1>1, <1>3 DEF HistoryInv
<1> QED
  BY <1>2, <1>3

\* query_executed
LEMMA ExecutedKeeps ==
    ASSUME HistoryInv, Executed
    PROVE  HistoryInv'
<1>1. /\ feed # <<>> /\ feed' = Tail(feed) /\ said' = said
      /\ Lists(WithEntry(queryHistory, said[Head(feed)]), fetches)
      /\ committed' = committed /\ panels' = panels
  BY DEF Executed, Pushes!Take, panelVars
<1>2. feed \in Seq(Nat) /\ \A k \in DOMAIN feed : feed[k] \in DOMAIN said
  BY DEF HistoryInv
<1>3. Head(feed) = feed[1] /\ 1 \in DOMAIN feed
  <2>1. Len(feed) \in Nat /\ DOMAIN feed = 1..Len(feed) /\ Len(feed) # 0
    BY <1>1, <1>2, ListIs, EmptySeq
  <2> QED
    BY <1>1, <1>2, <2>1
<1>4. said[Head(feed)] \in Executions
  BY <1>2, <1>3, ListIs DEF HistoryInv
<1>5. PICK e \in Executions : e = said[Head(feed)]
  BY <1>4
<1>6. Holds(queryHistory, kept)
  BY DEF HistoryInv
<1>7. Holds(WithEntry(queryHistory, e), kept)
  <2>1. /\ WithEntry(queryHistory, e) \in Seq(Executions) /\ IsInjective(WithEntry(queryHistory, e))
        /\ Len(WithEntry(queryHistory, e)) < MaxQueryHistory =>
              /\ Len(queryHistory) < MaxQueryHistory
              /\ ToSet(queryHistory) \subseteq ToSet(WithEntry(queryHistory, e))
    BY <1>6, WithEntryIs DEF Holds
  <2> QED
    BY <1>6, <2>1 DEF Holds
<1>8. /\ Holds(queryHistory', kept')
      /\ \A f \in fetches' : f \in Fetch /\ Holds(f.base, kept')
  <2>1. PICK list : list = WithEntry(queryHistory, e)
    OBVIOUS
  <2>2. Lists(list, fetches) /\ Holds(list, kept) /\ fetches \in SUBSET fetches
    BY <1>1, <1>5, <1>7, <2>1
  <2> QED
    BY <2>2, ListsKeep
<1>9. feed' \in Seq(Nat) /\ \A k \in DOMAIN feed' : feed'[k] \in DOMAIN said'
  <2>1. /\ feed' \in Seq(Nat) /\ Len(feed') = Len(feed) - 1
        /\ \A k \in 1..Len(feed') : feed'[k] = feed[k + 1]
    BY <1>1, <1>2, HeadTailProperties
  <2>2. Len(feed) \in Nat /\ DOMAIN feed = 1..Len(feed) /\ DOMAIN feed' = 1..Len(feed')
    BY <1>2, <2>1, ListIs
  <2>3. \A k \in 1..Len(feed') : k + 1 \in 1..Len(feed)
    BY <2>1, <2>2
  <2> QED
    BY <1>1, <1>2, <2>1, <2>2, <2>3
<1> QED
  BY <1>1, <1>8, <1>9 DEF HistoryInv

\* The answer of a fetch: the list of the time it began and what was read since.
LEMMA FetchedKeeps ==
    ASSUME HistoryInv, NEW f \in fetches, Fetched(f) \/ FetchFailed(f)
    PROVE  HistoryInv'
<1>1. f \in Fetch /\ Holds(f.base, kept) /\ Holds(queryHistory, kept)
  BY DEF HistoryInv
<1>2. PICK waiting \in SUBSET fetches : waiting = fetches \ {f}
  OBVIOUS
<1>3. ASSUME NEW list, Holds(list, kept), Lists(list, waiting)
      PROVE  HistoryInv'
  <2>1. /\ Holds(queryHistory', kept')
        /\ \A g \in fetches' : g \in Fetch /\ Holds(g.base, kept')
    BY <1>3, ListsKeep
  <2>2. UNCHANGED <<said, feed, committed, panels>>
    BY DEF Fetched, FetchFailed, StopsLoading, pushVars
  <2> QED
    BY <2>1, <2>2 DEF HistoryInv
<1>4. CASE Fetched(f)
  <2> DEFINE S == ToSet(f.base) \union f.entries
  <2>1. Lists(NewestFirst(S), waiting)
    BY <1>2, <1>4 DEF Fetched, MergedById
  <2>2. f.entries \in SUBSET Executions
    BY <1>1 DEF Fetch
  <2>3. /\ ToSet(f.base) \in SUBSET Executions
        /\ IsFiniteSet(ToSet(f.base)) /\ Len(f.base) <= Cardinality(ToSet(f.base))
    BY <1>1, OnceEach DEF Holds
  <2>4. S \in SUBSET Executions /\ ToSet(f.base) \in SUBSET S
    BY <2>2, <2>3
  <2> HIDE DEF S
  <2>5. IsFiniteSet(S) /\ Cardinality(ToSet(f.base)) <= Cardinality(S)
        /\ Cardinality(S) \in Nat /\ Cardinality(ToSet(f.base)) \in Nat
    BY <2>3, <2>4, FS_Subset, FS_CardinalityType, HistoryAssumption
  <2>6. PICK list : list = NewestFirst(S)
    OBVIOUS
  <2>7. /\ list \in Seq(Executions) /\ Len(list) = Cardinality(S)
        /\ IsInjective(list) /\ ToSet(list) = S
    BY <2>4, <2>6, NewestFirstIs
  <2>8. Len(f.base) \in Nat /\ MaxQueryHistory \in Nat
    BY <1>1, LenProperties, HistoryAssumption DEF Holds
  <2>9. Holds(list, kept)
    <3>1. ASSUME Len(list) < MaxQueryHistory
          PROVE  kept \subseteq ToSet(list)
      <4>1. Len(f.base) < MaxQueryHistory
        BY <2>3, <2>5, <2>7, <2>8, <3>1
      <4> QED
        BY <1>1, <2>4, <2>7, <4>1 DEF Holds
    <3> QED
      BY <2>7, <3>1 DEF Holds
  <2> QED
    BY <1>3, <2>1, <2>6, <2>9
<1>5. CASE FetchFailed(f)
  <2>1. Lists(queryHistory, waiting)
    BY <1>2, <1>5 DEF FetchFailed
  <2>2. PICK list : list = queryHistory
    OBVIOUS
  <2>3. Lists(list, waiting) /\ Holds(list, kept)
    BY <1>1, <2>1, <2>2
  <2> QED
    BY <1>3, <2>3
<1> QED
  BY <1>4, <1>5

\* Of the server and the panel.
LEMMA PanelKeeps ==
    ASSUME HistoryInv, OpenPanel \/ ClosePanel \/ \E f \in fetches : Serve(f)
    PROVE  HistoryInv'
<1>1. CASE OpenPanel
  <2> DEFINE f == [panel |-> panels + 1, base |-> queryHistory, served |-> FALSE, entries |-> {}]
  <2>1. /\ panels < MaxPanels /\ panels' = panels + 1 /\ fetches' = fetches \union {f}
        /\ UNCHANGED <<said, feed, committed, queryHistory, kept>>
    BY <1>1 DEF OpenPanel, pushVars
  <2>2. panels \in Nat /\ panels + 1 \in 1..MaxPanels /\ panels' \in 0..MaxPanels
    BY <2>1, HistoryAssumption DEF HistoryInv
  <2>3. f \in Fetch /\ Holds(f.base, kept)
    BY <2>2 DEF HistoryInv, Fetch, Holds
  <2> HIDE DEF f
  <2> QED
    BY <2>1, <2>2, <2>3 DEF HistoryInv
<1>2. CASE ClosePanel
  BY <1>2 DEF ClosePanel, pushVars, HistoryInv
<1>3. ASSUME NEW f \in fetches, Serve(f)
      PROVE  HistoryInv'
  <2> DEFINE g == [f EXCEPT !.served = TRUE, !.entries = Recent(committed)]
  <2>1. /\ fetches' = (fetches \ {f}) \union {g}
        /\ UNCHANGED <<said, feed, committed, queryHistory, panels, kept>>
    <3>1. fetches' = (fetches \ {f}) \union {g}
      BY <1>3, Zenon DEF Serve
    <3>2. UNCHANGED <<pushVars, committed, queryHistory, panelVars, kept>>
      BY <1>3, Zenon DEF Serve
    <3> QED
      BY <3>1, <3>2 DEF pushVars, panelVars
  <2>2. f \in Fetch /\ Holds(f.base, kept) /\ committed \subseteq Executions
    BY DEF HistoryInv
  <2>3. Recent(committed) \in SUBSET Executions
    BY <2>2 DEF Recent
  <2>4. g \in Fetch /\ g.base = f.base
    BY <2>2, <2>3 DEF Fetch
  <2> HIDE DEF g
  <2> QED
    BY <2>1, <2>2, <2>4 DEF HistoryInv
<1> QED
  BY <1>1, <1>2, <1>3

\* Of the server's side of an execution and of the channel.
LEMMA PushKeeps ==
    ASSUME HistoryInv, CarryEntry \/ \E e \in Executions : CommitEntry(e) \/ Announce(e)
    PROVE  HistoryInv'
<1>1. /\ said \in Seq(Executions) /\ feed \in Seq(Nat)
      /\ \A k \in DOMAIN feed : feed[k] \in DOMAIN said
      /\ Len(said) \in Nat /\ DOMAIN said = 1..Len(said)
      /\ Len(feed) \in Nat /\ DOMAIN feed = 1..Len(feed)
  BY ListIs DEF HistoryInv
<1>2. ASSUME NEW e \in Executions, CommitEntry(e)
      PROVE  HistoryInv'
  BY <1>2 DEF CommitEntry, pushVars, panelVars, HistoryInv
<1>3. ASSUME NEW e \in Executions, Announce(e)
      PROVE  HistoryInv'
  <2>1. said' = Append(said, e) /\ UNCHANGED <<feed, committed, queryHistory, panels, fetches, kept>>
    BY <1>3 DEF Announce, Pushes!Say, panelVars
  <2>2. said' \in Seq(Executions) /\ DOMAIN said' = 1..(Len(said) + 1)
    BY <1>1, <2>1, AppendProperties, ListIs
  <2>3. DOMAIN said \subseteq DOMAIN said'
    BY <1>1, <2>2
  <2> QED
    BY <2>1, <2>2, <2>3 DEF HistoryInv
<1>4. CASE CarryEntry
  <2>1. said' = said /\ UNCHANGED <<committed, queryHistory, panels, fetches, kept>>
    BY <1>4 DEF CarryEntry, Pushes!Put, Pushes!Lose, panelVars
  <2>2. feed' \in Seq(Nat) /\ \A k \in DOMAIN feed' : feed'[k] \in DOMAIN said
    <3>1. ASSUME NEW n \in DOMAIN said, feed' = Append(feed, n)
          PROVE  feed' \in Seq(Nat) /\ \A k \in DOMAIN feed' : feed'[k] \in DOMAIN said
      <4>1. n \in Nat
        BY <1>1
      <4>2. /\ feed' \in Seq(Nat) /\ DOMAIN feed' = 1..(Len(feed) + 1)
            /\ \A k \in 1..Len(feed) : feed'[k] = feed[k]
            /\ feed'[Len(feed) + 1] = n
        BY <1>1, <3>1, <4>1, AppendProperties, ListIs
      <4>3. \A k \in 1..(Len(feed) + 1) : k \in 1..Len(feed) \/ k = Len(feed) + 1
        BY <1>1
      <4> QED
        BY <1>1, <4>2, <4>3
    <3>2. CASE feed' = <<>>
      BY <3>2
    <3> QED
      BY <1>4, <3>1, <3>2 DEF CarryEntry, Pushes!Put, Pushes!Lose
  <2> QED
    BY <2>1, <2>2 DEF HistoryInv
<1> QED
  BY <1>2, <1>3, <1>4

\* The list of executed queries has an entry at most once, keeps until it is full all that
\* was there while nothing was being fetched, and is not said to be empty once it was not;
\* with any number of entries, openings and messages, and any caps (addQueryHistoryEntry,
\* mergeById, the effect of QueryHistoryPanel).
THEOREM HistoryIsKept == HistorySpec => []HistoryKeeps
<1>1. HistoryInit => HistoryInv
  <2> SUFFICES ASSUME HistoryInit PROVE HistoryInv
    OBVIOUS
  <2>1. /\ said = <<>> /\ feed = <<>> /\ committed = {} /\ queryHistory = <<>> /\ panels = 0
        /\ fetches = {} /\ kept = {}
    BY DEF HistoryInit, Pushes!Init
  <2>2. Holds(<<>>, {})
    BY DEF Holds, IsInjective
  <2> QED
    BY <2>1, <2>2, HistoryAssumption DEF HistoryInv
<1>2. HistoryInv /\ [HistoryNext]_historyVars => HistoryInv'
  <2> SUFFICES ASSUME HistoryInv, [HistoryNext]_historyVars PROVE HistoryInv'
    OBVIOUS
  <2>1. CASE UNCHANGED historyVars
    BY <2>1 DEF historyVars, pushVars, panelVars, HistoryInv
  <2> QED
    BY <2>1, PushKeeps, ExecutedKeeps, PanelKeeps, FetchedKeeps DEF HistoryNext
<1>3. HistoryInv => HistoryKeeps
  <2> SUFFICES ASSUME HistoryInv PROVE HistoryKeeps
    OBVIOUS
  <2>1. Holds(queryHistory, kept)
    BY DEF HistoryInv
  <2>2. ASSUME Shows = "no queries"
        PROVE  kept = {}
    <3>1. queryHistory = <<>>
      BY <2>2 DEF Shows
    <3>2. Len(queryHistory) < MaxQueryHistory /\ ToSet(queryHistory) = {}
      BY <3>1, HistoryAssumption DEF ToSet
    <3> QED
      BY <2>1, <3>2 DEF Holds
  <2> QED
    BY <2>1, <2>2, Zenon DEF HistoryKeeps, Holds
<1> QED
  BY <1>1, <1>2, <1>3, PTL DEF HistorySpec

-----------------------------------------------------------------------------
(* The check of a migration file: what it remembers of the file so far is  *)
(* so on the server.                                                       *)

LintRecord ==
    [dialect : {"postgresql", "mysql"}, inTx : BOOLEAN, tx : Nat, created : SUBSET FileTables,
     lockTimeout : BOOLEAN, statementTimeout : BOOLEAN, warned : BOOLEAN,
     notValid : [Constraints -> Int],
     notNullChecks : [Constraints -> {"none", "not_valid", "valid"}],
     fkChecksOff : BOOLEAN, warnedTx : BOOLEAN]

ServerRecord ==
    [inTx : BOOLEAN, tables : SUBSET FileTables, new : SUBSET FileTables, fkChecksOff : BOOLEAN,
     named : SUBSET Constraints, fresh : SUBSET Constraints, valid : SUBSET Constraints]

\* What is remembered of one constraint.  One added NOT VALID in the transaction that goes
\* on is remembered under the transaction's number, unless the file has made its table.
RemembersRightly(c) ==
    /\ lint.notNullChecks[c] # "none" => TableOf[c] \in server.tables \ server.new
    /\ lint.notNullChecks[c] = "valid" => c \in server.valid
    /\ c \in server.fresh => server.inTx /\ (TableOf[c] \notin server.new => lint.notValid[c] = lint.tx)

Remembers ==
    /\ lint \in LintRecord /\ server \in ServerRecord
    /\ lint.inTx = server.inTx /\ lint.created = server.new
    /\ lint.fkChecksOff = server.fkChecksOff /\ server.new \subseteq server.tables
    /\ \A c \in Constraints : RemembersRightly(c)

\* What is said of the last statement is enough if it says stop or check, or if the
\* statement does no harm.
LEMMA SaidIsEnough ==
    ASSUME NEW levels, NEW does, Says(levels, does),
           "stop" \notin levels /\ "check" \notin levels => does \in {"short", "not_followed"}
    PROVE  QuietIsShort'
<1>1. last'.said = levels /\ last'.does = does
  BY DEF Says
<1> QED
  BY <1>1 DEF QuietIsShort

\* Of one that is passed over it is enough that it is short or refused.
LEMMA PassedIsEnough ==
    ASSUME NEW does, PassesOver(does), does \in {"short", "refused"}
    PROVE  QuietIsShort'
<1>1. last'.does = does /\ last'.over = TRUE
  BY DEF PassesOver
<1> QED
  BY <1>1 DEF QuietIsShort

\* A level is among what is said if its condition holds, and only then.
LEMMA IfSays ==
    ASSUME NEW cond \in BOOLEAN, NEW level
    PROVE  /\ level \in If(cond, level) <=> cond
           /\ \A l \in If(cond, level) : l = level
BY DEF If

\* The statements that change neither side keep what is remembered.
LEMMA RestRemembers ==
    ASSUME Remembers, UNCHANGED <<lint, server>>
    PROVE  Remembers'
BY DEF Remembers, RemembersRightly

-----------------------------------------------------------------------------
(* The statements that both dialects remember.                             *)

LEMMA BeginRemembers ==
    ASSUME Remembers, Begin
    PROVE  Remembers' /\ QuietIsShort'
<1>1. /\ lint \in LintRecord /\ server \in ServerRecord /\ ~lint.inTx /\ ~server.inTx
      /\ lint' = [lint EXCEPT !.inTx = TRUE, !.tx = @ + 1]
      /\ server' = [server EXCEPT !.inTx = TRUE]
  BY DEF Begin, Remembers
<1>2. lint' \in LintRecord /\ server' \in ServerRecord
  <2>1. lint.tx + 1 \in Nat
    BY <1>1 DEF LintRecord
  <2>2. lint' \in LintRecord
    BY <1>1, <2>1 DEF LintRecord
  <2>3. server' \in ServerRecord
    BY <1>1 DEF ServerRecord
  <2> QED
    BY <2>2, <2>3
<1>3. /\ lint'.inTx = server'.inTx /\ lint'.created = lint.created /\ server'.new = server.new
      /\ lint'.fkChecksOff = lint.fkChecksOff /\ server'.fkChecksOff = server.fkChecksOff
      /\ server'.tables = server.tables /\ server'.valid = server.valid /\ server'.fresh = server.fresh
      /\ lint'.notNullChecks = lint.notNullChecks
  BY <1>1 DEF LintRecord, ServerRecord
<1>4. ASSUME NEW c \in Constraints
      PROVE  RemembersRightly(c)'
  <2>1. RemembersRightly(c)
    BY DEF Remembers
  <2> QED
    BY <2>1, <1>1, <1>3 DEF RemembersRightly
<1>5. Remembers'
  BY <1>2, <1>3, <1>4 DEF Remembers
<1> QED
  BY <1>5, SaidIsEnough DEF Begin

LEMMA CommitRemembers ==
    ASSUME Remembers, Commit
    PROVE  Remembers' /\ QuietIsShort'
<1>1. /\ lint \in LintRecord /\ server \in ServerRecord
      /\ lint' = [lint EXCEPT !.inTx = FALSE]
      /\ server' = [server EXCEPT !.inTx = FALSE, !.fresh = {}]
  BY DEF Commit, Remembers
<1>2. lint' \in LintRecord /\ server' \in ServerRecord
  BY <1>1 DEF LintRecord, ServerRecord
<1>3. /\ lint'.inTx = server'.inTx /\ lint'.created = lint.created /\ server'.new = server.new
      /\ lint'.fkChecksOff = lint.fkChecksOff /\ server'.fkChecksOff = server.fkChecksOff
      /\ server'.tables = server.tables /\ server'.valid = server.valid /\ server'.fresh = {}
      /\ lint'.notNullChecks = lint.notNullChecks
  BY <1>1 DEF LintRecord, ServerRecord
<1>4. ASSUME NEW c \in Constraints
      PROVE  RemembersRightly(c)'
  <2>1. RemembersRightly(c)
    BY DEF Remembers
  <2> QED
    BY <2>1, <1>3 DEF RemembersRightly
<1>5. Remembers'
  BY <1>2, <1>3, <1>4 DEF Remembers
<1> QED
  BY <1>5, SaidIsEnough DEF Commit

\* A table that was not there has no constraint that is remembered.
LEMMA CreateRemembers ==
    ASSUME Remembers, NEW t \in FileTables, CreateTable(t)
    PROVE  Remembers' /\ QuietIsShort'
<1>1. /\ lint \in LintRecord /\ server \in ServerRecord /\ t \notin server.tables
      /\ lint' = [lint EXCEPT !.created = @ \union {t}]
      /\ server' = [server EXCEPT !.tables = @ \union {t}, !.new = @ \union {t}]
  BY DEF CreateTable, Remembers
<1>2. lint' \in LintRecord /\ server' \in ServerRecord
  BY <1>1 DEF LintRecord, ServerRecord
<1>3. /\ lint'.inTx = lint.inTx /\ lint'.created = lint.created \union {t}
      /\ server'.inTx = server.inTx /\ server'.new = server.new \union {t}
      /\ lint'.fkChecksOff = lint.fkChecksOff /\ server'.fkChecksOff = server.fkChecksOff
      /\ server'.tables = server.tables \union {t}
      /\ server'.valid = server.valid /\ server'.fresh = server.fresh
      /\ lint'.notNullChecks = lint.notNullChecks
      /\ lint'.notValid = lint.notValid /\ lint'.tx = lint.tx
  BY <1>1 DEF LintRecord, ServerRecord
<1>4. ASSUME NEW c \in Constraints
      PROVE  RemembersRightly(c)'
  <2>1. RemembersRightly(c)
    BY DEF Remembers
  <2> QED
    BY <2>1, <1>1, <1>3 DEF RemembersRightly
<1>5. Remembers'
  BY <1>2, <1>3, <1>4 DEF Remembers
<1> QED
  BY <1>5, SaidIsEnough DEF CreateTable

LEMMA TimeoutRemembers ==
    ASSUME Remembers, NEW which \in {"lockTimeout", "statementTimeout"}, NEW on \in BOOLEAN,
           SetTimeout(which, on)
    PROVE  Remembers' /\ QuietIsShort'
<1>1. /\ lint \in LintRecord /\ server' = server
      /\ lint' = [lint EXCEPT ![which] = on]
  BY DEF SetTimeout, Remembers
<1>2. lint' \in LintRecord
  BY <1>1 DEF LintRecord
<1>3. /\ lint'.inTx = lint.inTx /\ lint'.created = lint.created
      /\ lint'.fkChecksOff = lint.fkChecksOff /\ lint'.notNullChecks = lint.notNullChecks
      /\ lint'.notValid = lint.notValid /\ lint'.tx = lint.tx
  BY <1>1 DEF LintRecord
<1>4. Remembers'
  BY <1>1, <1>2, <1>3 DEF Remembers, RemembersRightly
<1> QED
  BY <1>4, SaidIsEnough DEF SetTimeout

LEMMA ChecksRemembers ==
    ASSUME Remembers, NEW off \in BOOLEAN, SetForeignKeyChecks(off)
    PROVE  Remembers' /\ QuietIsShort'
<1>1. /\ lint \in LintRecord /\ server \in ServerRecord
      /\ lint' = [lint EXCEPT !.fkChecksOff = off]
      /\ server' = [server EXCEPT !.fkChecksOff = off]
  BY DEF SetForeignKeyChecks, Remembers
<1>2. lint' \in LintRecord /\ server' \in ServerRecord
  BY <1>1 DEF LintRecord, ServerRecord
<1>3. /\ lint'.inTx = lint.inTx /\ lint'.created = lint.created /\ lint'.fkChecksOff = off
      /\ lint'.notNullChecks = lint.notNullChecks
      /\ lint'.notValid = lint.notValid /\ lint'.tx = lint.tx
  BY <1>1 DEF LintRecord
<1>4. /\ server'.inTx = server.inTx /\ server'.new = server.new /\ server'.fkChecksOff = off
      /\ server'.tables = server.tables /\ server'.valid = server.valid /\ server'.fresh = server.fresh
  BY <1>1 DEF ServerRecord
<1>5. Remembers'
  BY <1>2, <1>3, <1>4 DEF Remembers, RemembersRightly
<1> QED
  BY <1>5, SaidIsEnough DEF SetForeignKeyChecks

-----------------------------------------------------------------------------
(* PostgreSQL.                                                             *)

LEMMA CreateIndexRemembers ==
    ASSUME Remembers, NEW t \in FileTables, NEW concurrently \in BOOLEAN,
           NEW ifNotExists \in BOOLEAN, CreateIndex(t, concurrently, ifNotExists)
    PROVE  Remembers' /\ QuietIsShort'
<1> DEFINE does == IF concurrently THEN IF server.inTx THEN "refused" ELSE "short"
                   ELSE IF t \in server.new THEN "short" ELSE "long"
           levels == IF ~concurrently THEN {"check"}
                     ELSE If(lint.inTx, "stop")
                              \union If(lint.lockTimeout \/ lint.statementTimeout, "check")
                              \union {IF ifNotExists THEN "check" ELSE "note"}
<1>1. Remembers'
  BY RestRemembers DEF CreateIndex
<1>2. lint.created = server.new /\ lint.inTx = server.inTx /\ lint.inTx \in BOOLEAN
  BY DEF Remembers, LintRecord
<1>3. CASE t \in lint.created
  <2>1. does \in {"short", "refused"}
    BY <1>2, <1>3
  <2>2. PassesOver(does)
    BY <1>3, Zenon DEF CreateIndex
  <2> HIDE DEF does
  <2> QED
    BY <1>1, <2>1, <2>2, PassedIsEnough
<1>4. CASE t \notin lint.created
  <2>1. "stop" \notin levels /\ "check" \notin levels => does = "short"
    BY <1>2 DEF If
  <2>2. Says(levels, does)
    BY <1>4, Zenon DEF CreateIndex
  <2> HIDE DEF does, levels
  <2> QED
    BY <1>1, <2>1, <2>2, SaidIsEnough
<1> QED
  BY <1>3, <1>4

LEMMA DropIndexRemembers ==
    ASSUME Remembers, NEW concurrently \in BOOLEAN,
           DropIndex(concurrently) \/ Reindex(concurrently)
    PROVE  Remembers' /\ QuietIsShort'
<1>1. Remembers'
  BY RestRemembers DEF DropIndex, Reindex
<1>2. lint.inTx = server.inTx /\ lint.inTx \in BOOLEAN
  BY DEF Remembers, LintRecord
<1>3. CASE DropIndex(concurrently)
  <2> DEFINE levels == IF concurrently THEN If(lint.inTx, "stop") ELSE {"check"}
             does == IF concurrently /\ server.inTx THEN "refused" ELSE "short"
  <2>1. "stop" \notin levels /\ "check" \notin levels => does = "short"
    BY <1>2 DEF If
  <2>2. Says(levels, does)
    BY <1>3, Zenon DEF DropIndex
  <2> HIDE DEF does, levels
  <2> QED
    BY <1>1, <2>1, <2>2, SaidIsEnough
<1>4. CASE Reindex(concurrently)
  <2> DEFINE levels == IF ~concurrently THEN {"check"} ELSE IF lint.inTx THEN {"stop"} ELSE {"note"}
             does == IF ~concurrently THEN "long" ELSE IF server.inTx THEN "refused" ELSE "short"
  <2>1. "stop" \notin levels /\ "check" \notin levels => does = "short"
    BY <1>2
  <2>2. Says(levels, does)
    BY <1>4, Zenon DEF Reindex
  <2> HIDE DEF does, levels
  <2> QED
    BY <1>1, <2>1, <2>2, SaidIsEnough
<1> QED
  BY <1>3, <1>4


\* An ALTER TABLE is passed over, or changes what it says it remembers and the timeout.
\* It is enough that it is not long where it is neither said to be nor on a new table.
LEMMA AltersIs ==
    ASSUME Remembers, NEW t \in FileTables, NEW levels, NEW l \in LintRecord, NEW does,
           Alters(t, levels, l, does),
           "stop" \notin levels /\ "check" \notin levels => does = "short"
    PROVE  /\ t \in server.tables
           /\ t \in server.new => lint' = lint
           /\ t \notin server.new => lint' = [l EXCEPT !.warned = l.warned \/ NeedsTimeout]
           /\ QuietIsShort'
<1> DEFINE done == IF t \in server.new THEN "short" ELSE does
           told == levels \union If(NeedsTimeout, "note")
<1>1. lint.created = server.new /\ t \in server.tables
  BY DEF Remembers, Alters
<1>2. CASE t \in lint.created
  <2>1. PassesOver(done) /\ lint' = lint
    BY <1>2, Zenon DEF Alters
  <2>2. done = "short"
    BY <1>1, <1>2
  <2> HIDE DEF done
  <2> QED
    BY <1>1, <1>2, <2>1, <2>2, PassedIsEnough
<1>3. CASE t \notin lint.created
  <2>1. Says(told, done) /\ lint' = [l EXCEPT !.warned = @ \/ NeedsTimeout]
    BY <1>3, Zenon DEF Alters
  <2>2. "stop" \notin told /\ "check" \notin told => done = "short"
    BY DEF If
  <2> HIDE DEF told, done
  <2>3. QuietIsShort'
    BY <2>1, <2>2, SaidIsEnough
  <2> QED
    BY <1>1, <1>3, <2>1, <2>3
<1> QED
  BY <1>2, <1>3

\* That a timeout was asked for differs in nothing that the server is compared with.
LEMMA WarnedIs ==
    ASSUME NEW l \in LintRecord, NEW w \in BOOLEAN
    PROVE  LET k == [l EXCEPT !.warned = w]
           IN  /\ k \in LintRecord
               /\ k.inTx = l.inTx /\ k.created = l.created /\ k.fkChecksOff = l.fkChecksOff
               /\ k.tx = l.tx /\ k.notValid = l.notValid /\ k.notNullChecks = l.notNullChecks
BY DEF LintRecord

\* An ALTER TABLE of the file keeps what is remembered if the server's constraints and
\* those of l are still as remembered, and if on a new table those of lint are.
LEMMA AltersRemembers ==
    ASSUME Remembers, NEW t \in FileTables, NEW l \in LintRecord,
           t \in server.new => lint' = lint,
           t \notin server.new => lint' = [l EXCEPT !.warned = l.warned \/ NeedsTimeout],
           l.inTx = lint.inTx, l.created = lint.created, l.fkChecksOff = lint.fkChecksOff,
           l.tx = lint.tx,
           server' \in ServerRecord, server'.inTx = server.inTx, server'.new = server.new,
           server'.tables = server.tables, server'.fkChecksOff = server.fkChecksOff,
           NEW m \in LintRecord, m = IF t \in server.new THEN lint ELSE l,
           \A c \in Constraints :
              /\ m.notNullChecks[c] # "none" => TableOf[c] \in server.tables \ server.new
              /\ m.notNullChecks[c] = "valid" => c \in server'.valid
              /\ c \in server'.fresh => server.inTx /\ (TableOf[c] \notin server.new => m.notValid[c] = lint.tx)
    PROVE  Remembers'
<1>1. /\ lint' \in LintRecord /\ lint'.inTx = lint.inTx /\ lint'.created = lint.created
      /\ lint'.fkChecksOff = lint.fkChecksOff /\ lint'.tx = lint.tx
      /\ lint'.notValid = m.notValid /\ lint'.notNullChecks = m.notNullChecks
  <2>1. CASE t \in server.new
    BY <2>1 DEF Remembers
  <2>2. CASE t \notin server.new
    <3> DEFINE w == l.warned \/ NeedsTimeout
    <3>1. w \in BOOLEAN
      BY Zenon DEF LintRecord, NeedsTimeout, Remembers
    <3>2. lint' = [l EXCEPT !.warned = w]
      BY <2>2
    <3> HIDE DEF w
    <3> QED
      BY <2>2, <3>1, <3>2, WarnedIs
  <2> QED
    BY <2>1, <2>2
<1>2. /\ lint.inTx = server.inTx /\ lint.created = server.new
      /\ lint.fkChecksOff = server.fkChecksOff /\ server.new \subseteq server.tables
  BY DEF Remembers
<1>3. \A c \in Constraints : RemembersRightly(c)'
  BY <1>1 DEF RemembersRightly
<1> QED
  BY <1>1, <1>2, <1>3 DEF Remembers


LEMMA AddCheckRemembers ==
    ASSUME Remembers, NEW c \in Constraints, NEW notValid \in BOOLEAN,
           AddNotNullCheck(c, notValid)
    PROVE  Remembers' /\ QuietIsShort'
<1> DEFINE number == IF ~notValid THEN lint.notValid[c] ELSE IF lint.inTx THEN lint.tx ELSE Outside
           checked == IF notValid THEN "not_valid" ELSE "valid"
           l == [lint EXCEPT !.notValid[c] = number, !.notNullChecks[c] = checked]
           does == IF notValid THEN "short" ELSE "long"
           t == TableOf[c]
           m == IF t \in server.new THEN lint ELSE l
<1>1. lint \in LintRecord /\ server \in ServerRecord /\ t \in FileTables
  BY FileAssumption DEF Remembers
<1>2. /\ number \in Int /\ checked \in {"none", "not_valid", "valid"}
  BY <1>1 DEF LintRecord, Outside
<1>3. Alters(t, If(~notValid, "check"), l, does)
  BY Zenon DEF AddNotNullCheck
<1>4. /\ l \in LintRecord /\ l.inTx = lint.inTx /\ l.created = lint.created
      /\ l.fkChecksOff = lint.fkChecksOff /\ l.tx = lint.tx
      /\ l.notValid = [lint.notValid EXCEPT ![c] = number]
      /\ l.notNullChecks = [lint.notNullChecks EXCEPT ![c] = checked]
  <2> HIDE DEF number, checked
  <2> QED
    BY <1>1, <1>2 DEF LintRecord
<1>5. /\ server' \in ServerRecord /\ server'.inTx = server.inTx /\ server'.new = server.new
      /\ server'.tables = server.tables /\ server'.fkChecksOff = server.fkChecksOff
      /\ server'.fresh = IF notValid /\ server.inTx THEN server.fresh \union {c} ELSE server.fresh
      /\ server'.valid = IF notValid THEN server.valid ELSE server.valid \union {c}
  BY <1>1 DEF AddNotNullCheck, ServerRecord
<1>6. "stop" \notin If(~notValid, "check") /\ "check" \notin If(~notValid, "check") => does = "short"
  BY DEF If
<1> HIDE DEF l, does
<1>7. /\ t \in server.tables
      /\ t \in server.new => lint' = lint
      /\ t \notin server.new => lint' = [l EXCEPT !.warned = l.warned \/ NeedsTimeout]
      /\ QuietIsShort'
  BY <1>1, <1>3, <1>4, <1>6, AltersIs
<1>8. ASSUME NEW d \in Constraints
      PROVE  /\ m.notNullChecks[d] # "none" => TableOf[d] \in server.tables \ server.new
             /\ m.notNullChecks[d] = "valid" => d \in server'.valid
             /\ d \in server'.fresh =>
                   server.inTx /\ (TableOf[d] \notin server.new => m.notValid[d] = lint.tx)
  <2>1. RemembersRightly(d)
    BY DEF Remembers
  <2>2. lint.inTx = server.inTx
    BY DEF Remembers
  <2>3. lint.notValid \in [Constraints -> Int]
        /\ lint.notNullChecks \in [Constraints -> {"none", "not_valid", "valid"}]
    BY <1>1 DEF LintRecord
  <2>4. CASE d # c
    <3>1. m.notNullChecks[d] = lint.notNullChecks[d] /\ m.notValid[d] = lint.notValid[d]
      BY <1>4, <2>3, <2>4
    <3>2. server.valid \subseteq server'.valid /\ (d \in server'.fresh => d \in server.fresh)
      BY <1>5, <2>4
    <3> QED
      BY <2>1, <3>1, <3>2 DEF RemembersRightly
  <2>5. CASE d = c /\ t \in server.new
    BY <2>1, <2>2, <2>5, <1>5 DEF RemembersRightly
  <2>6. CASE d = c /\ t \notin server.new
    <3>1. m.notNullChecks[d] = checked /\ m.notValid[d] = number
      BY <1>4, <2>3, <2>6
    <3>2. d \in server'.fresh => server.inTx /\ number = lint.tx
      BY <1>5, <2>1, <2>2, <2>6 DEF RemembersRightly
    <3>3. checked = "valid" => d \in server'.valid
      BY <1>5, <2>6
    <3>4. TableOf[d] \in server.tables \ server.new
      BY <1>7, <2>6
    <3> HIDE DEF m, checked, number
    <3> QED
      BY <3>1, <3>2, <3>3, <3>4
  <2> QED
    BY <2>4, <2>5, <2>6
<1>9. m \in LintRecord
  BY <1>1, <1>4
<1> HIDE DEF m, t, number, checked
<1>10. t \in FileTables /\ m = IF t \in server.new THEN lint ELSE l
  BY <1>1 DEF m
<1> QED
  BY <1>4, <1>5, <1>7, <1>8, <1>9, <1>10, AltersRemembers

LEMMA DropRemembers ==
    ASSUME Remembers, NEW c \in Constraints, DropConstraint(c)
    PROVE  Remembers' /\ QuietIsShort'
<1> DEFINE l == [lint EXCEPT !.notNullChecks[c] = "none"]
           t == TableOf[c]
           m == IF t \in server.new THEN lint ELSE l
<1>1. lint \in LintRecord /\ server \in ServerRecord /\ t \in FileTables
  BY FileAssumption DEF Remembers
<1>2. Alters(t, {}, l, "short")
  BY Zenon DEF DropConstraint
<1>3. /\ l \in LintRecord /\ l.inTx = lint.inTx /\ l.created = lint.created
      /\ l.fkChecksOff = lint.fkChecksOff /\ l.tx = lint.tx
      /\ l.notValid = lint.notValid
      /\ l.notNullChecks = [lint.notNullChecks EXCEPT ![c] = "none"]
  BY <1>1 DEF LintRecord
<1>4. /\ server' \in ServerRecord /\ server'.inTx = server.inTx /\ server'.new = server.new
      /\ server'.tables = server.tables /\ server'.fkChecksOff = server.fkChecksOff
      /\ server'.fresh = server.fresh \ {c} /\ server'.valid = server.valid \ {c}
  BY <1>1 DEF DropConstraint, ServerRecord
<1> HIDE DEF l
<1>5. /\ t \in server.new => lint' = lint
      /\ t \notin server.new => lint' = [l EXCEPT !.warned = l.warned \/ NeedsTimeout]
      /\ QuietIsShort'
  BY <1>1, <1>2, <1>3, AltersIs
<1>6. ASSUME NEW d \in Constraints
      PROVE  /\ m.notNullChecks[d] # "none" => TableOf[d] \in server.tables \ server.new
             /\ m.notNullChecks[d] = "valid" => d \in server'.valid
             /\ d \in server'.fresh =>
                   server.inTx /\ (TableOf[d] \notin server.new => m.notValid[d] = lint.tx)
  <2>1. RemembersRightly(d)
    BY DEF Remembers
  <2>2. lint.notNullChecks \in [Constraints -> {"none", "not_valid", "valid"}]
    BY <1>1 DEF LintRecord
  <2>3. m.notValid[d] = lint.notValid[d]
    BY <1>3
  <2>4. m.notNullChecks[d] = IF d = c /\ t \notin server.new THEN "none" ELSE lint.notNullChecks[d]
    BY <1>3, <2>2
  <2>5. d # c => (d \in server'.valid <=> d \in server.valid)
    BY <1>4
  <2>6. d \in server'.fresh => d \in server.fresh
    BY <1>4
  <2> QED
    BY <2>1, <2>3, <2>4, <2>5, <2>6 DEF RemembersRightly
<1>7. m \in LintRecord
  BY <1>1, <1>3
<1> HIDE DEF m, t
<1>8. t \in FileTables /\ m = IF t \in server.new THEN lint ELSE l
  BY <1>1 DEF m
<1> QED
  BY <1>3, <1>4, <1>5, <1>6, <1>7, <1>8, AltersRemembers

\* VALIDATE CONSTRAINT.  One that is said to be scanned under no lock of its own was not
\* added in the transaction that goes on.
LEMMA ValidateRemembers ==
    ASSUME Remembers, NEW c \in Constraints, Validate(c)
    PROVE  Remembers' /\ QuietIsShort'
<1> DEFINE does == IF c \in server.fresh /\ TableOf[c] \notin server.new THEN "long" ELSE "short"
           levels == If(lint.inTx /\ lint.notValid[c] = lint.tx, "check")
           l == [lint EXCEPT !.notNullChecks[c] = "valid"]
<1>1. /\ lint \in LintRecord /\ server \in ServerRecord /\ lint.created = server.new
      /\ lint.inTx = server.inTx /\ RemembersRightly(c)
  BY DEF Remembers
<1>2. /\ server' = [server EXCEPT !.valid = @ \union {c}] /\ TableOf[c] \in server.tables
      /\ IF TableOf[c] \in lint.created THEN PassesOver(does) /\ UNCHANGED lint
         ELSE /\ lint' = IF lint.notNullChecks[c] = "none" THEN lint ELSE l
              /\ Says(levels, does)
  BY Zenon DEF Validate
<1>3. /\ server' \in ServerRecord /\ server'.inTx = server.inTx /\ server'.new = server.new
      /\ server'.tables = server.tables /\ server'.fkChecksOff = server.fkChecksOff
      /\ server'.fresh = server.fresh /\ server'.valid = server.valid \union {c}
  BY <1>1, <1>2 DEF ServerRecord
<1>4. /\ l \in LintRecord /\ l.inTx = lint.inTx /\ l.created = lint.created
      /\ l.fkChecksOff = lint.fkChecksOff /\ l.tx = lint.tx
      /\ l.notValid = lint.notValid
      /\ l.notNullChecks = [lint.notNullChecks EXCEPT ![c] = "valid"]
  BY <1>1 DEF LintRecord
<1>5. CASE TableOf[c] \in lint.created
  <2>1. does = "short"
    BY <1>1, <1>5
  <2>2. PassesOver(does) /\ lint' = lint
    BY <1>2, <1>5
  <2>3. \A d \in Constraints : RemembersRightly(d)'
    BY <1>3, <2>2 DEF Remembers, RemembersRightly
  <2>4. Remembers'
    BY <1>3, <2>2, <2>3 DEF Remembers
  <2> HIDE DEF does
  <2> QED
    BY <2>1, <2>2, <2>4, PassedIsEnough
<1>6. CASE TableOf[c] \notin lint.created
  <2>1. Says(levels, does) /\ lint' = IF lint.notNullChecks[c] = "none" THEN lint ELSE l
    BY <1>2, <1>6
  <2>2. "check" \notin levels => does = "short"
    BY <1>1 DEF If, RemembersRightly
  <2>3. /\ lint' \in LintRecord /\ lint'.inTx = lint.inTx /\ lint'.created = lint.created
        /\ lint'.fkChecksOff = lint.fkChecksOff /\ lint'.tx = lint.tx
        /\ lint'.notValid = lint.notValid
    BY <1>1, <1>4, <2>1
  <2>4. ASSUME NEW d \in Constraints
        PROVE  RemembersRightly(d)'
    <3>1. RemembersRightly(d)
      BY DEF Remembers
    <3>2. lint.notNullChecks \in [Constraints -> {"none", "not_valid", "valid"}]
      BY <1>1 DEF LintRecord
    <3>3. /\ lint'.notNullChecks[d] # "none" => lint.notNullChecks[d] # "none"
          /\ lint'.notNullChecks[d] = "valid" => lint.notNullChecks[d] = "valid" \/ d = c
      BY <1>4, <2>1, <3>2
    <3> QED
      BY <1>3, <2>3, <3>1, <3>3 DEF RemembersRightly
  <2>5. Remembers'
    BY <1>3, <2>3, <2>4 DEF Remembers
  <2> HIDE DEF does, levels
  <2> QED
    BY <2>1, <2>2, <2>5, SaidIsEnough
<1> QED
  BY <1>5, <1>6

\* What is said of SET NOT NULL counts on a CHECK that the server has validated.
LEMMA ChangeRemembers ==
    ASSUME Remembers, NEW t \in FileTables, NEW what \in Changes, NEW notValid \in BOOLEAN,
           Change(t, what, notValid)
    PROVE  Remembers' /\ QuietIsShort'
<1> DEFINE proved == \E c \in server.valid : TableOf[c] = t
           levels == IF what = "column" THEN {}
                     ELSE If(what \in LongChanges /\ ~(notValid \/ (what = "set_not_null" /\ Spared(t))), "check")
           does == IF what \in LongChanges /\ ~(notValid \/ (what = "set_not_null" /\ proved))
                   THEN "long" ELSE "short"
<1>1. server' = server /\ Alters(t, levels, lint, does)
  BY Zenon DEF Change
<1>2. Spared(t) => proved
  BY DEF Spared, Remembers, RemembersRightly
<1>3. "check" \notin levels => does = "short"
  BY <1>2 DEF If, LongChanges
<1>4. lint \in LintRecord /\ server \in ServerRecord
  BY DEF Remembers
<1> HIDE DEF levels, does
<1>5. /\ t \in server.new => lint' = lint
      /\ t \notin server.new => lint' = [lint EXCEPT !.warned = lint.warned \/ NeedsTimeout]
      /\ QuietIsShort'
  BY <1>1, <1>3, <1>4, AltersIs
<1>6. \A c \in Constraints :
         /\ lint.notNullChecks[c] # "none" => TableOf[c] \in server.tables \ server.new
         /\ lint.notNullChecks[c] = "valid" => c \in server'.valid
         /\ c \in server'.fresh => server.inTx /\ (TableOf[c] \notin server.new => lint.notValid[c] = lint.tx)
  BY <1>1 DEF Remembers, RemembersRightly
<1> QED
  BY <1>1, <1>4, <1>5, <1>6, AltersRemembers


-----------------------------------------------------------------------------
(* MySQL.                                                                  *)

Modes == {Instant, InPlace, Rebuilt, Shared, Copied}

\* The five ways are ranked one above the other, so any that are possible have a worst.
LEMMA RanksAre ==
    /\ Rank(Instant) = 0 /\ Rank(InPlace) = 1 /\ Rank(Rebuilt) = 2
    /\ Rank(Shared) = 3 /\ Rank(Copied) = 4
BY DEF Rank, Instant, InPlace, Rebuilt, Shared, Copied, Mode

LEMMA ClassifiedIsMode ==
    ASSUME NEW a, NEW actions, NEW off
    PROVE  Classify(a, actions, off) \in Modes
BY Zenon DEF Classify, Modes

LEMMA WorstExists ==
    ASSUME NEW modes \in SUBSET Modes, modes # {}
    PROVE  \E m \in modes : \A n \in modes : Rank(n) <= Rank(m)
<1> USE RanksAre DEF Modes
<1> HIDE DEF Rank, Instant, InPlace, Rebuilt, Shared, Copied
<1>1. CASE Copied \in modes
  BY <1>1
<1>2. CASE Copied \notin modes /\ Shared \in modes
  BY <1>2
<1>3. CASE Copied \notin modes /\ Shared \notin modes /\ Rebuilt \in modes
  BY <1>3
<1>4. CASE modes \subseteq {Instant, InPlace} /\ InPlace \in modes
  BY <1>4
<1>5. CASE modes \subseteq {Instant}
  BY <1>5
<1> QED
  BY <1>1, <1>2, <1>3, <1>4, <1>5

\* The worst of the known actions is a way of one of them, and ranks above all.
LEMMA WorstIs ==
    ASSUME NEW actions, NEW off, Known(actions) # {}
    PROVE  /\ Worst(actions, off) \in Modes
           /\ \A a \in Known(actions) : Rank(Classify(a, actions, off)) <= Rank(Worst(actions, off))
<1> DEFINE modes == {Classify(a, actions, off) : a \in Known(actions)}
<1>1. modes \in SUBSET Modes /\ modes # {}
  BY ClassifiedIsMode
<1>2. \E m \in modes : \A n \in modes : Rank(n) <= Rank(m)
  BY <1>1, WorstExists
<1>3. Worst(actions, off) = CHOOSE m \in modes : \A n \in modes : Rank(n) <= Rank(m)
  BY Zenon DEF Worst
<1>4. Worst(actions, off) \in modes /\ \A n \in modes : Rank(n) <= Rank(Worst(actions, off))
  BY <1>2, <1>3, Zenon
<1> QED
  BY <1>1, <1>4

\* A clause that is not too strict for a way, nor for its lock, is not for one ranked below.
LEMMA LessIsNotStricter ==
    ASSUME NEW m \in Modes, NEW n \in Modes, Rank(n) <= Rank(m), m.lock # "SHARED",
           NEW given \in Clauses, given.algo # "none", ~TooStrict(given, m)
    PROVE  n.lock # "SHARED" /\ ~TooStrict(given, n)
<1>1. m \in {Instant, InPlace, Rebuilt} /\ n \in {Instant, InPlace, Rebuilt}
  <2>1. Shared.lock = "SHARED" /\ Copied.lock = "SHARED"
    BY DEF Shared, Copied, Mode
  <2>2. m \in {Instant, InPlace, Rebuilt}
    BY <2>1 DEF Modes
  <2>3. Rank(n) <= 2
    <3>1. n \in {Instant, InPlace, Rebuilt, Shared, Copied}
      BY DEF Modes
    <3>2. Rank(n) \in Int /\ Rank(m) \in 0..2
      BY <2>2, <3>1, RanksAre
    <3> QED
      BY <3>2
  <2>4. n # Shared /\ n # Copied
    BY <2>3, RanksAre
  <2> QED
    BY <2>2, <2>4 DEF Modes
<1>2. Strength[n.algo] <= Strength[m.algo] /\ n.lock # "SHARED"
  <2>1. m.algo = "INSTANT" => n = Instant
    <3>1. InPlace.algo # "INSTANT" /\ Rebuilt.algo # "INSTANT"
      BY DEF InPlace, Rebuilt, Mode
    <3>2. m.algo = "INSTANT" => m = Instant
      BY <1>1, <3>1
    <3> QED
      BY <1>1, <3>2, RanksAre
  <2>2. n.algo \in {"INSTANT", "INPLACE"} /\ m.algo \in {"INSTANT", "INPLACE"} /\ n.lock # "SHARED"
    BY <1>1 DEF Instant, InPlace, Rebuilt, Mode
  <2>3. n = Instant => n.algo = "INSTANT"
    BY DEF Instant, Mode
  <2> QED
    BY <2>1, <2>2, <2>3 DEF Strength
<1>3. /\ Strength[n.algo] \in Int /\ Strength[m.algo] \in Int /\ Strength[given.algo] \in Int
  <2>1. n.algo \in DOMAIN Strength /\ m.algo \in DOMAIN Strength /\ given.algo \in DOMAIN Strength
    BY <1>1 DEF Instant, InPlace, Rebuilt, Mode, Strength, Clauses
  <2> QED
    BY <2>1 DEF Strength
<1> HIDE DEF Strength
<1> QED
  BY <1>2, <1>3 DEF TooStrict


\* Of the actions of a statement of MySQL that is followed: if what is said is a note, none
\* of their ways is refused or keeps writes waiting.
LEMMA NotesAreRight ==
    ASSUME Remembers, NEW actions \in SUBSET Actions, actions # {}, NEW given \in Clauses,
           NEW modified, SaysOf(actions, given) = {"note"}
    PROVE  Outcome(actions, given, modified) \in {"short", "not_followed"}
<1>1. CASE "unknown" \in actions
  BY <1>1 DEF Outcome
<1>2. CASE "unknown" \notin actions
  <2> DEFINE m == Worst(actions, lint.fkChecksOff)
             looked == given.algo # "none" /\ "modify" \notin actions
             way == {IF a = "modify" THEN modified ELSE Classify(a, actions, server.fkChecksOff) :
                        a \in actions}
  <2>1. Known(actions) = actions
    BY <1>2 DEF Known
  <2>2. /\ m \in Modes
        /\ \A a \in actions : Rank(Classify(a, actions, lint.fkChecksOff)) <= Rank(m)
    BY <2>1, WorstIs
  <2>3. /\ "random_default" \notin actions /\ "modify" \notin actions /\ m.lock # "SHARED"
        /\ ~(looked /\ TooStrict(given, m)) /\ ~(looked /\ given.algo = "COPY")
    <3>1. "stop" \notin SaysOf(actions, given) /\ "check" \notin SaysOf(actions, given)
      OBVIOUS
    <3> HIDE DEF m, looked
    <3>2. SaysOf(actions, given) =
             IF Known(actions) = {} THEN {"note"}
             ELSE IF "random_default" \in actions THEN {"stop"}
             ELSE IF looked /\ TooStrict(given, m) THEN {"stop"}
             ELSE IF \/ looked /\ given.algo = "COPY"
                     \/ "modify" \in actions \/ m.lock = "SHARED"
                     \/ m.algo # "INSTANT" /\ "add_column" \in actions THEN {"check"}
             ELSE {"note"}
      BY Zenon DEF SaysOf, m, looked
    <3> QED
      BY <2>1, <3>1, <3>2
  <2>4. lint.fkChecksOff = server.fkChecksOff
    BY DEF Remembers
  <2>5. ASSUME NEW n \in way
        PROVE  n \in Modes /\ Rank(n) <= Rank(m)
    BY <2>2, <2>3, <2>4, ClassifiedIsMode
  <2> HIDE DEF way, m
  <2>6. given.algo # "none" => ~\E n \in way : TooStrict(given, n)
    BY <2>2, <2>3, <2>5, LessIsNotStricter
  <2>7. ~\E n \in way : n.lock = "SHARED"
    <3> SUFFICES ASSUME NEW n \in way, n.lock = "SHARED" PROVE FALSE
      OBVIOUS
    <3>1. m \in {Instant, InPlace, Rebuilt} /\ n \in {Shared, Copied}
      BY <2>2, <2>3, <2>5 DEF Modes, Instant, InPlace, Rebuilt, Shared, Copied, Mode
    <3> QED
      BY <2>5, <3>1, RanksAre
  <2>8. Outcome(actions, given, modified) =
           IF "unknown" \in actions THEN "not_followed"
           ELSE IF \/ "random_default" \in actions
                   \/ given.algo # "none" /\ \E n \in way : TooStrict(given, n) THEN "refused"
           ELSE IF given.algo = "COPY" \/ \E n \in way : n.lock = "SHARED" THEN "long"
           ELSE "short"
    BY Zenon DEF Outcome, way
  <2>9. given.algo # "COPY"
    BY <2>3
  <2> QED
    BY <1>2, <2>3, <2>6, <2>7, <2>8, <2>9
<1> QED
  BY <1>1, <1>2

\* What is said of the actions of a statement is one level.
LEMMA SaysOneLevel ==
    ASSUME NEW actions, NEW given
    PROVE  SaysOf(actions, given) \in {{"note"}, {"check"}, {"stop"}}
BY Zenon DEF SaysOf

LEMMA AlterMysqlRemembers ==
    ASSUME Remembers, NEW t \in FileTables, NEW actions \in SUBSET Actions, actions # {},
           NEW given \in Clauses, AlterMysql(t, actions, given)
    PROVE  Remembers' /\ QuietIsShort'
<1>1. CASE t \in lint.created
  <2>1. PassesOver("short") /\ UNCHANGED <<lint, server>>
    BY <1>1, Zenon DEF AlterMysql
  <2> QED
    BY <2>1, RestRemembers, PassedIsEnough
<1>2. CASE t \notin lint.created
  <2> DEFINE l == [lint EXCEPT !.warned = @ \/ NeedsTimeout, !.warnedTx = @ \/ lint.inTx]
             noted == If(NeedsTimeout \/ (lint.inTx /\ ~lint.warnedTx), "note")
  <2>1. /\ server' = server /\ lint' = l
        /\ \E modified : Says(noted \union SaysOf(actions, given), Outcome(actions, given, modified))
    BY <1>2, Zenon DEF AlterMysql
  <2>2. PICK modified :
           Says(noted \union SaysOf(actions, given), Outcome(actions, given, modified))
    BY <2>1
  <2> DEFINE levels == noted \union SaysOf(actions, given)
             does == Outcome(actions, given, modified)
  <2>3. "stop" \notin levels /\ "check" \notin levels => does \in {"short", "not_followed"}
    BY SaysOneLevel, NotesAreRight
  <2>4. QuietIsShort'
    <3> HIDE DEF levels, does
    <3>1. Says(levels, does)
      BY <2>2 DEF levels, does
    <3> QED
      BY <2>3, <3>1, SaidIsEnough
  <2>5. lint \in LintRecord
    BY DEF Remembers
  <2>6. /\ l \in LintRecord /\ l.inTx = lint.inTx /\ l.created = lint.created
        /\ l.fkChecksOff = lint.fkChecksOff /\ l.tx = lint.tx
        /\ l.notValid = lint.notValid /\ l.notNullChecks = lint.notNullChecks
    BY <2>5 DEF LintRecord, NeedsTimeout
  <2> HIDE DEF l
  <2>7. Remembers'
    BY <2>1, <2>6 DEF Remembers, RemembersRightly
  <2> QED
    BY <2>4, <2>7
<1> QED
  BY <1>1, <1>2

-----------------------------------------------------------------------------
\* A statement of which the check of a migration file says nothing but notes keeps no write
\* waiting and is not refused, whatever the file did before it: with any tables, any
\* constraints and any number of transactions (checkMigration, checkMysql).
THEOREM QuietStatementsAreShort == LintSpec => []QuietIsShort
<1>1. LintInit => Remembers /\ QuietIsShort
  <2> SUFFICES ASSUME LintInit PROVE Remembers /\ QuietIsShort
    OBVIOUS
  <2>1. QuietIsShort
    BY DEF LintInit, QuietIsShort
  <2>2. /\ lint \in LintRecord /\ lint.inTx = FALSE /\ lint.created = {} /\ lint.fkChecksOff = FALSE
        /\ \A c \in Constraints : lint.notNullChecks[c] = "none"
    <3> DEFINE numbers == [c \in Constraints |-> Unnamed]
               checks == [c \in Constraints |-> "none"]
    <3>1. lint \in [dialect : {"postgresql", "mysql"}, inTx : {FALSE}, tx : {0}, created : {{}},
                    lockTimeout : {FALSE}, statementTimeout : {FALSE}, warned : {FALSE},
                    notValid : {numbers}, notNullChecks : {checks},
                    fkChecksOff : {FALSE}, warnedTx : {FALSE}]
      BY DEF LintInit
    <3>2. /\ numbers \in [Constraints -> Int]
          /\ checks \in [Constraints -> {"none", "not_valid", "valid"}]
          /\ \A c \in Constraints : checks[c] = "none"
      BY DEF Unnamed
    <3> HIDE DEF numbers, checks
    <3>3. /\ lint.inTx = FALSE /\ lint.created = {} /\ lint.fkChecksOff = FALSE
          /\ lint.notNullChecks = checks
      BY <3>1
    <3>4. lint \in [dialect : {"postgresql", "mysql"}, inTx : BOOLEAN, tx : {0},
                    created : SUBSET FileTables, lockTimeout : BOOLEAN,
                    statementTimeout : BOOLEAN, warned : BOOLEAN,
                    notValid : {numbers}, notNullChecks : {checks},
                    fkChecksOff : BOOLEAN, warnedTx : BOOLEAN]
      BY <3>1
    <3>5. lint \in LintRecord
      BY <3>2, <3>4 DEF LintRecord
    <3> QED
      BY <3>2, <3>3, <3>5
  <2>3. /\ server \in ServerRecord /\ server.inTx = FALSE /\ server.new = {}
        /\ server.fkChecksOff = FALSE /\ server.fresh = {}
    BY FileAssumption DEF LintInit, ServerRecord
  <2> QED
    BY <2>1, <2>2, <2>3 DEF Remembers, RemembersRightly
<1>2. Remembers /\ QuietIsShort /\ [LintNext]_lintVars => Remembers' /\ QuietIsShort'
  <2> SUFFICES ASSUME Remembers, QuietIsShort, [LintNext]_lintVars
               PROVE  Remembers' /\ QuietIsShort'
    OBVIOUS
  <2>1. CASE UNCHANGED lintVars
    BY <2>1, RestRemembers DEF lintVars, QuietIsShort
  <2>2. CASE Begin \/ Commit
    BY <2>2, BeginRemembers, CommitRemembers
  <2>3. CASE \E t \in FileTables : CreateTable(t)
    BY <2>3, CreateRemembers
  <2>4. CASE \E on \in BOOLEAN : SetTimeout("lockTimeout", on) \/ SetTimeout("statementTimeout", on)
                                 \/ SetForeignKeyChecks(on)
    BY <2>4, TimeoutRemembers, ChecksRemembers
  <2>5. CASE \E concurrently \in BOOLEAN : DropIndex(concurrently) \/ Reindex(concurrently)
    BY <2>5, DropIndexRemembers
  <2>6. CASE \E t \in FileTables, concurrently, ifNotExists \in BOOLEAN :
                CreateIndex(t, concurrently, ifNotExists)
    BY <2>6, CreateIndexRemembers
  <2>7. CASE \E c \in Constraints : Validate(c) \/ DropConstraint(c)
                                    \/ \E notValid \in BOOLEAN : AddNotNullCheck(c, notValid)
    BY <2>7, ValidateRemembers, DropRemembers, AddCheckRemembers
  <2>8. CASE \E t \in FileTables, what \in Changes, notValid \in BOOLEAN : Change(t, what, notValid)
    BY <2>8, ChangeRemembers
  <2>9. CASE \E t \in FileTables, actions \in {S \in SUBSET Actions : Cardinality(S) \in 1..2},
                given \in Clauses : AlterMysql(t, actions, given)
    <3>1. \A S \in SUBSET Actions : Cardinality(S) \in 1..2 => S # {}
      BY FS_EmptySet
    <3> QED
      BY <2>9, <3>1, AlterMysqlRemembers
  <2> QED
    BY <2>1, <2>2, <2>3, <2>4, <2>5, <2>6, <2>7, <2>8, <2>9, Zenon DEF LintNext
<1> QED
  BY <1>1, <1>2, PTL DEF LintSpec


-----------------------------------------------------------------------------
(* The tree: whatever is drawn as under way is.                            *)

\* A call with its data: the lists are of connections, the rest of databases, and what is
\* listed again after a drop is a schema where there are schemas.
CallIs(call) ==
    /\ call.kind \in Kinds /\ call.conn \in Connections /\ call.node \in TreeNode
    /\ call.db \in Dbs \/ call.kind = "delete" \/ (call.kind = "databases" /\ call.db = Nothing)
    /\ call.kind = "objects" => call.conn \notin SchemaCapable
    /\ call.kind = "schemas" => call.conn \in SchemaCapable
    /\ call.kind = "schema" => call.conn \in SchemaCapable /\ call.schema \in Schemas
    /\ call.kind \in {"drop", "relist"} =>
          IF call.conn \in SchemaCapable THEN call.schema \in Schemas ELSE call.schema = Nothing
    /\ call.kind = "relist" /\ call.schema # Nothing => HasSchema(call.node, call.schema)

DialogIs ==
    dialog = <<>> \/
    \E kind, c, d, s : /\ dialog = <<kind, c, d, s>> /\ c \in Connections /\ d \in Dbs
                       /\ kind = "drop" => IF c \in SchemaCapable THEN s \in Schemas ELSE s = Nothing

\* What a node shows as under way is, by one of the calls cs.
SpinEnds(c, d, node, cs) ==
    /\ c \notin SchemaCapable /\ node.loading =>
          \E call \in cs : call.kind \in {"objects", "relist"} /\ call.conn = c /\ call.db = d
    /\ c \in SchemaCapable /\ node.schemasLoading =>
          \E call \in cs : call.kind = "schemas" /\ call.conn = c /\ call.db = d
    /\ c \in SchemaCapable /\ ~node.schemasLoading /\ ~node.schemasError =>
          \A s \in DOMAIN node.schemas : node.schemas[s].open /\ node.schemas[s].loading =>
              \E call \in cs : /\ call.kind \in {"schema", "relist"}
                               /\ call.conn = c /\ call.db = d /\ call.schema = s

\* The databases of one connection, with the calls cs, but for those written back over a
\* change.
EndsAll(c, known, cs, written) ==
    /\ Listing \in DOMAIN known =>
          \E call \in cs : call.kind = "databases" /\ call.conn = c /\ call.db = Nothing
    /\ \A d \in DOMAIN known : /\ d \in Dbs \union {Listing} /\ known[d] \in TreeNode
                               /\ d \in Dbs /\ <<c, d>> \notin written => SpinEnds(c, d, known[d], cs)

TreeInv ==
    /\ IsABag(pending) /\ \A call \in BagToSet(pending) : CallIs(call)
    /\ DialogIs
    /\ \A c \in DOMAIN nodes : EndsAll(c, nodes[c], BagToSet(pending), overwritten)

\* What the properties of its parts say of a map with one more key.
LEMMA AssignedIs ==
    ASSUME NEW f, NEW k, NEW v
    PROVE  /\ DOMAIN Assigned(f, k, v) = DOMAIN f \union {k}
           /\ Assigned(f, k, v)[k] = v
           /\ \A x \in DOMAIN f : x # k => Assigned(f, k, v)[x] = f[x]
BY DEF Assigned

\* A call that is made or answered is the only one that comes or goes.
LEMMA CallsChange ==
    ASSUME NEW bag, IsABag(bag), NEW e
    PROVE  /\ IsABag(bag (+) SetToBag({e})) /\ IsABag(bag (-) SetToBag({e}))
           /\ BagToSet(bag (+) SetToBag({e})) = BagToSet(bag) \union {e}
           /\ BagToSet(bag (-) SetToBag({e})) \subseteq BagToSet(bag)
           /\ BagToSet(bag) \subseteq BagToSet(bag (-) SetToBag({e})) \union {e}
<1> DEFINE one == SetToBag({e})
           more == bag (+) one
           B == [x \in DOMAIN bag |-> IF x \in DOMAIN one THEN bag[x] - one[x] ELSE bag[x]]
           less == [x \in {y \in DOMAIN B : B[y] > 0} |-> B[x]]
<1>1. DOMAIN one = {e} /\ one[e] = 1
  BY DEF SetToBag
<1>2. \A x \in DOMAIN bag : bag[x] \in Nat /\ bag[x] > 0
  BY DEF IsABag
<1>3. bag (-) one = less
  BY Zenon DEF (-)
<1>4. DOMAIN more = DOMAIN bag \union {e} /\ \A x \in DOMAIN more : more[x] \in Nat /\ more[x] > 0
  BY <1>1, <1>2 DEF (+)
<1>5. \A x \in DOMAIN bag : B[x] \in Int /\ (x # e => B[x] = bag[x])
  BY <1>1, <1>2
<1>6. /\ DOMAIN less \subseteq DOMAIN bag /\ \A x \in DOMAIN less : less[x] \in Nat /\ less[x] > 0
      /\ \A x \in DOMAIN bag : x # e => x \in DOMAIN less
  <2>1. DOMAIN B = DOMAIN bag
    OBVIOUS
  <2> HIDE DEF B
  <2> QED
    BY <1>2, <1>5, <2>1
<1>7. IsABag(more)
  BY <1>4 DEF IsABag, (+)
<1>8. IsABag(less)
  BY <1>6 DEF IsABag
<1> HIDE DEF one, more, less, B
<1> QED
  BY <1>3, <1>4, <1>6, <1>7, <1>8 DEF BagToSet, more, one


-----------------------------------------------------------------------------
\* More calls, or more that was written back, end what fewer do.
LEMMA MoreEnds ==
    ASSUME NEW c, NEW known, NEW cs, NEW written, EndsAll(c, known, cs, written),
           NEW more, cs \subseteq more, NEW writtenToo, written \subseteq writtenToo
    PROVE  EndsAll(c, known, more, writtenToo)
<1>1. Listing \in DOMAIN known =>
          \E call \in more : call.kind = "databases" /\ call.conn = c /\ call.db = Nothing
  BY DEF EndsAll
<1>2. ASSUME NEW d \in DOMAIN known, d \in Dbs, <<c, d>> \notin writtenToo
      PROVE  SpinEnds(c, d, known[d], more)
  <2>1. SpinEnds(c, d, known[d], cs)
    BY <1>2 DEF EndsAll
  <2> QED
    BY <2>1 DEF SpinEnds
<1> QED
  BY <1>1, <1>2 DEF EndsAll

Spinning == {"databases", "objects", "schemas", "schema", "relist"}

\* An answer to a call that spins nothing here takes nothing away: a call about another
\* connection, of another kind, or about a database that is not there.
LEMMA OthersEnd ==
    ASSUME NEW c, NEW known, NEW cs, NEW written, EndsAll(c, known, cs, written),
           NEW call, CallIs(call),
           \/ call.conn # c
           \/ call.kind \notin Spinning
           \/ call.kind # "databases" /\ call.db \notin DOMAIN known
    PROVE  EndsAll(c, known, cs \ {call}, written)
<1>1. Listing \in DOMAIN known =>
          \E k \in cs \ {call} : k.kind = "databases" /\ k.conn = c /\ k.db = Nothing
  BY DEF EndsAll, Spinning
<1>2. ASSUME NEW d \in DOMAIN known, d \in Dbs, <<c, d>> \notin written
      PROVE  SpinEnds(c, d, known[d], cs \ {call})
  <2>1. SpinEnds(c, d, known[d], cs)
    BY <1>2 DEF EndsAll
  <2>2. \A k \in cs : k.kind \in {"objects", "schemas", "schema", "relist"} /\ k.conn = c /\ k.db = d =>
            k \in cs \ {call}
    BY <1>2, TreeAssumption DEF CallIs, Spinning
  <2> QED
    BY <2>1, <2>2 DEF SpinEnds
<1> QED
  BY <1>1, <1>2 DEF EndsAll

\* One database is written; what was under way about it may be over.
LEMMA WrittenEnds ==
    ASSUME NEW c, NEW known, NEW cs, NEW written, EndsAll(c, known, cs, written),
           NEW d \in Dbs, NEW node \in TreeNode, NEW more, NEW writtenToo, written \subseteq writtenToo,
           \A k \in cs : k \in more \/ (k.db = d /\ k.kind # "databases"),
           <<c, d>> \notin writtenToo => SpinEnds(c, d, node, more)
    PROVE  EndsAll(c, Assigned(known, d, node), more, writtenToo)
<1> DEFINE new == Assigned(known, d, node)
<1>1. DOMAIN new = DOMAIN known \union {d} /\ new[d] = node
      /\ \A e \in DOMAIN known : e # d => new[e] = known[e]
  BY DEF Assigned
<1>2. d # Listing
  BY TreeAssumption
<1>3. Listing \in DOMAIN new =>
          \E call \in more : call.kind = "databases" /\ call.conn = c /\ call.db = Nothing
  BY <1>1, <1>2 DEF EndsAll
<1> HIDE DEF new
<1>4. ASSUME NEW e \in DOMAIN new
      PROVE  /\ e \in Dbs \union {Listing} /\ new[e] \in TreeNode
             /\ e \in Dbs /\ <<c, e>> \notin writtenToo => SpinEnds(c, e, new[e], more)
  <2>1. CASE e = d
    BY <1>1, <2>1
  <2>2. CASE e # d
    <3>1. /\ e \in DOMAIN known /\ new[e] = known[e]
          /\ e \in Dbs \union {Listing} /\ known[e] \in TreeNode
          /\ e \in Dbs /\ <<c, e>> \notin written => SpinEnds(c, e, known[e], cs)
      BY <1>1, <2>2 DEF EndsAll
    <3>2. \A k \in cs : k.db = e => k \in more \/ k.kind = "databases"
      BY <2>2
    <3>3. SpinEnds(c, e, known[e], cs) => SpinEnds(c, e, known[e], more)
      BY <3>2 DEF SpinEnds
    <3> QED
      BY <3>1, <3>3
  <2> QED
    BY <2>1, <2>2
<1> QED
  BY <1>3, <1>4 DEF EndsAll, new

LEMMA NothingEnds ==
    ASSUME NEW c, NEW cs, NEW written
    PROVE  EndsAll(c, NoNodes, cs, written)
BY TreeAssumption DEF EndsAll, NoNodes

LEMMA ClosedIsNode ==
    /\ Closed \in TreeNode /\ ClosedSchema \in SchemaNode
    /\ ~Closed.open /\ ~Closed.loading /\ ~Closed.schemasLoading /\ DOMAIN Closed.schemas = {}
<1>1. ClosedSchema \in SchemaNode
  BY DEF ClosedSchema, SchemaNode
<1> DEFINE none == [s \in {} |-> ClosedSchema]
<1>2. none \in UNION {[S -> SchemaNode] : S \in SUBSET Schemas}
  <2>1. none \in [{} -> SchemaNode] /\ {} \in SUBSET Schemas
    OBVIOUS
  <2> QED
    BY <2>1
<1>3. Closed = [open |-> FALSE, loading |-> FALSE, error |-> FALSE, schemas |-> none,
                schemasLoading |-> FALSE, schemasError |-> FALSE]
  BY DEF Closed
<1>4. DOMAIN none = {}
  OBVIOUS
<1> HIDE DEF none
<1> QED
  BY <1>1, <1>2, <1>3, <1>4 DEF TreeNode

\* A connection that waits for its list, and one whose list has come, with nothing open.
LEMMA ListingEnds ==
    ASSUME NEW c, NEW cs, NEW written,
           \E call \in cs : call.kind = "databases" /\ call.conn = c /\ call.db = Nothing
    PROVE  EndsAll(c, JustListing, cs, written)
BY ClosedIsNode, TreeAssumption DEF EndsAll, JustListing

LEMMA ListedEnds ==
    ASSUME NEW c, NEW list \in SUBSET Dbs, NEW cs, NEW written
    PROVE  EndsAll(c, [d \in list |-> Closed], cs, written)
<1>1. \A d \in Dbs : SpinEnds(c, d, Closed, cs)
  BY ClosedIsNode DEF SpinEnds
<1>2. Listing \notin list
  BY TreeAssumption
<1> QED
  BY <1>1, <1>2, ClosedIsNode DEF EndsAll


-----------------------------------------------------------------------------
(* What a step may do to the tree.                                         *)

\* What all maps of the tree say of the calls.
TreeEnds(known, cs, written) == \A c \in DOMAIN known : EndsAll(c, known[c], cs, written)

\* The map of one connection is written.
LEMMA MapEnds ==
    ASSUME NEW known, NEW cs, NEW written, TreeEnds(known, cs, written),
           \A call \in cs : CallIs(call),
           NEW c, NEW new, NEW more, NEW writtenToo, written \subseteq writtenToo,
           \A call \in cs : call \in more \/ call.conn = c,
           EndsAll(c, new, more, writtenToo)
    PROVE  TreeEnds(Assigned(known, c, new), more, writtenToo)
<1> DEFINE whole == Assigned(known, c, new)
<1>1. DOMAIN whole = DOMAIN known \union {c} /\ whole[c] = new
      /\ \A k \in DOMAIN known : k # c => whole[k] = known[k]
  BY DEF Assigned
<1> HIDE DEF whole
<1>2. ASSUME NEW k \in DOMAIN known, k # c
      PROVE  EndsAll(k, known[k], more, writtenToo)
  <2>1. EndsAll(k, known[k], cs, written)
    BY DEF TreeEnds
  <2>2. \A call \in cs : call.conn = k => call \in more
    BY <1>2
  <2>3. Listing \in DOMAIN known[k] =>
            \E call \in more : call.kind = "databases" /\ call.conn = k /\ call.db = Nothing
    BY <2>1, <2>2 DEF EndsAll
  <2>4. ASSUME NEW d \in DOMAIN known[k], d \in Dbs, <<k, d>> \notin writtenToo
        PROVE  SpinEnds(k, d, known[k][d], more)
    <3>1. SpinEnds(k, d, known[k][d], cs)
      BY <2>1, <2>4 DEF EndsAll
    <3> QED
      BY <2>2, <3>1 DEF SpinEnds
  <2> QED
    BY <2>1, <2>3, <2>4 DEF EndsAll
<1> QED
  BY <1>1, <1>2 DEF TreeEnds, whole

\* One node is written.
LEMMA NodeEnds ==
    ASSUME TreeInv, NEW c, NEW d \in Dbs, NEW node \in TreeNode,
           NEW more, NEW writtenToo, overwritten \subseteq writtenToo,
           \A call \in BagToSet(pending) :
               call \in more \/ (call.conn = c /\ call.db = d /\ call.kind # "databases"),
           <<c, d>> \notin writtenToo => SpinEnds(c, d, node, more)
    PROVE  TreeEnds(With(c, d, node), more, writtenToo)
<1> DEFINE known == IF c \in DOMAIN nodes THEN nodes[c] ELSE NoNodes
           cs == BagToSet(pending)
<1>1. TreeEnds(nodes, cs, overwritten) /\ \A call \in cs : CallIs(call)
  BY DEF TreeInv, TreeEnds
<1>2. EndsAll(c, known, cs, overwritten)
  <2>1. CASE c \in DOMAIN nodes
    BY <1>1, <2>1 DEF TreeEnds
  <2>2. CASE c \notin DOMAIN nodes
    BY <2>2, NothingEnds
  <2> QED
    BY <2>1, <2>2
<1>3. With(c, d, node) = Assigned(nodes, c, Assigned(known, d, node))
  BY Zenon DEF With
<1> HIDE DEF known, cs
<1>4. \A call \in cs : call \in more \/ (call.conn = c /\ call.db = d /\ call.kind # "databases")
  BY DEF cs
<1>5. EndsAll(c, Assigned(known, d, node), more, writtenToo)
  BY <1>2, <1>4, WrittenEnds
<1> DEFINE new == Assigned(known, d, node)
<1> HIDE DEF new
<1>6. TreeEnds(Assigned(nodes, c, new), more, writtenToo)
  BY <1>1, <1>4, <1>5, MapEnds DEF new
<1> QED
  BY <1>3, <1>6 DEF new

\* The tree is left alone: a call may end that is of no spinner, or of a database that is
\* not there.
LEMMA AloneEnds ==
    ASSUME TreeInv, NEW call \in BagToSet(pending),
           \/ call.kind \notin Spinning
           \/ call.kind # "databases" /\ ~Has(call.conn, call.db)
    PROVE  TreeEnds(nodes, BagToSet(pending) \ {call}, overwritten)
<1> SUFFICES ASSUME NEW c \in DOMAIN nodes
             PROVE  EndsAll(c, nodes[c], BagToSet(pending) \ {call}, overwritten)
  BY DEF TreeEnds
<1>1. EndsAll(c, nodes[c], BagToSet(pending), overwritten) /\ CallIs(call)
  BY DEF TreeInv
<1>2. \/ call.conn # c \/ call.kind \notin Spinning
      \/ call.kind # "databases" /\ call.db \notin DOMAIN nodes[c]
  BY DEF Has
<1> QED
  BY <1>1, <1>2, OthersEnd

LEMMA TreeMoreEnds ==
    ASSUME NEW known, NEW cs, NEW written, TreeEnds(known, cs, written),
           NEW more, cs \subseteq more, NEW writtenToo, written \subseteq writtenToo
    PROVE  TreeEnds(known, more, writtenToo)
BY MoreEnds DEF TreeEnds

-----------------------------------------------------------------------------
(* The nodes that the steps write.                                         *)

SchemaMaps == UNION {[S -> SchemaNode] : S \in SUBSET Schemas}

LEMMA NodeIs ==
    ASSUME NEW node \in TreeNode
    PROVE  /\ node.open \in BOOLEAN /\ node.loading \in BOOLEAN /\ node.schemasLoading \in BOOLEAN
           /\ node.schemasError \in BOOLEAN /\ node.schemas \in SchemaMaps
           /\ DOMAIN node.schemas \subseteq Schemas
           /\ \A s \in DOMAIN node.schemas : node.schemas[s] \in SchemaNode
<1>1. node.open \in BOOLEAN /\ node.loading \in BOOLEAN /\ node.schemasLoading \in BOOLEAN
      /\ node.schemasError \in BOOLEAN /\ node.schemas \in SchemaMaps
  BY DEF TreeNode, SchemaMaps
<1>2. PICK S \in SUBSET Schemas : node.schemas \in [S -> SchemaNode]
  BY <1>1 DEF SchemaMaps
<1> QED
  BY <1>1, <1>2

LEMMA NodesAre ==
    TreeNode = [open : BOOLEAN, loading : BOOLEAN, error : BOOLEAN, schemas : SchemaMaps,
                schemasLoading : BOOLEAN, schemasError : BOOLEAN]
BY Zenon DEF TreeNode, SchemaMaps

LEMMA SchemaWritten ==
    ASSUME NEW node \in TreeNode, NEW s \in Schemas, NEW schema \in SchemaNode
    PROVE  LET n == WithSchema(node, s, schema)
           IN  /\ n \in TreeNode /\ n.loading = node.loading
               /\ n.schemasLoading = node.schemasLoading /\ n.schemasError = node.schemasError
               /\ DOMAIN n.schemas = DOMAIN node.schemas \union {s} /\ n.schemas[s] = schema
               /\ \A t \in DOMAIN node.schemas : t # s => n.schemas[t] = node.schemas[t]
<1> DEFINE m == Assigned(node.schemas, s, schema)
<1>1. DOMAIN m = DOMAIN node.schemas \union {s} /\ m[s] = schema
      /\ \A t \in DOMAIN node.schemas : t # s => m[t] = node.schemas[t]
  BY DEF Assigned
<1>2. m \in [DOMAIN node.schemas \union {s} -> SchemaNode]
  BY NodeIs DEF Assigned
<1>3. DOMAIN node.schemas \union {s} \in SUBSET Schemas
  BY NodeIs
<1> HIDE DEF m
<1>4. m \in SchemaMaps
  BY <1>2, <1>3 DEF SchemaMaps
<1>5. WithSchema(node, s, schema) = [node EXCEPT !.schemas = m]
  BY Zenon DEF WithSchema, m
<1> QED
  BY <1>1, <1>4, <1>5, NodesAre

-----------------------------------------------------------------------------
(* The steps.                                                              *)

LEMMA TreeInvNext ==
    ASSUME IsABag(pending'), \A call \in BagToSet(pending') : CallIs(call),
           DialogIs', TreeEnds(nodes', BagToSet(pending'), overwritten')
    PROVE  TreeInv'
BY DEF TreeInv, TreeEnds

\* A step that calls nothing and is not an answer.
LEMMA NoCall ==
    ASSUME TreeInv, pending' = pending, DialogIs',
           TreeEnds(nodes', BagToSet(pending), overwritten')
    PROVE  TreeInv'
BY TreeInvNext DEF TreeInv

\* A call is made.
LEMMA OneCall ==
    ASSUME TreeInv, NEW call, pending' = pending (+) SetToBag({call}), CallIs(call), DialogIs',
           TreeEnds(nodes', BagToSet(pending) \union {call}, overwritten')
    PROVE  TreeInv'
<1>1. IsABag(pending') /\ BagToSet(pending') = BagToSet(pending) \union {call}
  BY CallsChange DEF TreeInv
<1> QED
  BY <1>1, TreeInvNext DEF TreeInv

\* A call is answered, and no other is made.
LEMMA OneAnswer ==
    ASSUME TreeInv, NEW call \in BagToSet(pending),
           pending' = pending (-) SetToBag({call}), DialogIs',
           TreeEnds(nodes', BagToSet(pending) \ {call}, overwritten')
    PROVE  TreeInv'
<1>1. /\ IsABag(pending') /\ BagToSet(pending') \subseteq BagToSet(pending)
      /\ BagToSet(pending) \ {call} \subseteq BagToSet(pending')
  BY CallsChange DEF TreeInv
<1>2. TreeEnds(nodes', BagToSet(pending'), overwritten')
  BY <1>1, TreeMoreEnds
<1> QED
  BY <1>1, <1>2, TreeInvNext DEF TreeInv

\* A call is answered, and its handler makes another.
LEMMA AnswerCalls ==
    ASSUME TreeInv, NEW call \in BagToSet(pending), NEW e,
           pending' = (pending (-) SetToBag({call})) (+) SetToBag({e}), CallIs(e), DialogIs',
           TreeEnds(nodes', (BagToSet(pending) \ {call}) \union {e}, overwritten')
    PROVE  TreeInv'
<1> DEFINE less == pending (-) SetToBag({call})
<1>1. /\ IsABag(less) /\ BagToSet(less) \subseteq BagToSet(pending)
      /\ BagToSet(pending) \ {call} \subseteq BagToSet(less)
  BY CallsChange DEF TreeInv
<1>2. pending' = less (+) SetToBag({e})
  OBVIOUS
<1> HIDE DEF less
<1>3. IsABag(pending') /\ BagToSet(pending') = BagToSet(less) \union {e}
  <2>1. /\ IsABag(less (+) SetToBag({e}))
        /\ BagToSet(less (+) SetToBag({e})) = BagToSet(less) \union {e}
    BY <1>1, CallsChange, Zenon
  <2> QED
    BY <1>2, <2>1
<1>4. (BagToSet(pending) \ {call}) \union {e} \subseteq BagToSet(pending')
  BY <1>1, <1>3
<1>5. TreeEnds(nodes', BagToSet(pending'), overwritten')
  BY <1>4, TreeMoreEnds
<1> QED
  BY <1>1, <1>3, <1>5, TreeInvNext DEF TreeInv

LEMMA EmptyAdds ==
    ASSUME NEW bag, IsABag(bag)
    PROVE  bag (+) EmptyBag = bag
<1>1. DOMAIN EmptyBag = {}
  BY DEF EmptyBag, SetToBag
<1>2. \A x \in DOMAIN bag : bag[x] \in Nat
  BY DEF IsABag
<1>3. bag = [x \in DOMAIN bag |-> bag[x]]
  BY DEF IsABag
<1> QED
  BY <1>1, <1>2, <1>3 DEF (+)

\* An answer of the form that most have.
LEMMA AnswerQuiet ==
    ASSUME TreeInv, NEW call \in BagToSet(pending), NEW known, Answer(call, known, EmptyBag),
           TreeEnds(known, BagToSet(pending) \ {call}, overwritten')
    PROVE  TreeInv'
<1>1. pending' = pending (-) SetToBag({call})
  <2>1. IsABag(pending (-) SetToBag({call}))
    BY CallsChange DEF TreeInv
  <2> QED
    BY <2>1, EmptyAdds DEF Answer
<1>2. nodes' = known /\ dialog' = dialog
  BY DEF Answer
<1>3. DialogIs'
  BY <1>2 DEF TreeInv, DialogIs
<1> QED
  BY <1>1, <1>2, <1>3, OneAnswer

LEMMA AnswerMore ==
    ASSUME TreeInv, NEW call \in BagToSet(pending), NEW known, NEW e,
           Answer(call, known, SetToBag({e})), CallIs(e),
           TreeEnds(known, (BagToSet(pending) \ {call}) \union {e}, overwritten')
    PROVE  TreeInv'
<1>1. pending' = (pending (-) SetToBag({call})) (+) SetToBag({e})
      /\ nodes' = known /\ dialog' = dialog
  BY DEF Answer
<1>2. DialogIs'
  BY <1>1 DEF TreeInv, DialogIs
<1> QED
  BY <1>1, <1>2, AnswerCalls

\* What is known of a node that is there.
LEMMA SeenNode ==
    ASSUME TreeInv, NEW c, NEW d, Has(c, d)
    PROVE  /\ nodes[c][d] \in TreeNode
           /\ d \in Dbs /\ <<c, d>> \notin overwritten =>
                 SpinEnds(c, d, nodes[c][d], BagToSet(pending))
<1>1. EndsAll(c, nodes[c], BagToSet(pending), overwritten)
  BY DEF TreeInv, Has
<1> QED
  BY <1>1 DEF EndsAll, Has

LEMMA DialogStays ==
    ASSUME TreeInv, dialog' = dialog
    PROVE  DialogIs'
BY DEF TreeInv, DialogIs

\* The tree as it is, with more calls.
LEMMA SameTree ==
    ASSUME TreeInv, NEW more, BagToSet(pending) \subseteq more
    PROVE  TreeEnds(nodes, more, overwritten)
<1>1. TreeEnds(nodes, BagToSet(pending), overwritten)
  BY DEF TreeInv, TreeEnds
<1> QED
  BY <1>1, TreeMoreEnds

LEMMA TreeListsKeep ==
    ASSUME TreeInv, NEW c \in Connections, ListsDatabases(c), dialog' = dialog,
           overwritten' = overwritten
    PROVE  TreeInv'
<1> DEFINE call == TreeCall("databases", c, Nothing, Nothing, Closed)
           cs == BagToSet(pending) \union {call}
<1>1. pending' = pending (+) SetToBag({call}) /\ nodes' = Assigned(nodes, c, JustListing)
  BY DEF ListsDatabases, Awaits
<1>2. call.kind = "databases" /\ call.conn = c /\ call.db = Nothing /\ call.node = Closed
  BY DEF TreeCall
<1> HIDE DEF call
<1>3. CallIs(call)
  BY <1>2, ClosedIsNode DEF CallIs, Kinds
<1>4. EndsAll(c, JustListing, cs, overwritten)
  BY <1>2, ListingEnds
<1>5. TreeEnds(nodes, BagToSet(pending), overwritten) /\ \A k \in BagToSet(pending) : CallIs(k)
  BY DEF TreeInv, TreeEnds
<1>6. TreeEnds(Assigned(nodes, c, JustListing), cs, overwritten)
  BY <1>4, <1>5, MapEnds
<1> QED
  BY <1>1, <1>3, <1>6, OneCall, DialogStays

\* The node that is being listed, and the call that lists it.
LEMMA LoadingEnds ==
    ASSUME NEW c \in Connections, NEW d \in Dbs, NEW node \in TreeNode, NEW more,
           LoadCall(c, d, node) \in more
    PROVE  /\ LoadingNode(c, node) \in TreeNode /\ SpinEnds(c, d, LoadingNode(c, node), more)
           /\ CallIs(LoadCall(c, d, node))
<1> DEFINE call == LoadCall(c, d, node)
           new == LoadingNode(c, node)
<1>1. /\ call.kind = IF c \in SchemaCapable THEN "schemas" ELSE "objects"
      /\ call.conn = c /\ call.db = d /\ call.node = node
  BY DEF LoadCall, TreeCall
<1>2. CASE c \in SchemaCapable
  <2>1. new \in TreeNode /\ new.schemasLoading
    <3>1. new = [node EXCEPT !.open = TRUE, !.schemasLoading = TRUE, !.schemasError = FALSE]
      BY <1>2 DEF LoadingNode
    <3> QED
      BY <3>1, NodesAre
  <2> HIDE DEF new, call
  <2>2. SpinEnds(c, d, new, more) /\ CallIs(call)
    <3>1. CallIs(call)
      BY <1>1, <1>2 DEF CallIs, Kinds
    <3>2. SpinEnds(c, d, new, more)
      BY <1>1, <1>2, <2>1 DEF SpinEnds, call
    <3> QED
      BY <3>1, <3>2
  <2> QED
    BY <2>1, <2>2 DEF new, call
<1>3. CASE c \notin SchemaCapable
  <2>1. new \in TreeNode
    <3>1. new = [node EXCEPT !.open = TRUE, !.loading = TRUE, !.error = FALSE]
      BY <1>3 DEF LoadingNode
    <3> QED
      BY <3>1, NodesAre
  <2> HIDE DEF new, call
  <2>2. SpinEnds(c, d, new, more) /\ CallIs(call)
    <3>1. CallIs(call)
      BY <1>1, <1>3 DEF CallIs, Kinds
    <3>2. SpinEnds(c, d, new, more)
      BY <1>1, <1>3 DEF SpinEnds, call
    <3> QED
      BY <3>1, <3>2
  <2> QED
    BY <2>1, <2>2 DEF new, call
<1> QED
  BY <1>2, <1>3

LEMMA LoadsKeep ==
    ASSUME TreeInv, NEW c \in Connections, NEW d \in Dbs, Has(c, d), Loads(c, d),
           dialog' = dialog, overwritten' = overwritten
    PROVE  TreeInv'
<1> DEFINE call == LoadCall(c, d, nodes[c][d])
           new == LoadingNode(c, nodes[c][d])
           cs == BagToSet(pending) \union {call}
<1>1. pending' = pending (+) SetToBag({call}) /\ nodes' = With(c, d, new)
  BY DEF Loads, Awaits
<1>2. new \in TreeNode /\ SpinEnds(c, d, new, cs) /\ CallIs(call)
  BY SeenNode, LoadingEnds
<1> HIDE DEF call, new
<1>3. TreeEnds(With(c, d, new), cs, overwritten)
  BY <1>2, NodeEnds
<1> QED
  BY <1>1, <1>2, <1>3, OneCall, DialogStays

LEMMA ToggleConnKeeps ==
    ASSUME TreeInv, NEW c \in Connections, ToggleConn(c)
    PROVE  TreeInv'
<1>1. dialog' = dialog /\ overwritten' = overwritten
  BY DEF ToggleConn, RestStays
<1>2. CASE ListsDatabases(c)
  BY <1>1, <1>2, TreeListsKeep
<1>3. CASE UNCHANGED <<nodes, connErrors, pending, awaited>>
  <2>1. nodes' = nodes /\ pending' = pending
    BY <1>3
  <2> QED
    BY <1>1, <2>1, SameTree, NoCall, DialogStays
<1> QED
  BY <1>2, <1>3, Zenon DEF ToggleConn

\* An open database is closed.
LEMMA ToggleDbKeeps ==
    ASSUME TreeInv, NEW c \in Connections, NEW d \in Dbs, ToggleDb(c, d)
    PROVE  TreeInv'
<1>1. dialog' = dialog /\ overwritten' = overwritten /\ Has(c, d)
  BY DEF ToggleDb, RestStays, DbDrawn
<1>2. CASE Loads(c, d)
  BY <1>1, <1>2, LoadsKeep
<1>3. ASSUME nodes' = With(c, d, [nodes[c][d] EXCEPT !.open = FALSE]), pending' = pending
      PROVE  TreeInv'
  <2> DEFINE new == [nodes[c][d] EXCEPT !.open = FALSE]
  <2>1. /\ new \in TreeNode /\ new.loading = nodes[c][d].loading
        /\ new.schemas = nodes[c][d].schemas /\ new.schemasLoading = nodes[c][d].schemasLoading
        /\ new.schemasError = nodes[c][d].schemasError
    BY <1>1, SeenNode, NodesAre
  <2> HIDE DEF new
  <2>2. <<c, d>> \notin overwritten => SpinEnds(c, d, new, BagToSet(pending))
    BY <1>1, <2>1, SeenNode DEF SpinEnds
  <2>3. TreeEnds(With(c, d, new), BagToSet(pending), overwritten)
    BY <2>1, <2>2, NodeEnds
  <2> QED
    BY <1>1, <1>3, <2>3, NoCall, DialogStays DEF new
<1> QED
  BY <1>2, <1>3 DEF ToggleDb

\* A schema of a node that is there is written, and may be waited for by a call.
LEMMA SchemaEnds ==
    ASSUME TreeInv, NEW c \in Connections, NEW d \in Dbs, Has(c, d), NEW s \in Schemas,
           NEW schema \in SchemaNode, NEW more,
           \A call \in BagToSet(pending) :
               \/ call \in more
               \/ /\ call.conn = c /\ call.db = d
                  /\ call.kind = "drop" \/ (call.kind \in {"schema", "relist"} /\ call.schema = s),
           c \in SchemaCapable \/ BagToSet(pending) \subseteq more,
           schema.open /\ schema.loading =>
               \E call \in more : /\ call.kind \in {"schema", "relist"}
                                 /\ call.conn = c /\ call.db = d /\ call.schema = s
    PROVE  TreeEnds(With(c, d, WithSchema(nodes[c][d], s, schema)), more, overwritten)
<1> DEFINE node == nodes[c][d]
           new == WithSchema(node, s, schema)
           cs == BagToSet(pending)
<1>1. node \in TreeNode /\ (<<c, d>> \notin overwritten => SpinEnds(c, d, node, cs))
  BY SeenNode
<1> HIDE DEF node
<1>2. /\ new \in TreeNode /\ new.loading = node.loading
      /\ new.schemasLoading = node.schemasLoading /\ new.schemasError = node.schemasError
      /\ DOMAIN new.schemas = DOMAIN node.schemas \union {s} /\ new.schemas[s] = schema
      /\ \A t \in DOMAIN node.schemas : t # s => new.schemas[t] = node.schemas[t]
  BY <1>1, SchemaWritten
<1> HIDE DEF new, cs
<1>3. \A k \in cs : \/ k \in more
                    \/ /\ k.conn = c /\ k.db = d
                       /\ k.kind = "drop" \/ (k.kind \in {"schema", "relist"} /\ k.schema = s)
  BY DEF cs
<1>4. ASSUME SpinEnds(c, d, node, cs)
      PROVE  SpinEnds(c, d, new, more)
  <2>1. c \notin SchemaCapable /\ new.loading =>
            \E call \in more : call.kind \in {"objects", "relist"} /\ call.conn = c /\ call.db = d
    BY <1>2, <1>4 DEF SpinEnds, cs
  <2>2. c \in SchemaCapable /\ new.schemasLoading =>
            \E call \in more : call.kind = "schemas" /\ call.conn = c /\ call.db = d
    BY <1>2, <1>3, <1>4 DEF SpinEnds
  <2>3. ASSUME c \in SchemaCapable, ~new.schemasLoading, ~new.schemasError,
               NEW t \in DOMAIN new.schemas, new.schemas[t].open, new.schemas[t].loading
        PROVE  \E call \in more : /\ call.kind \in {"schema", "relist"}
                                  /\ call.conn = c /\ call.db = d /\ call.schema = t
    <3>1. CASE t = s
      BY <1>2, <2>3, <3>1
    <3>2. CASE t # s
      BY <1>2, <1>3, <1>4, <2>3, <3>2 DEF SpinEnds
    <3> QED
      BY <3>1, <3>2
  <2> QED
    BY <2>1, <2>2, <2>3 DEF SpinEnds
<1>5. \A call \in cs : call \in more \/ (call.conn = c /\ call.db = d /\ call.kind # "databases")
  BY <1>3
<1>6. TreeEnds(With(c, d, new), more, overwritten)
  BY <1>1, <1>2, <1>4, <1>5, NodeEnds DEF cs
<1> QED
  BY <1>6 DEF new, node

LEMMA ToggleSchemaKeeps ==
    ASSUME TreeInv, NEW c \in Connections, NEW d \in Dbs, NEW s \in Schemas, ToggleSchema(c, d, s)
    PROVE  TreeInv'
<1> DEFINE schema == nodes[c][d].schemas[s]
           closed == [schema EXCEPT !.open = FALSE]
           loads == [open |-> TRUE, loading |-> TRUE, error |-> FALSE]
           call == TreeCall("schema", c, d, s, Closed)
           more == BagToSet(pending) \union {call}
<1>1. dialog' = dialog /\ overwritten' = overwritten
  BY DEF ToggleSchema, RestStays
<1>2. c \in SchemaCapable /\ Has(c, d) /\ s \in DOMAIN nodes[c][d].schemas
  BY DEF ToggleSchema, SchemaDrawn, DbDrawn, HasSchema
<1>3. ASSUME nodes' = With(c, d, WithSchema(nodes[c][d], s, closed)), pending' = pending
      PROVE  TreeInv'
  <2>1. schema \in SchemaNode
    BY <1>2, SeenNode, NodeIs
  <2> HIDE DEF schema
  <2>2. closed \in SchemaNode /\ ~closed.open
    BY <2>1 DEF SchemaNode
  <2> HIDE DEF closed
  <2>3. TreeEnds(With(c, d, WithSchema(nodes[c][d], s, closed)), BagToSet(pending), overwritten)
    BY <1>2, <2>2, SchemaEnds
  <2> QED
    BY <1>1, <1>3, <2>3, NoCall, DialogStays
<1>4. ASSUME nodes' = Opening(c, d, s), Awaits(call)
      PROVE  TreeInv'
  <2>1. nodes' = With(c, d, WithSchema(nodes[c][d], s, loads)) /\ loads \in SchemaNode
    <3>1. Opening(c, d, s) = With(c, d, WithSchema(nodes[c][d], s, loads))
      BY <1>2 DEF Opening
    <3> QED
      BY <1>4, <3>1 DEF SchemaNode
  <2>2. pending' = pending (+) SetToBag({call})
    BY <1>4 DEF Awaits
  <2>3. /\ call.kind = "schema" /\ call.conn = c /\ call.db = d /\ call.schema = s
        /\ call.node = Closed
    BY DEF TreeCall
  <2> HIDE DEF call, loads
  <2>4. CallIs(call)
    BY <1>2, <2>3, ClosedIsNode DEF CallIs, Kinds
  <2>5. TreeEnds(With(c, d, WithSchema(nodes[c][d], s, loads)), more, overwritten)
    BY <1>2, <2>1, <2>3, SchemaEnds
  <2> QED
    BY <1>1, <2>1, <2>2, <2>4, <2>5, OneCall, DialogStays
<1> QED
  BY <1>3, <1>4, Zenon DEF ToggleSchema

LEMMA AskKeeps ==
    ASSUME TreeInv, NEW c \in Connections, NEW d \in Dbs,
           AskDropDatabase(c, d) \/ AskLogin(c, d)
    PROVE  TreeInv'
<1>1. nodes' = nodes /\ pending' = pending /\ overwritten' = overwritten
  BY DEF AskDropDatabase, AskLogin, RestStays
<1>2. DialogIs'
  BY DEF AskDropDatabase, AskLogin, DialogIs
<1> QED
  BY <1>1, <1>2, SameTree, NoCall

LEMMA AskDropObjectKeeps ==
    ASSUME TreeInv, NEW c \in Connections, NEW d \in Dbs, NEW s, AskDropObject(c, d, s)
    PROVE  TreeInv'
<1>1. nodes' = nodes /\ pending' = pending /\ overwritten' = overwritten
      /\ dialog' = <<"drop", c, d, s>>
  BY DEF AskDropObject, RestStays
<1>2. IF c \in SchemaCapable THEN s \in Schemas ELSE s = Nothing
  <2>1. CASE c \in SchemaCapable
    <3>1. Has(c, d) /\ s \in DOMAIN nodes[c][d].schemas
      BY <2>1 DEF AskDropObject, ObjectsDrawn, SchemaDrawn, DbDrawn, HasSchema
    <3> QED
      BY <2>1, <3>1, SeenNode, NodeIs
  <2>2. CASE c \notin SchemaCapable
    BY <2>2 DEF AskDropObject, ObjectsDrawn
  <2> QED
    BY <2>1, <2>2
<1>3. DialogIs'
  BY <1>1, <1>2 DEF DialogIs
<1> QED
  BY <1>1, <1>3, SameTree, NoCall

LEMMA CancelDialogKeeps ==
    ASSUME TreeInv, CancelDialog
    PROVE  TreeInv'
<1>1. nodes' = nodes /\ pending' = pending /\ overwritten' = overwritten /\ dialog' = <<>>
  BY DEF CancelDialog, RestStays
<1>2. DialogIs'
  BY <1>1 DEF DialogIs
<1> QED
  BY <1>1, <1>2, SameTree, NoCall

\* A call about what the dialog asked spins nothing.
LEMMA NodeSeenIs ==
    ASSUME TreeInv, NEW c, NEW d
    PROVE  NodeSeen(c, d) \in TreeNode
BY SeenNode, ClosedIsNode DEF NodeSeen

LEMMA ConfirmDialogKeeps ==
    ASSUME TreeInv, ConfirmDialog
    PROVE  TreeInv'
<1> DEFINE call == TreeCall(dialog[1], dialog[2], dialog[3], dialog[4], NodeSeen(dialog[2], dialog[3]))
<1>1. /\ pending' = pending (+) SetToBag({call}) /\ dialog' = <<>>
      /\ nodes' = nodes /\ overwritten' = overwritten
      /\ dialog # <<>> /\ dialog[1] \in {"drop_database", "drop"}
  BY DEF ConfirmDialog, Awaits, RestStays, Asked
<1>2. /\ call.kind = dialog[1] /\ call.conn = dialog[2] /\ call.db = dialog[3]
      /\ call.schema = dialog[4] /\ call.node \in TreeNode
  BY NodeSeenIs DEF TreeCall
<1> HIDE DEF call
<1>3. CallIs(call)
  <2>1. PICK kind, c, d, s : /\ dialog = <<kind, c, d, s>> /\ c \in Connections /\ d \in Dbs
                             /\ kind = "drop" => IF c \in SchemaCapable THEN s \in Schemas
                                                 ELSE s = Nothing
    BY <1>1 DEF TreeInv, DialogIs
  <2> QED
    BY <1>1, <1>2, <2>1 DEF CallIs, Kinds
<1>4. DialogIs'
  BY <1>1 DEF DialogIs
<1>5. TreeEnds(nodes', BagToSet(pending) \union {call}, overwritten')
  BY <1>1, SameTree
<1> QED
  BY <1>1, <1>3, <1>4, <1>5, OneCall

LEMMA SendLoginKeeps ==
    ASSUME TreeInv, SendLogin
    PROVE  TreeInv'
<1> DEFINE call == TreeCall("login", dialog[2], dialog[3], Nothing, NodeSeen(dialog[2], dialog[3]))
<1>1. /\ pending' = pending (+) SetToBag({call}) /\ dialog' = [dialog EXCEPT ![4] = Busy]
      /\ nodes' = nodes /\ overwritten' = overwritten
      /\ dialog # <<>> /\ dialog[1] = "login"
  BY DEF SendLogin, Awaits, RestStays, Asked
<1>2. /\ call.kind = "login" /\ call.conn = dialog[2] /\ call.db = dialog[3]
      /\ call.node \in TreeNode
  BY NodeSeenIs DEF TreeCall
<1> HIDE DEF call
<1>3. PICK c, d, s : dialog = <<"login", c, d, s>> /\ c \in Connections /\ d \in Dbs
  BY <1>1 DEF TreeInv, DialogIs
<1>4. CallIs(call)
  BY <1>2, <1>3 DEF CallIs, Kinds
<1>5. DialogIs'
  <2>1. dialog' = <<"login", c, d, Busy>>
    BY <1>1, <1>3
  <2> QED
    BY <1>3, <2>1 DEF DialogIs
<1>6. TreeEnds(nodes', BagToSet(pending) \union {call}, overwritten')
  BY <1>1, SameTree
<1> QED
  BY <1>1, <1>4, <1>5, <1>6, OneCall

-----------------------------------------------------------------------------
(* The answers.                                                            *)

\* A list of databases, with the marks of it gone.
LEMMA ListsWritten ==
    ASSUME TreeInv, NEW call \in BagToSet(pending), call.kind = "databases", NEW known,
           \A written : EndsAll(call.conn, known, BagToSet(pending) \ {call}, written)
    PROVE  TreeEnds(Assigned(nodes, call.conn, known), BagToSet(pending) \ {call}, overwritten)
<1>1. TreeEnds(nodes, BagToSet(pending), overwritten) /\ \A k \in BagToSet(pending) : CallIs(k)
  BY DEF TreeInv, TreeEnds
<1>2. \A k \in BagToSet(pending) : k \in BagToSet(pending) \ {call} \/ k.conn = call.conn
  OBVIOUS
<1> QED
  BY <1>1, <1>2, MapEnds

LEMMA DatabasesCameKeeps ==
    ASSUME TreeInv, NEW call \in BagToSet(pending), DatabasesCame(call)
    PROVE  TreeInv'
<1> DEFINE fresh(list) == [d \in list |-> Closed]
<1>1. PICK list \in DbLists[call.conn] : Answer(call, Assigned(nodes, call.conn, fresh(list)), EmptyBag)
  BY Zenon DEF DatabasesCame
<1>2. overwritten' = overwritten /\ call.kind = "databases" /\ call.conn \in Connections
  BY DEF DatabasesCame, TreeInv, CallIs
<1>3. list \in SUBSET Dbs
  BY <1>2 DEF Dbs
<1>4. \A written : EndsAll(call.conn, fresh(list), BagToSet(pending) \ {call}, written)
  BY <1>3, ListedEnds
<1> HIDE DEF fresh
<1>5. TreeEnds(Assigned(nodes, call.conn, fresh(list)), BagToSet(pending) \ {call}, overwritten')
  BY <1>2, <1>4, ListsWritten
<1> QED
  BY <1>1, <1>5, AnswerQuiet

LEMMA DatabasesFailedKeeps ==
    ASSUME TreeInv, NEW call \in BagToSet(pending), DatabasesFailed(call)
    PROVE  TreeInv'
<1>1. /\ Answer(call, Assigned(nodes, call.conn, NoNodes), EmptyBag)
      /\ overwritten' = overwritten /\ call.kind = "databases"
  BY DEF DatabasesFailed
<1>2. TreeEnds(Assigned(nodes, call.conn, NoNodes), BagToSet(pending) \ {call}, overwritten')
  BY <1>1, NothingEnds, ListsWritten
<1> QED
  BY <1>1, <1>2, AnswerQuiet

\* What of a call of a database its kind says.
LEMMA CallOfDb ==
    ASSUME TreeInv, NEW call \in BagToSet(pending), call.kind \notin {"databases", "delete"}
    PROVE  /\ call.conn \in Connections /\ call.db \in Dbs /\ call.node \in TreeNode
           /\ \A k \in BagToSet(pending) : k \in BagToSet(pending) \ {call} \/
                  (k.conn = call.conn /\ k.db = call.db /\ k.kind # "databases")
BY DEF TreeInv, CallIs

\* The node a handler saw is written back, with nothing under way.
LEMMA ObjectsCameKeeps ==
    ASSUME TreeInv, NEW call \in BagToSet(pending), ObjectsCame(call)
    PROVE  TreeInv'
<1> DEFINE new(failed) == [call.node EXCEPT !.open = TRUE, !.loading = FALSE, !.error = failed]
           more == BagToSet(pending) \ {call}
<1>1. PICK failed \in BOOLEAN : Answer(call, With(call.conn, call.db, new(failed)), EmptyBag)
  BY Zenon DEF ObjectsCame
<1>2. overwritten' = overwritten /\ call.kind = "objects" /\ call.conn \notin SchemaCapable
  BY DEF ObjectsCame, TreeInv, CallIs
<1>3. new(failed) \in TreeNode /\ ~new(failed).loading
  BY <1>2, CallOfDb, NodesAre
<1> HIDE DEF new
<1>4. SpinEnds(call.conn, call.db, new(failed), more)
  BY <1>2, <1>3 DEF SpinEnds
<1>5. TreeEnds(With(call.conn, call.db, new(failed)), more, overwritten)
  BY <1>2, <1>3, <1>4, CallOfDb, NodeEnds
<1> QED
  BY <1>1, <1>2, <1>5, AnswerQuiet

LEMMA SchemasFailedKeeps ==
    ASSUME TreeInv, NEW call \in BagToSet(pending), SchemasFailed(call)
    PROVE  TreeInv'
<1> DEFINE new == [call.node EXCEPT !.open = TRUE, !.schemasLoading = FALSE, !.schemasError = TRUE]
           more == BagToSet(pending) \ {call}
<1>1. Answer(call, With(call.conn, call.db, new), EmptyBag)
  BY Zenon DEF SchemasFailed
<1>2. overwritten' = overwritten /\ call.kind = "schemas" /\ call.conn \in SchemaCapable
  BY DEF SchemasFailed, TreeInv, CallIs
<1>3. new \in TreeNode /\ ~new.schemasLoading /\ new.schemasError
  BY <1>2, CallOfDb, NodesAre
<1> HIDE DEF new
<1>4. SpinEnds(call.conn, call.db, new, more)
  BY <1>2, <1>3 DEF SpinEnds
<1>5. TreeEnds(With(call.conn, call.db, new), more, overwritten)
  BY <1>2, <1>3, <1>4, CallOfDb, NodeEnds
<1> QED
  BY <1>1, <1>2, <1>5, AnswerQuiet

LEMMA StatementFailedKeeps ==
    ASSUME TreeInv, NEW call \in BagToSet(pending), StatementFailed(call)
    PROVE  TreeInv'
<1>1. Answer(call, nodes, EmptyBag) /\ overwritten' = overwritten /\ call.kind \notin Spinning
  BY DEF StatementFailed, Spinning
<1> QED
  BY <1>1, AloneEnds, AnswerQuiet

LEMMA SchemaCameKeeps ==
    ASSUME TreeInv, NEW call \in BagToSet(pending), SchemaCame(call)
    PROVE  TreeInv'
<1> DEFINE c == call.conn
           d == call.db
           schema(failed) == [open |-> TRUE, loading |-> FALSE, error |-> failed]
           new(failed) == IF Has(c, d)
                          THEN With(c, d, WithSchema(nodes[c][d], call.schema, schema(failed)))
                          ELSE nodes
           more == BagToSet(pending) \ {call}
<1>1. PICK failed \in BOOLEAN : Answer(call, new(failed), EmptyBag)
  BY Zenon DEF SchemaCame
<1>2. /\ overwritten' = overwritten /\ call.kind = "schema" /\ c \in SchemaCapable
      /\ call.schema \in Schemas
  BY DEF SchemaCame, TreeInv, CallIs
<1>3. TreeEnds(new(failed), more, overwritten)
  <2>1. CASE Has(c, d)
    <3>1. schema(failed) \in SchemaNode /\ ~schema(failed).loading
      BY DEF SchemaNode
    <3> HIDE DEF schema
    <3>2. TreeEnds(With(c, d, WithSchema(nodes[c][d], call.schema, schema(failed))), more, overwritten)
      BY <1>2, <2>1, <3>1, CallOfDb, SchemaEnds
    <3> QED
      BY <2>1, <3>2
  <2>2. CASE ~Has(c, d)
    BY <1>2, <2>2, AloneEnds
  <2> QED
    BY <2>1, <2>2
<1> HIDE DEF new
<1> QED
  BY <1>1, <1>2, <1>3, AnswerQuiet

\* The schemas are all closed, but for one whose objects are asked for.
LEMMA SchemasCameKeeps ==
    ASSUME TreeInv, NEW call \in BagToSet(pending), SchemasCame(call)
    PROVE  TreeInv'
<1> DEFINE c == call.conn
           d == call.db
           wasSeen == HasSchema(call.node, DefaultSchema)
           fresh == [s \in Schemas |-> ClosedSchema]
           default == IF wasSeen THEN [open |-> TRUE, loading |-> TRUE, error |-> FALSE] ELSE ClosedSchema
           all == [fresh EXCEPT ![DefaultSchema] = default]
           node == [nodes[c][d] EXCEPT !.open = TRUE, !.schemasLoading = FALSE,
                                       !.schemasError = FALSE, !.schemas = all]
           new == IF Has(c, d) THEN With(c, d, node) ELSE nodes
           e == TreeCall("schema", c, d, DefaultSchema, Closed)
           less == BagToSet(pending) \ {call}
<1>1. /\ Answer(call, new, IF wasSeen THEN SetToBag({e}) ELSE EmptyBag)
      /\ overwritten' = overwritten /\ call.kind = "schemas"
  BY Zenon DEF SchemasCame
<1>2. c \in Connections /\ c \in SchemaCapable /\ d \in Dbs
  BY <1>1, CallOfDb DEF TreeInv, CallIs
<1>3. /\ e.kind = "schema" /\ e.conn = c /\ e.db = d /\ e.schema = DefaultSchema
      /\ e.node = Closed
  BY DEF TreeCall
<1>4. /\ all \in [Schemas -> SchemaNode]
      /\ \A s \in Schemas : all[s].open => s = DefaultSchema /\ wasSeen
  <2>1. default \in SchemaNode /\ (default.open => wasSeen)
    BY ClosedIsNode DEF SchemaNode, ClosedSchema
  <2>2. ~ClosedSchema.open /\ ClosedSchema \in SchemaNode
    BY ClosedIsNode DEF ClosedSchema
  <2> HIDE DEF default, wasSeen
  <2> QED
    BY <2>1, <2>2, TreeAssumption
<1> HIDE DEF e, wasSeen, all
<1>5. ASSUME NEW more, less \subseteq more, wasSeen => e \in more
      PROVE  TreeEnds(new, more, overwritten)
  <2>1. CASE Has(c, d)
    <3>1. all \in SchemaMaps
      BY <1>4 DEF SchemaMaps
    <3>2. /\ node \in TreeNode /\ node.schemas = all
          /\ ~node.schemasLoading /\ ~node.schemasError
      <4>1. nodes[c][d] \in TreeNode
        BY <2>1, SeenNode
      <4> QED
        BY <3>1, <4>1, NodesAre
    <3> HIDE DEF node
    <3>3. SpinEnds(c, d, node, more)
      BY <1>2, <1>3, <1>4, <1>5, <3>2 DEF SpinEnds
    <3>4. TreeEnds(With(c, d, node), more, overwritten)
      BY <1>1, <1>2, <1>5, <3>2, <3>3, CallOfDb, NodeEnds
    <3> QED
      BY <2>1, <3>4
  <2>2. CASE ~Has(c, d)
    <3>1. TreeEnds(nodes, less, overwritten)
      BY <1>1, <2>2, AloneEnds
    <3> QED
      BY <1>5, <2>2, <3>1, TreeMoreEnds
  <2> QED
    BY <2>1, <2>2
<1> HIDE DEF new
<1>6. CASE wasSeen
  <2>1. CallIs(e)
    BY <1>2, <1>3, ClosedIsNode, TreeAssumption DEF CallIs, Kinds
  <2>2. TreeEnds(new, less \union {e}, overwritten')
    BY <1>1, <1>5
  <2> QED
    BY <1>1, <1>6, <2>1, <2>2, AnswerMore
<1>7. CASE ~wasSeen
  <2>1. TreeEnds(new, less, overwritten')
    BY <1>1, <1>5, <1>7
  <2> QED
    BY <1>1, <1>7, <2>1, AnswerQuiet
<1> QED
  BY <1>6, <1>7

LEMMA LoginSavedKeeps ==
    ASSUME TreeInv, NEW call \in BagToSet(pending), LoginSaved(call)
    PROVE  TreeInv'
<1> DEFINE c == call.conn
           d == call.db
           e == LoadCall(c, d, call.node)
           new == LoadingNode(c, call.node)
           more == (BagToSet(pending) \ {call}) \union {e}
<1>1. /\ call.kind = "login" /\ overwritten' = overwritten
      /\ dialog' = IF dialog # <<>> /\ dialog[1] = "login" THEN <<>> ELSE dialog
  BY DEF LoginSaved, RestStays
<1>2. DialogIs'
  BY <1>1 DEF TreeInv, DialogIs
<1>3. CASE call.node.open
  <2>1. nodes' = With(c, d, new) /\ pending' = (pending (-) SetToBag({call})) (+) SetToBag({e})
    BY <1>3 DEF LoginSaved
  <2>2. new \in TreeNode /\ SpinEnds(c, d, new, more) /\ CallIs(e)
    BY <1>1, CallOfDb, LoadingEnds
  <2> HIDE DEF e, new
  <2>3. TreeEnds(With(c, d, new), more, overwritten)
    BY <1>1, <2>2, CallOfDb, NodeEnds
  <2> QED
    BY <1>1, <1>2, <2>1, <2>2, <2>3, AnswerCalls
<1>4. CASE ~call.node.open
  <2>1. nodes' = nodes /\ pending' = pending (-) SetToBag({call})
    BY <1>4 DEF LoginSaved
  <2>2. TreeEnds(nodes, BagToSet(pending) \ {call}, overwritten)
    BY <1>1, AloneEnds DEF Spinning
  <2> QED
    BY <1>1, <1>2, <2>1, <2>2, OneAnswer
<1> QED
  BY <1>3, <1>4

LEMMA LoginFailedKeeps ==
    ASSUME TreeInv, NEW call \in BagToSet(pending), LoginFailed(call)
    PROVE  TreeInv'
<1>1. /\ call.kind \notin Spinning /\ overwritten' = overwritten /\ nodes' = nodes
      /\ pending' = pending (-) SetToBag({call})
      /\ dialog' = IF dialog = <<"login", call.conn, call.db, Busy>>
                   THEN [dialog EXCEPT ![4] = Nothing] ELSE dialog
      /\ call.kind = "login"
  BY DEF LoginFailed, RestStays, Spinning
<1>2. DialogIs'
  <2>1. CASE dialog = <<"login", call.conn, call.db, Busy>>
    <3>1. dialog' = <<"login", call.conn, call.db, Nothing>>
      BY <1>1, <2>1
    <3>2. call.conn \in Connections /\ call.db \in Dbs
      BY <1>1, CallOfDb
    <3> QED
      BY <3>1, <3>2 DEF DialogIs
  <2>2. CASE dialog # <<"login", call.conn, call.db, Busy>>
    BY <1>1, <2>2, DialogStays
  <2> QED
    BY <2>1, <2>2
<1>3. TreeEnds(nodes, BagToSet(pending) \ {call}, overwritten)
  BY <1>1, AloneEnds
<1> QED
  BY <1>1, <1>2, <1>3, OneAnswer

LEMMA DatabaseDroppedKeeps ==
    ASSUME TreeInv, NEW call \in BagToSet(pending), DatabaseDropped(call)
    PROVE  TreeInv'
<1> DEFINE c == call.conn
           e == TreeCall("databases", c, Nothing, Nothing, Closed)
           more == (BagToSet(pending) \ {call}) \union {e}
<1>1. /\ Answer(call, Assigned(nodes, c, JustListing), SetToBag({e}))
      /\ overwritten' = overwritten /\ call.kind = "drop_database"
  BY DEF DatabaseDropped
<1>2. e.kind = "databases" /\ e.conn = c /\ e.db = Nothing /\ e.node = Closed
  BY DEF TreeCall
<1> HIDE DEF e
<1>3. CallIs(e)
  BY <1>1, <1>2, CallOfDb, ClosedIsNode DEF CallIs, Kinds
<1>4. EndsAll(c, JustListing, more, overwritten)
  BY <1>2, ListingEnds
<1>5. TreeEnds(nodes, BagToSet(pending), overwritten) /\ \A k \in BagToSet(pending) : CallIs(k)
  BY DEF TreeInv, TreeEnds
<1>6. \A k \in BagToSet(pending) : k \in more \/ k.conn = c
  OBVIOUS
<1>7. TreeEnds(Assigned(nodes, c, JustListing), more, overwritten')
  BY <1>1, <1>4, <1>5, <1>6, MapEnds
<1> QED
  BY <1>1, <1>3, <1>7, AnswerMore

\* A node is written back over whatever happened to it, or over itself.
LEMMA ObjectDroppedKeeps ==
    ASSUME TreeInv, NEW call \in BagToSet(pending), ObjectDropped(call)
    PROVE  TreeInv'
<1> DEFINE c == call.conn
           d == call.db
           s == call.schema
           seen == call.node
           schema == [SchemaOf(seen, s, ClosedSchema) EXCEPT !.loading = TRUE]
           one == [seen EXCEPT !.loading = TRUE]
           marked == IF s = Nothing THEN one ELSE WithSchema(seen, s, schema)
           e == TreeCall("relist", c, d, s, seen)
           less == BagToSet(pending) \ {call}
           more == less \union {e}
<1>1. /\ call.kind = "drop" /\ c \in Connections /\ d \in Dbs /\ seen \in TreeNode
      /\ IF c \in SchemaCapable THEN s \in Schemas ELSE s = Nothing
  <2>1. call.kind = "drop"
    BY DEF ObjectDropped
  <2> QED
    BY <2>1, CallOfDb DEF TreeInv, CallIs
<1>2. CASE s # Nothing /\ ~HasSchema(seen, s)
  <2>1. Answer(call, nodes, EmptyBag) /\ overwritten' = overwritten
    BY <1>2, Zenon DEF ObjectDropped
  <2>2. TreeEnds(nodes, less, overwritten)
    BY <1>1, AloneEnds DEF Spinning
  <2> QED
    BY <2>1, <2>2, AnswerQuiet
<1>3. CASE ~(s # Nothing /\ ~HasSchema(seen, s))
  <2>1. /\ Answer(call, With(c, d, marked), SetToBag({e}))
        /\ overwritten' = IF Has(c, d) /\ nodes[c][d] = seen THEN overwritten
                          ELSE overwritten \union {<<c, d>>}
    BY <1>3, Zenon DEF ObjectDropped
  <2>2. /\ e.kind = "relist" /\ e.conn = c /\ e.db = d /\ e.schema = s /\ e.node = seen
    BY DEF TreeCall
  <2> HIDE DEF e
  <2>3. CallIs(e)
    BY <1>1, <1>3, <2>2 DEF CallIs, Kinds
  <2>4. \A k \in BagToSet(pending) : k \in more \/
            (k.conn = c /\ k.db = d /\ k.kind = "drop")
    BY <1>1
  <2>5. CASE s = Nothing
    <3>1. one \in TreeNode
      BY <1>1, NodesAre
    <3>2. c \notin SchemaCapable
      BY <1>1, <2>5, TreeAssumption
    <3> HIDE DEF one, more
    <3>3. SpinEnds(c, d, one, more)
      BY <2>2, <3>2 DEF SpinEnds, more
    <3>4. overwritten \subseteq overwritten'
      BY <2>1
    <3>5. TreeEnds(With(c, d, one), more, overwritten')
      BY <1>1, <2>4, <3>1, <3>3, <3>4, NodeEnds
    <3> QED
      BY <2>1, <2>3, <2>5, <3>5, AnswerMore DEF more
  <2>6. CASE s # Nothing
    <3>1. s \in Schemas /\ c \in SchemaCapable /\ HasSchema(seen, s)
      BY <1>1, <1>3, <2>6
    <3>2. schema \in SchemaNode
      <4>1. SchemaOf(seen, s, ClosedSchema) \in SchemaNode
        BY <1>1, <3>1, NodeIs DEF SchemaOf, HasSchema
      <4> QED
        BY <4>1 DEF SchemaNode
    <3> HIDE DEF schema, more
    <3>3. TreeEnds(With(c, d, WithSchema(seen, s, schema)), more, overwritten')
      <4>1. CASE Has(c, d) /\ nodes[c][d] = seen
        <5>1. TreeEnds(With(c, d, WithSchema(nodes[c][d], s, schema)), more, overwritten)
          BY <1>1, <2>2, <2>4, <3>1, <3>2, <4>1, SchemaEnds DEF more
        <5> QED
          BY <2>1, <4>1, <5>1
      <4>2. CASE ~(Has(c, d) /\ nodes[c][d] = seen)
        <5>1. overwritten \subseteq overwritten' /\ <<c, d>> \in overwritten'
          BY <2>1, <4>2
        <5>2. WithSchema(seen, s, schema) \in TreeNode
          BY <1>1, <3>1, <3>2, SchemaWritten
        <5> QED
          BY <1>1, <2>4, <5>1, <5>2, NodeEnds
      <4> QED
        BY <4>1, <4>2
    <3> QED
      BY <2>1, <2>3, <2>6, <3>3, AnswerMore DEF more
  <2> QED
    BY <2>5, <2>6
<1> QED
  BY <1>2, <1>3

LEMMA RelistedKeeps ==
    ASSUME TreeInv, NEW call \in BagToSet(pending), Relisted(call)
    PROVE  TreeInv'
<1> DEFINE c == call.conn
           d == call.db
           s == call.schema
           one == [call.node EXCEPT !.loading = FALSE]
           schema == [SchemaOf(nodes[c][d], s, call.node.schemas[s]) EXCEPT !.loading = FALSE]
           less == BagToSet(pending) \ {call}
<1>1. /\ call.kind = "relist" /\ c \in Connections /\ d \in Dbs /\ call.node \in TreeNode
      /\ IF c \in SchemaCapable THEN s \in Schemas ELSE s = Nothing
      /\ s # Nothing => HasSchema(call.node, s)
  <2>1. call.kind = "relist"
    BY DEF Relisted
  <2> QED
    BY <2>1, CallOfDb DEF TreeInv, CallIs
<1>2. /\ overwritten' = overwritten
      /\ Answer(call, IF s = Nothing THEN With(c, d, one)
                      ELSE IF Has(c, d) THEN With(c, d, WithSchema(nodes[c][d], s, schema))
                           ELSE nodes, EmptyBag)
  BY Zenon DEF Relisted
<1>3. CASE s = Nothing
  <2>1. one \in TreeNode /\ ~one.loading
    BY <1>1, NodesAre
  <2>2. c \notin SchemaCapable
    BY <1>1, <1>3, TreeAssumption
  <2> HIDE DEF one
  <2>3. SpinEnds(c, d, one, less)
    BY <2>1, <2>2 DEF SpinEnds
  <2>4. TreeEnds(With(c, d, one), less, overwritten)
    BY <1>1, <2>1, <2>3, CallOfDb, NodeEnds
  <2> QED
    BY <1>2, <1>3, <2>4, AnswerQuiet
<1>4. CASE s # Nothing /\ Has(c, d)
  <2>1. schema \in SchemaNode /\ ~schema.loading
    <3>1. SchemaOf(nodes[c][d], s, call.node.schemas[s]) \in SchemaNode
      BY <1>1, <1>4, SeenNode, NodeIs DEF SchemaOf, HasSchema
    <3> QED
      BY <3>1 DEF SchemaNode
  <2>2. c \in SchemaCapable /\ s \in Schemas
    BY <1>1, <1>4
  <2> HIDE DEF schema
  <2>3. TreeEnds(With(c, d, WithSchema(nodes[c][d], s, schema)), less, overwritten)
    BY <1>1, <1>4, <2>1, <2>2, SchemaEnds
  <2> QED
    BY <1>2, <1>4, <2>3, AnswerQuiet
<1>5. CASE s # Nothing /\ ~Has(c, d)
  <2>1. TreeEnds(nodes, less, overwritten)
    BY <1>1, <1>5, AloneEnds
  <2> QED
    BY <1>2, <1>5, <2>1, AnswerQuiet
<1> QED
  BY <1>3, <1>4, <1>5

-----------------------------------------------------------------------------
(* Connections come and go.                                                *)

LEMMA DeleteKeeps ==
    ASSUME TreeInv, NEW c \in Connections, Delete(c)
    PROVE  TreeInv'
<1> DEFINE call == TreeCall("delete", c, Nothing, Nothing, Closed)
<1>1. /\ pending' = pending (+) SetToBag({call}) /\ nodes' = nodes /\ dialog' = dialog
      /\ overwritten' = overwritten
  BY DEF Delete, Awaits
<1>2. call.kind = "delete" /\ call.conn = c /\ call.node = Closed
  BY DEF TreeCall
<1> HIDE DEF call
<1>3. CallIs(call)
  BY <1>2, ClosedIsNode DEF CallIs, Kinds
<1>4. TreeEnds(nodes', BagToSet(pending) \union {call}, overwritten')
  BY <1>1, SameTree
<1> QED
  BY <1>1, <1>3, <1>4, OneCall, DialogStays

LEMMA DeletedKeeps ==
    ASSUME TreeInv, NEW call \in BagToSet(pending), Deleted(call)
    PROVE  TreeInv'
<1>1. /\ call.kind \notin Spinning /\ pending' = pending (-) SetToBag({call})
      /\ dialog' = dialog /\ overwritten' = overwritten
      /\ nodes' = [c \in DOMAIN nodes \ {call.conn} |-> nodes[c]]
  BY DEF Deleted, Spinning
<1>2. TreeEnds(nodes, BagToSet(pending) \ {call}, overwritten)
  BY <1>1, AloneEnds
<1>3. TreeEnds(nodes', BagToSet(pending) \ {call}, overwritten')
  BY <1>1, <1>2 DEF TreeEnds
<1> QED
  BY <1>1, <1>3, OneAnswer, DialogStays

LEMMA DeleteFailedKeeps ==
    ASSUME TreeInv, NEW call \in BagToSet(pending), DeleteFailed(call)
    PROVE  TreeInv'
<1>1. /\ call.kind \notin Spinning /\ pending' = pending (-) SetToBag({call})
      /\ dialog' = dialog /\ overwritten' = overwritten /\ nodes' = nodes
  BY DEF DeleteFailed, Spinning
<1>2. TreeEnds(nodes', BagToSet(pending) \ {call}, overwritten')
  BY <1>1, AloneEnds
<1> QED
  BY <1>1, <1>2, OneAnswer, DialogStays

LEMMA ReloadKeeps ==
    ASSUME TreeInv, Reload \/ ReloadFailed \/ \E list \in SUBSET Connections : Reloaded(list)
    PROVE  TreeInv'
<1>1. /\ pending' = pending /\ dialog' = dialog /\ overwritten' = overwritten
      /\ nodes' = nodes \/ nodes' = NoNodes
  BY DEF Reload, ReloadFailed, Reloaded
<1>2. TreeEnds(NoNodes, BagToSet(pending), overwritten)
  BY DEF TreeEnds, NoNodes
<1>3. TreeEnds(nodes', BagToSet(pending), overwritten')
  BY <1>1, <1>2, SameTree
<1> QED
  BY <1>1, <1>3, NoCall, DialogStays

\* A spinner that is drawn is that of a map or a node that is there.
LEMMA DrawnEnds == TreeInv => SpinnersEnd
<1> SUFFICES ASSUME TreeInv, NEW c \in connections
             PROVE  /\ ConnSpins(c) => Underway({"databases"}, c, Nothing)
                    /\ \A d \in Dbs : <<c, d>> \notin overwritten =>
                           /\ DbSpins(c, d) => Underway({"objects", "schemas", "relist"}, c, d)
                           /\ \A s \in Schemas : SchemaSpins(c, d, s) =>
                                  \E call \in BagToSet(pending) :
                                      /\ call.kind \in {"schema", "relist"}
                                      /\ call.conn = c /\ call.db = d /\ call.schema = s
  BY DEF SpinnersEnd
<1>1. ConnSpins(c) => Underway({"databases"}, c, Nothing)
  <2>1. Has(c, Listing) => EndsAll(c, nodes[c], BagToSet(pending), overwritten)
                          /\ Listing \in DOMAIN nodes[c]
    BY DEF Has, TreeInv
  <2> QED
    BY <2>1 DEF ConnSpins, EndsAll, Underway
<1>2. ASSUME NEW d \in Dbs, <<c, d>> \notin overwritten, DbSpins(c, d)
      PROVE  Underway({"objects", "schemas", "relist"}, c, d)
  <2>1. Has(c, d)
    BY <1>2 DEF DbSpins, DbDrawn
  <2>2. SpinEnds(c, d, nodes[c][d], BagToSet(pending))
    BY <1>2, <2>1, SeenNode
  <2> QED
    BY <1>2, <2>2 DEF SpinEnds, DbSpins, Underway
<1>3. ASSUME NEW d \in Dbs, <<c, d>> \notin overwritten, NEW s \in Schemas, SchemaSpins(c, d, s)
      PROVE  \E call \in BagToSet(pending) :
                 /\ call.kind \in {"schema", "relist"}
                 /\ call.conn = c /\ call.db = d /\ call.schema = s
  <2>1. Has(c, d)
    BY <1>3 DEF SchemaSpins, SchemaDrawn, DbDrawn
  <2>2. SpinEnds(c, d, nodes[c][d], BagToSet(pending))
    BY <1>3, <2>1, SeenNode
  <2> QED
    BY <1>3, <2>2 DEF SpinEnds, SchemaSpins, SchemaDrawn, HasSchema
<1> QED
  BY <1>1, <1>2, <1>3

\* However many connections, databases, schemas and calls there are, and in whatever order
\* the answers come, between deletions, reloads, logins and drops: what is drawn as under
\* way has its call under way, unless a drop wrote an old node back over a change
\* (ConnectionTree.tsx: loadSchemas, toggleSchema, toggleDb, refreshDb, refreshConnDbs,
\* refreshObjectList).
THEOREM SpinnersHaveCalls == TreeSpec => []SpinnersEnd
<1>1. TreeInit => TreeInv
  <2> SUFFICES ASSUME TreeInit PROVE TreeInv
    OBVIOUS
  <2>1. IsABag(EmptyBag) /\ BagToSet(EmptyBag) = {}
    BY DEF EmptyBag, SetToBag, IsABag, BagToSet
  <2>2. pending = EmptyBag /\ dialog = <<>> /\ nodes = NoNodes
    BY DEF TreeInit
  <2>3. DOMAIN nodes = {}
    BY <2>2 DEF NoNodes
  <2> QED
    BY <2>1, <2>2, <2>3 DEF TreeInv, DialogIs
<1>2. TreeInv /\ [TreeNext]_treeVars => TreeInv'
  <2> SUFFICES ASSUME TreeInv, [TreeNext]_treeVars
               PROVE  TreeInv'
    OBVIOUS
  <2>1. ASSUME NEW c \in Connections, ToggleConn(c) \/ RefreshConnDbs(c) \/ Delete(c)
        PROVE  TreeInv'
    <3>1. CASE RefreshConnDbs(c)
      <4>1. ListsDatabases(c) /\ dialog' = dialog /\ overwritten' = overwritten
        BY <3>1 DEF RefreshConnDbs, RestStays
      <4> QED
        BY <4>1, TreeListsKeep
    <3> QED
      BY <2>1, <3>1, ToggleConnKeeps, DeleteKeeps
  <2>2. ASSUME NEW c \in Connections, NEW d \in Dbs,
               ToggleDb(c, d) \/ RefreshDb(c, d) \/ AskDropDatabase(c, d) \/ AskLogin(c, d)
        PROVE  TreeInv'
    <3>1. CASE RefreshDb(c, d)
      <4>1. Loads(c, d) /\ dialog' = dialog /\ overwritten' = overwritten /\ Has(c, d)
        BY <3>1 DEF RefreshDb, RestStays, DbDrawn
      <4> QED
        BY <4>1, LoadsKeep
    <3> QED
      BY <2>2, <3>1, ToggleDbKeeps, AskKeeps
  <2>3. ASSUME NEW c \in Connections, NEW d \in Dbs, NEW s \in Schemas, ToggleSchema(c, d, s)
        PROVE  TreeInv'
    BY <2>3, ToggleSchemaKeeps
  <2>4. ASSUME NEW c \in Connections, NEW d \in Dbs, NEW s, AskDropObject(c, d, s)
        PROVE  TreeInv'
    BY <2>4, AskDropObjectKeeps
  <2>5. ASSUME NEW call \in BagToSet(pending),
               \/ DatabasesCame(call) \/ DatabasesFailed(call) \/ ObjectsCame(call)
               \/ SchemasCame(call) \/ SchemasFailed(call) \/ SchemaCame(call)
               \/ LoginSaved(call) \/ LoginFailed(call)
        PROVE  TreeInv'
    BY <2>5, DatabasesCameKeeps, DatabasesFailedKeeps, ObjectsCameKeeps, SchemasCameKeeps,
       SchemasFailedKeeps, SchemaCameKeeps, LoginSavedKeeps, LoginFailedKeeps
  <2>6. ASSUME NEW call \in BagToSet(pending),
               \/ StatementFailed(call) \/ DatabaseDropped(call) \/ ObjectDropped(call)
               \/ Relisted(call) \/ Deleted(call) \/ DeleteFailed(call)
        PROVE  TreeInv'
    BY <2>6, StatementFailedKeeps, DatabaseDroppedKeeps, ObjectDroppedKeeps, RelistedKeeps,
       DeletedKeeps, DeleteFailedKeeps
  <2>7. CASE CancelDialog \/ ConfirmDialog \/ SendLogin \/ Reload \/ ReloadFailed
             \/ \E list \in SUBSET Connections : Reloaded(list)
    BY <2>7, CancelDialogKeeps, ConfirmDialogKeeps, SendLoginKeeps, ReloadKeeps
  <2>8. CASE UNCHANGED treeVars
    <3>1. nodes' = nodes /\ pending' = pending /\ dialog' = dialog /\ overwritten' = overwritten
      BY <2>8 DEF treeVars
    <3> QED
      BY <3>1, SameTree, NoCall, DialogStays
  <2> QED
    BY <2>1, <2>2, <2>3, <2>4, <2>5, <2>6, <2>7, <2>8, Zenon DEF TreeNext
<1> QED
  BY <1>1, <1>2, DrawnEnds, PTL DEF TreeSpec

-----------------------------------------------------------------------------
(* Tokens.                                                                 *)

\* A secret whose time is over is not that of an enabled database.
EndedIsOver == papiConfig.enabled => papiConfig.secret \notin ended

\* A secret that a client has or has read is over, or still is the present one.
Good(x) == papiConfig.enabled /\ papiConfig.secret = x
HeldWasGood ==
    \A c \in Callers : \A x \in {caller[c].token, caller[c].seen} : x # 0 => x \in ended \/ Good(x)

PapiInv == secretsMade \in Nat /\ PapiTyped /\ EndedIsOver /\ HeldWasGood

\* Before the first request nothing is held.
LEMMA PapiInitially == PapiInit => PapiInv
<1>. SUFFICES ASSUME PapiInit PROVE PapiInv
     OBVIOUS
<1>1. secretsMade \in Nat /\ NoPapiConfig \in PapiConfig /\ 0 \in Secrets
      BY DEF PapiInit, NoPapiConfig, PapiConfig, Secrets
<1>2. PapiTyped
      BY <1>1 DEF PapiInit, PapiTyped, AdminState, CallerState
<1>3. EndedIsOver /\ HeldWasGood
      BY DEF PapiInit, EndedIsOver, HeldWasGood
<1>. QED BY <1>1, <1>2, <1>3 DEF PapiInv

\* The types, which depend on the secrets made, stay.
SameTypes ==
    /\ PapiConfig' = PapiConfig /\ Secrets' = Secrets
    /\ AdminState' = AdminState /\ CallerState' = CallerState

\* A request that goes on to a state that it may be in keeps the types.
LEMMA AdminGoesOn ==
    ASSUME admin \in [Admins -> AdminState], NEW a \in Admins, NEW s \in AdminState,
           admin' = [admin EXCEPT ![a] = s], AdminState \subseteq AdminState'
    PROVE  admin' \in [Admins -> AdminState']
OBVIOUS

\* So does one of which only the place changes.
LEMMA AdminAt ==
    ASSUME admin \in [Admins -> AdminState], NEW a \in Admins, AdminState \subseteq AdminState',
           NEW at \in {"table", "done", "refused"}, Goes(a, at)
    PROVE  admin' \in [Admins -> AdminState']
<1>1. [admin[a] EXCEPT !.at = at] \in AdminState
      BY DEF AdminState
<1>2. admin' = [admin EXCEPT ![a] = [admin[a] EXCEPT !.at = at]]
      BY DEF Goes
<1>. QED BY <1>1, <1>2, AdminGoesOn

\* The same of a client.
LEMMA CallerGoesOn ==
    ASSUME caller \in [Callers -> CallerState], NEW c \in Callers, NEW s \in CallerState,
           caller' = [caller EXCEPT ![c] = s], CallerState' = CallerState
    PROVE  caller' \in [Callers -> CallerState']
OBVIOUS

\* What leaves the row of the database and the secrets alone keeps what clients hold good.
LEMMA PapiRowUnchanged ==
    ASSUME PapiInv, UNCHANGED <<papiConfig, secretsMade, ended, caller>>
    PROVE  secretsMade' \in Nat /\ EndedIsOver' /\ HeldWasGood' /\ SameTypes
BY DEF PapiInv, EndedIsOver, HeldWasGood, Good, SameTypes, PapiConfig, Secrets, AdminState, CallerState

\* A commit that ends the secret it replaces keeps both.
LEMMA PapiRowReplaced ==
    ASSUME PapiInv, Ends(papiConfig, papiConfig'), UNCHANGED caller,
           papiConfig'.enabled => \/ papiConfig' = papiConfig
                                  \/ papiConfig'.secret = secretsMade + 1
    PROVE  EndedIsOver' /\ HeldWasGood'
<1>1. secretsMade \in Nat /\ ended \subseteq 0..secretsMade /\ papiConfig.secret \in 0..secretsMade
      BY DEF PapiInv, PapiTyped, PapiConfig, Secrets
<1>2. secretsMade + 1 \notin ended /\ papiConfig.secret # secretsMade + 1
      BY <1>1
<1>3. ended' = IF papiConfig.enabled /\ (~papiConfig'.enabled \/ papiConfig'.secret # papiConfig.secret)
               THEN ended \union {papiConfig.secret} ELSE ended
      BY DEF Ends
<1>4. EndedIsOver'
      BY <1>2, <1>3 DEF PapiInv, EndedIsOver
<1>5. ASSUME NEW x, x \in ended \/ Good(x) PROVE x \in ended' \/ Good(x)'
      BY <1>3, <1>5 DEF Good
<1>6. HeldWasGood'
      BY <1>5 DEF PapiInv, HeldWasGood
<1>. QED BY <1>4, <1>6

\* Every step keeps the invariant.
LEMMA PapiStep == PapiInv /\ [PapiNext]_papiVars => PapiInv'
<1>. SUFFICES ASSUME PapiInv, [PapiNext]_papiVars PROVE PapiInv'
     OBVIOUS
<1>0. secretsMade \in Nat /\ PapiTyped /\ EndedIsOver /\ HeldWasGood
      BY DEF PapiInv
<1>1. ASSUME NEW a \in Admins, ReadStatus(a) PROVE PapiInv'
      <2>1. secretsMade' \in Nat /\ EndedIsOver' /\ HeldWasGood' /\ SameTypes
            BY <1>1, PapiRowUnchanged DEF ReadStatus
      <2>. DEFINE s == [admin[a] EXCEPT !.seen = papiConfig,
                                       !.at = IF papiConfig.enabled THEN "table" ELSE "database"]
      <2>2. admin' = [admin EXCEPT ![a] = s]
            BY <1>0, <1>1 DEF ReadStatus, PapiTyped, AdminState
      <2>3. s \in AdminState
            BY <1>0 DEF PapiTyped, AdminState
      <2>. HIDE DEF s
      <2>4. admin' \in [Admins -> AdminState']
            BY <1>0, <2>1, <2>2, <2>3, AdminGoesOn DEF PapiTyped, SameTypes
      <2>5. PapiTyped'
            BY <1>0, <1>1, <2>1, <2>4 DEF ReadStatus, PapiTyped, SameTypes
      <2>. QED BY <2>1, <2>5 DEF PapiInv
<1>2. ASSUME NEW a \in Admins, ReadConfig(a) PROVE PapiInv'
      <2>1. secretsMade' \in Nat /\ EndedIsOver' /\ HeldWasGood' /\ SameTypes
            BY <1>2, PapiRowUnchanged DEF ReadConfig
      <2>. DEFINE s == [admin[a] EXCEPT !.seen = IF admin[a].seen = NoPapiConfig THEN papiConfig ELSE admin[a].seen,
                                       !.at = "commits"]
      <2>2. admin' = [admin EXCEPT ![a] = s]
            BY <1>0, <1>2 DEF ReadConfig, PapiTyped, AdminState
      <2>3. s \in AdminState
            BY <1>0 DEF PapiTyped, AdminState
      <2>. HIDE DEF s
      <2>4. admin' \in [Admins -> AdminState']
            BY <1>0, <2>1, <2>2, <2>3, AdminGoesOn DEF PapiTyped, SameTypes
      <2>5. PapiTyped'
            BY <1>0, <1>2, <2>1, <2>4 DEF ReadConfig, PapiTyped, SameTypes
      <2>. QED BY <2>1, <2>5 DEF PapiInv
<1>3. ASSUME NEW a \in Admins, CommitEnable(a) PROVE PapiInv'
      <2>1. CASE admin[a].seen = NoPapiConfig /\ papiConfig # NoPapiConfig
            <3>1. secretsMade' \in Nat /\ EndedIsOver' /\ HeldWasGood' /\ SameTypes
                  BY <1>3, <2>1, PapiRowUnchanged DEF CommitEnable
            <3>2. admin' \in [Admins -> AdminState']
                  BY <1>0, <1>3, <2>1, <3>1, AdminAt DEF CommitEnable, PapiTyped, SameTypes
            <3>3. PapiTyped'
                  BY <1>0, <1>3, <2>1, <3>1, <3>2 DEF CommitEnable, PapiTyped, SameTypes
            <3>. QED BY <3>1, <3>3 DEF PapiInv
      <2>2. CASE ~(admin[a].seen = NoPapiConfig /\ papiConfig # NoPapiConfig)
            <3>1. /\ secretsMade' = secretsMade + 1 /\ UNCHANGED <<papiTable, caller>>
                  /\ papiConfig' = [enabled |-> ~admin[a].seen.enabled \/ papiConfig.enabled,
                                    secret |-> secretsMade']
                  /\ Ends(papiConfig, papiConfig')
                  /\ \E at \in {"done", "table"} : Goes(a, at)
                  BY <1>3, <2>2 DEF CommitEnable, SecretOf
            <3>2. papiConfig'.secret = secretsMade + 1
                  BY <3>1
            <3>3. EndedIsOver' /\ HeldWasGood'
                  BY <3>1, <3>2, PapiRowReplaced
            <3>4. secretsMade' \in Nat /\ Secrets \subseteq Secrets' /\ secretsMade' \in Secrets'
                  BY <1>0, <3>1 DEF Secrets
            <3>5. PapiConfig \subseteq PapiConfig'
                  BY <3>4 DEF PapiConfig
            <3>6. (~admin[a].seen.enabled \/ papiConfig.enabled) \in BOOLEAN
                  OBVIOUS
            <3>7. papiConfig' \in PapiConfig'
                  BY <3>1, <3>4, <3>6 DEF PapiConfig
            <3>8. ended' \subseteq Secrets'
                  BY <1>0, <3>1, <3>4 DEF Ends, PapiTyped, PapiConfig
            <3>9. AdminState \subseteq AdminState' /\ CallerState \subseteq CallerState'
                  BY <3>4, <3>5 DEF AdminState, CallerState
            <3>10. admin' \in [Admins -> AdminState']
                  BY <1>0, <3>1, <3>9, AdminAt DEF PapiTyped
            <3>11. PapiTyped'
                  BY <1>0, <3>1, <3>7, <3>8, <3>9, <3>10 DEF PapiTyped
            <3>. QED BY <3>3, <3>4, <3>11 DEF PapiInv
      <2>. QED BY <2>1, <2>2
<1>4. ASSUME NEW a \in Admins, CommitDisable(a) PROVE PapiInv'
      <2>1. /\ papiConfig' = papiConfig \/ papiConfig' = [papiConfig EXCEPT !.enabled = FALSE]
            /\ Ends(papiConfig, papiConfig') /\ Goes(a, "done")
            /\ UNCHANGED <<papiTable, secretsMade, caller>>
            BY <1>4 DEF CommitDisable
      <2>2. papiConfig \in PapiConfig /\ SameTypes
            BY <1>0, <2>1 DEF PapiTyped, SameTypes, PapiConfig, Secrets, AdminState, CallerState
      <2>3. papiConfig' \in PapiConfig /\ (papiConfig'.enabled => papiConfig' = papiConfig)
            BY <2>1, <2>2 DEF PapiConfig
      <2>4. EndedIsOver' /\ HeldWasGood'
            BY <2>1, <2>3, PapiRowReplaced
      <2>5. ended' \subseteq Secrets
            BY <1>0, <2>1, <2>2 DEF Ends, PapiTyped, PapiConfig
      <2>6. admin' \in [Admins -> AdminState']
            BY <1>0, <2>1, <2>2, AdminAt DEF PapiTyped, SameTypes
      <2>7. PapiTyped'
            BY <1>0, <2>1, <2>2, <2>3, <2>5, <2>6 DEF PapiTyped, SameTypes
      <2>. QED BY <1>0, <2>1, <2>4, <2>7 DEF PapiInv
<1>5. ASSUME NEW a \in Admins, ReadTable(a) \/ CommitTable(a) PROVE PapiInv'
      <2>1. secretsMade' \in Nat /\ EndedIsOver' /\ HeldWasGood' /\ SameTypes
            BY <1>5, PapiRowUnchanged DEF ReadTable, CommitTable
      <2>2. UNCHANGED <<papiConfig, ended, caller>>
            BY <1>5 DEF ReadTable, CommitTable
      <2>3. papiTable' \in {"on", "off", NoTableRow}
            BY <1>0, <1>5 DEF ReadTable, CommitTable, PapiTyped
      <2>4. ASSUME ReadTable(a) PROVE admin' \in [Admins -> AdminState']
            <3>. DEFINE s == [admin[a] EXCEPT !.table = papiTable, !.at = "commits table"]
            <3>1. admin' = [admin EXCEPT ![a] = s]
                  BY <1>0, <2>4 DEF ReadTable, PapiTyped, AdminState
            <3>2. s \in AdminState
                  BY <1>0 DEF PapiTyped, AdminState
            <3>. HIDE DEF s
            <3>. QED BY <1>0, <2>1, <3>1, <3>2, AdminGoesOn DEF PapiTyped, SameTypes
      <2>5. ASSUME CommitTable(a) PROVE admin' \in [Admins -> AdminState']
            <3>1. \E at \in {"done", "refused"} : Goes(a, at)
                  BY <2>5 DEF CommitTable
            <3>. QED BY <1>0, <2>1, <3>1, AdminAt DEF PapiTyped, SameTypes
      <2>6. PapiTyped'
            BY <1>0, <1>5, <2>1, <2>2, <2>3, <2>4, <2>5 DEF PapiTyped, SameTypes
      <2>. QED BY <2>1, <2>6 DEF PapiInv
<1>6. ASSUME NEW c \in Callers,
             ReadSecret(c) \/ CreateToken(c) \/ ValidateToken(c) \/ ServeRows(c) \/ CallAgain(c)
      PROVE  PapiInv'
      <2>1. UNCHANGED <<papiConfig, papiTable, secretsMade, admin, ended>>
            BY <1>6 DEF ReadSecret, CreateToken, ValidateToken, ServeRows, CallAgain
      <2>2. SameTypes /\ papiConfig.secret \in Secrets
            BY <1>0, <2>1 DEF SameTypes, PapiConfig, Secrets, AdminState, CallerState, PapiTyped
      <2>3. PapiTyped'
            <3>1. caller[c] \in CallerState
                  BY <1>0 DEF PapiTyped
            <3>2. ASSUME NEW at \in {"new", "may have one", "has token", "shows it", "authed",
                                    "served", "refused"}
                  PROVE  /\ [caller[c] EXCEPT !.at = at] \in CallerState
                         /\ [caller[c] EXCEPT !.seen = papiConfig.secret, !.at = at] \in CallerState
                         /\ [caller[c] EXCEPT !.token = caller[c].seen, !.at = at] \in CallerState
                  BY <2>2, <3>1 DEF CallerState
            <3>3. \E s \in CallerState : caller' = [caller EXCEPT ![c] = s]
                  <4>1. CASE ReadSecret(c)
                        <5>1. CASE papiConfig.enabled
                              <6>. DEFINE at == IF caller[c].at = "new" THEN "may have one" ELSE "shows it"
                                          s == [caller[c] EXCEPT !.seen = papiConfig.secret, !.at = at]
                              <6>1. caller' = [caller EXCEPT ![c] = s]
                                    BY <1>0, <4>1, <5>1 DEF ReadSecret, PapiTyped, CallerState
                              <6>2. s \in CallerState
                                    BY <3>2
                              <6>. HIDE DEF s
                              <6>. QED BY <6>1, <6>2
                        <5>2. CASE ~papiConfig.enabled
                              BY <1>0, <3>1, <3>2, <4>1, <5>2 DEF ReadSecret
                        <5>. QED BY <5>1, <5>2
                  <4>2. CASE CreateToken(c)
                        <5>. DEFINE s == [caller[c] EXCEPT !.token = caller[c].seen, !.at = "has token"]
                        <5>1. caller' = [caller EXCEPT ![c] = s]
                              BY <1>0, <4>2 DEF CreateToken, PapiTyped, CallerState
                        <5>2. s \in CallerState
                              BY <3>2
                        <5>. HIDE DEF s
                        <5>. QED BY <5>1, <5>2
                  <4>3. CASE ValidateToken(c)
                        BY <3>2, <4>3 DEF ValidateToken
                  <4>4. CASE ServeRows(c)
                        BY <3>2, <4>4 DEF ServeRows
                  <4>5. CASE CallAgain(c)
                        BY <3>2, <4>5 DEF CallAgain
                  <4>. QED BY <1>6, <4>1, <4>2, <4>3, <4>4, <4>5
            <3>4. caller' \in [Callers -> CallerState']
                  BY <1>0, <2>2, <3>3, CallerGoesOn DEF PapiTyped, SameTypes
            <3>. QED BY <1>0, <2>1, <2>2, <3>4 DEF PapiTyped, SameTypes
      <2>4. \A d \in Callers : \A x \in {caller'[d].token, caller'[d].seen} :
                x \in {caller[d].token, caller[d].seen} \/ Good(x)
            <3>. SUFFICES ASSUME NEW d \in Callers
                          PROVE  \A x \in {caller'[d].token, caller'[d].seen} :
                                     x \in {caller[d].token, caller[d].seen} \/ Good(x)
                 OBVIOUS
            <3>1. caller \in [Callers -> CallerState] /\ caller[d] \in CallerState
                  BY <1>0 DEF PapiTyped
            <3>2. CASE ReadSecret(c)
                  BY <3>1, <3>2 DEF ReadSecret, CallerState, Good
            <3>3. CASE CreateToken(c)
                  BY <3>1, <3>3 DEF CreateToken, CallerState
            <3>4. CASE ValidateToken(c)
                  BY <3>1, <3>4 DEF ValidateToken, CallerState
            <3>5. CASE ServeRows(c)
                  BY <3>1, <3>5 DEF ServeRows, CallerState
            <3>6. CASE CallAgain(c)
                  BY <3>1, <3>6 DEF CallAgain, CallerState
            <3>. QED BY <1>6, <3>2, <3>3, <3>4, <3>5, <3>6
      <2>5. EndedIsOver' /\ HeldWasGood'
            BY <1>0, <2>1, <2>4 DEF EndedIsOver, HeldWasGood, Good
      <2>. QED BY <1>0, <2>1, <2>3, <2>5 DEF PapiInv
<1>7. ASSUME UNCHANGED papiVars PROVE PapiInv'
      <2>1. UNCHANGED <<papiConfig, papiTable, secretsMade, admin, caller, ended>>
            BY <1>7 DEF papiVars
      <2>2. secretsMade' \in Nat /\ EndedIsOver' /\ HeldWasGood' /\ SameTypes
            BY <2>1, PapiRowUnchanged
      <2>3. PapiTyped'
            BY <1>0, <2>1, <2>2 DEF PapiTyped, SameTypes
      <2>. QED BY <2>2, <2>3 DEF PapiInv
<1>. QED BY <1>1, <1>2, <1>3, <1>4, <1>5, <1>6, <1>7 DEF PapiNext

\* For any number of requests that enable and disable and of clients: a token that stopped
\* being good is never good again, and no other token stops (papi_service.py).
THEOREM DeadTokens == PapiSpec => []TokensStayDead
<1>1. PapiInv => TokensStayDead
      BY DEF PapiInv, EndedIsOver, HeldWasGood, Good, TokensStayDead
<1>. QED BY PapiInitially, PapiStep, <1>1, PTL DEF PapiSpec

-----------------------------------------------------------------------------
(* Settings.                                                               *)

\* What a call is about to keep is present, or about to be forgotten, or was overtaken.
ReadIsCurrent ==
    \A r \in Readers : reader[r].at = "resumes" /\ reader[r].of # appSettings =>
        reader[r].crossed \/ \E s \in Saves : save[s] = "committed"

LlmInv == LlmTyped /\ SettingsAreCurrent /\ ReadIsCurrent

\* Nothing is kept at first.
LEMMA LlmInitially == LlmInit => LlmInv
BY DEF LlmInit, LlmInv, LlmTyped, SettingsAreCurrent, ReadIsCurrent, NoConfigKept

\* Every step keeps the invariant: a commit excuses what is old, until it is forgotten.
LEMMA LlmStep == LlmInv /\ [LlmNext]_llmVars => LlmInv'
<1>. SUFFICES ASSUME LlmInv, [LlmNext]_llmVars PROVE LlmInv'
     OBVIOUS
<1>. USE DEF LlmInv, LlmTyped, SettingsAreCurrent, ReadIsCurrent
<1>1. ASSUME NEW r \in Readers, GetConfig(r) PROVE LlmInv'
      <2>1. llmCache # NoConfigKept => llmCache.of \in Saves \union {0}
            OBVIOUS
      <2>. QED BY <1>1, <2>1 DEF GetConfig
<1>2. ASSUME NEW r \in Readers, RowsRead(r) PROVE LlmInv'
      BY <1>2 DEF RowsRead
<1>3. ASSUME NEW r \in Readers, KeepConfig(r) PROVE LlmInv'
      BY <1>3 DEF KeepConfig
<1>4. ASSUME NEW s \in Saves, CommitSettings(s) PROVE LlmInv'
      BY <1>4 DEF CommitSettings
<1>5. ASSUME NEW s \in Saves, Invalidate(s) PROVE LlmInv'
      BY <1>5 DEF Invalidate, Forgotten, NoConfigKept
<1>6. ASSUME UNCHANGED llmVars PROVE LlmInv'
      BY <1>6 DEF llmVars
<1>. QED BY <1>1, <1>2, <1>3, <1>4, <1>5, <1>6 DEF LlmNext

\* For any number of reads and saves: the settings kept are those saved last, or about to be
\* forgotten, or come from a read that a save overtook (llm_settings.py).
THEOREM CurrentSettings == LlmSpec => []SettingsAreCurrent
<1>1. LlmInv => SettingsAreCurrent
      BY DEF LlmInv
<1>. QED BY LlmInitially, LlmStep, <1>1, PTL DEF LlmSpec

-----------------------------------------------------------------------------
(* Adapters.                                                               *)

\* A change that is closing has something to close; from its drop to its commit, what is
\* cached is crossed.
DroppedIsGone ==
    \A c \in Updates :
        /\ change[c] = "closing" => cached # 0
        /\ change[c] = "dropped" => cached = 0 \/ adapters[cached].crossed

\* A request that was not crossed has the credentials there are, and will find an adapter.
RequestIsCurrent ==
    \A r \in Requests :
        /\ request[r].at \in {"look", "make"} => request[r].crossed \/ request[r].of = credentials
        /\ request[r].at = "fetch" => request[r].crossed \/ cached # 0
        /\ request[r].at = "using" => request[r].adapter # 0

AdapterInv == AdaptersTyped /\ AdapterIsCurrent /\ DroppedIsGone /\ RequestIsCurrent

\* There is no adapter at first.
LEMMA AdaptersInitially == AdaptersInit => AdapterInv
BY DEF AdaptersInit, NotCome, AdapterInv, AdaptersTyped, AdapterIsCurrent, DroppedIsGone,
       RequestIsCurrent, Dropping, Adapter

\* A step that leaves the adapters and the changes alone and moves one request.
LEMMA AdaptersRequestStep ==
    ASSUME AdapterInv, NEW r \in Requests,
           ReadConnection(r) \/ Look(r) \/ Take(r) \/ RequestDone(r)
    PROVE  AdapterInv'
<1>. USE DEF AdapterInv, AdaptersTyped
<1>1. UNCHANGED <<credentials, adapters, cached, change>>
      BY DEF ReadConnection, Look, Take, RequestDone
<1>2. AdaptersTyped'
      BY <1>1 DEF ReadConnection, Look, Take, RequestDone
<1>3. DroppedIsGone'
      BY <1>1 DEF DroppedIsGone
<1>4. \A q \in Requests : q # r => request'[q] = request[q]
      BY DEF ReadConnection, Look, Take, RequestDone
<1>5. Dropping' = Dropping
      BY <1>1 DEF Dropping
<1>6. /\ request'[r].at \in {"look", "make"} => request'[r].crossed \/ request'[r].of = credentials
      /\ request'[r].at = "fetch" => request'[r].crossed \/ cached # 0
      /\ request'[r].at = "using" => request'[r].adapter # 0
      /\ request'[r].at = "failed" => request'[r].crossed
      /\ request'[r].at = "using" /\ adapters[request'[r].adapter].closed
             => request'[r].crossed \/ Dropping
      <2>1. CASE ReadConnection(r)
            BY <2>1 DEF ReadConnection, RequestIsCurrent
      <2>2. CASE Look(r)
            BY <2>2 DEF Look, RequestIsCurrent
      <2>3. CASE Take(r)
            <3>1. /\ request'[r].at = IF cached = 0 THEN "failed" ELSE "using"
                  /\ request'[r].adapter = cached /\ request'[r].crossed = request[r].crossed
                  /\ request[r].at = "fetch"
                  BY <2>3 DEF Take
            <3>. QED BY <3>1 DEF AdapterIsCurrent, RequestIsCurrent
      <2>4. CASE RequestDone(r)
            BY <2>4 DEF RequestDone
      <2>. QED BY <2>1, <2>2, <2>3, <2>4
<1>7. RequestIsCurrent' /\ AdapterIsCurrent'
      BY <1>1, <1>4, <1>5, <1>6 DEF RequestIsCurrent, AdapterIsCurrent
<1>. QED BY <1>2, <1>3, <1>7

\* A new adapter is as current as the request that makes it.
LEMMA AdaptersMakeStep ==
    ASSUME AdapterInv, NEW r \in Requests, MakeAdapter(r)
    PROVE  AdapterInv'
<1>. USE DEF AdapterInv, AdaptersTyped
<1>. DEFINE made == [of |-> request[r].of, closed |-> FALSE,
                     crossed |-> request[r].crossed \/ \E c \in Updates : change[c] = "dropped"]
<1>1. /\ adapters' = Append(adapters, made) /\ cached' = Len(adapters')
      /\ request[r].at = "make" /\ request' = [request EXCEPT ![r].at = "fetch"]
      /\ UNCHANGED <<credentials, change>>
      BY DEF MakeAdapter
<1>2. made \in Adapter
      BY DEF Adapter
<1>3. /\ adapters' \in Seq(Adapter) /\ Len(adapters') = Len(adapters) + 1
      /\ adapters'[cached'] = made /\ cached' # 0
      /\ \A i \in 1..Len(adapters) : adapters'[i] = adapters[i]
      BY <1>1, <1>2
<1>4. made.of # credentials => made.crossed
      BY <1>1 DEF RequestIsCurrent
<1>5. (\E c \in Updates : change[c] = "dropped") => made.crossed
      OBVIOUS
<1>6. made.closed = FALSE
      OBVIOUS
<1>. HIDE DEF made
<1>7. AdaptersTyped'
      <2>1. cached' \in 0..Len(adapters') /\ 0..Len(adapters) \subseteq 0..Len(adapters')
            BY <1>1, <1>3
      <2>2. [request[r] EXCEPT !.at = "fetch"] \in
               [at : {"new", "look", "make", "fetch", "using", "done", "failed"},
                of : Updates \union {0}, adapter : 0..Len(adapters), crossed : BOOLEAN]
            OBVIOUS
      <2>3. request' \in [Requests -> [at : {"new", "look", "make", "fetch", "using", "done", "failed"},
                of : Updates \union {0}, adapter : 0..Len(adapters'), crossed : BOOLEAN]]
            BY <1>1, <2>1, <2>2
      <2>. QED BY <1>1, <1>3, <2>1, <2>3
<1>8. DroppedIsGone'
      BY <1>1, <1>3, <1>5 DEF DroppedIsGone
<1>9. RequestIsCurrent'
      BY <1>1, <1>3 DEF RequestIsCurrent
<1>10. Dropping' = Dropping
      BY <1>1 DEF Dropping
<1>11. AdapterIsCurrent'
      BY <1>1, <1>3, <1>4, <1>6, <1>10 DEF AdapterIsCurrent, RequestIsCurrent
<1>. QED BY <1>7, <1>8, <1>9, <1>11

\* Whatever crosses the requests that are under way leaves nothing to say of them.
LEMMA CrossedIsCurrent ==
    ASSUME AdaptersTyped, RequestIsCurrent, request' = Crossed
    PROVE  /\ request' \in [Requests -> [at : {"new", "look", "make", "fetch", "using", "done", "failed"},
                                         of : Updates \union {0}, adapter : 0..Len(adapters), crossed : BOOLEAN]]
           /\ \A r \in Requests :
                  /\ request'[r].at = request[r].at /\ request'[r].adapter = request[r].adapter
                  /\ request'[r].at \in {"look", "make", "fetch", "using"} => request'[r].crossed
                  /\ request[r].crossed => request'[r].crossed
BY DEF AdaptersTyped, Crossed

\* The steps of a change that cross requests.
LEMMA AdaptersChangeStep ==
    ASSUME AdapterInv, NEW c \in Updates,
           DropLooks(c) \/ DropDeletes(c) \/ CommitChange(c)
    PROVE  AdapterInv'
<1>. USE DEF AdapterInv
<1>1. UNCHANGED adapters /\ request' = Crossed
      BY DEF DropLooks, DropDeletes, CommitChange
<1>2. \A r \in Requests :
          /\ request'[r].at = request[r].at /\ request'[r].adapter = request[r].adapter
          /\ request'[r].at \in {"look", "make", "fetch", "using"} => request'[r].crossed
          /\ request[r].crossed => request'[r].crossed
      BY <1>1, CrossedIsCurrent
<1>3. AdaptersTyped'
      <2>1. request' \in [Requests -> [at : {"new", "look", "make", "fetch", "using", "done", "failed"},
                                       of : Updates \union {0}, adapter : 0..Len(adapters), crossed : BOOLEAN]]
            BY <1>1, CrossedIsCurrent
      <2>2. CASE DropLooks(c)
            BY <1>1, <2>1, <2>2 DEF AdaptersTyped, DropLooks, Dropping
      <2>3. CASE DropDeletes(c)
            BY <1>1, <2>1, <2>3 DEF AdaptersTyped, DropDeletes
      <2>4. CASE CommitChange(c)
            BY <1>1, <2>1, <2>4 DEF AdaptersTyped, CommitChange
      <2>. QED BY <2>2, <2>3, <2>4
<1>4. RequestIsCurrent'
      BY <1>2 DEF RequestIsCurrent
<1>5. DroppedIsGone'
      <2>1. CASE DropLooks(c)
            BY <1>1, <2>1 DEF AdaptersTyped, DroppedIsGone, DropLooks, Finds
      <2>2. CASE DropDeletes(c)
            BY <1>1, <2>2 DEF AdaptersTyped, DroppedIsGone, DropDeletes
      <2>3. CASE CommitChange(c)
            BY <1>1, <2>3 DEF AdaptersTyped, DroppedIsGone, CommitChange
      <2>. QED BY <2>1, <2>2, <2>3
<1>6. cached' # 0 => /\ adapters'[cached'].of # credentials' => adapters'[cached'].crossed
                     /\ adapters'[cached'].closed => Dropping'
      <2>1. CASE DropLooks(c)
            BY <1>1, <2>1 DEF AdaptersTyped, AdapterIsCurrent, DropLooks, Dropping
      <2>2. CASE DropDeletes(c)
            BY <1>1, <2>2 DEF DropDeletes
      <2>3. CASE CommitChange(c)
            <3>1. Dropping' = Dropping
                  BY <2>3 DEF AdaptersTyped, CommitChange, Dropping
            <3>. QED BY <1>1, <2>3, <3>1 DEF AdaptersTyped, AdapterIsCurrent, DroppedIsGone, CommitChange
      <2>. QED BY <2>1, <2>2, <2>3
<1>7. AdapterIsCurrent'
      BY <1>2, <1>6 DEF AdapterIsCurrent
<1>. QED BY <1>3, <1>4, <1>5, <1>7

\* What is closed is the adapter that is about to go.
LEMMA AdaptersCloseStep ==
    ASSUME AdapterInv, NEW c \in Updates, DropCloses(c)
    PROVE  AdapterInv'
<1>. USE DEF AdapterInv
<1>1. /\ change[c] = "closing" /\ change' = [change EXCEPT ![c] = "deleting"]
      /\ adapters' = [adapters EXCEPT ![cached].closed = TRUE]
      /\ UNCHANGED <<credentials, cached, request>>
      BY DEF DropCloses
<1>2. cached \in 1..Len(adapters) /\ adapters \in Seq(Adapter)
      BY <1>1 DEF DroppedIsGone, AdaptersTyped
<1>3. [adapters[cached] EXCEPT !.closed = TRUE] \in Adapter
      <2>1. adapters[cached] \in Adapter
            BY <1>2
      <2>. QED BY <2>1 DEF Adapter
<1>4. /\ adapters' \in Seq(Adapter) /\ Len(adapters') = Len(adapters)
      /\ \A i \in 1..Len(adapters) : adapters'[i].of = adapters[i].of /\ adapters'[i].crossed = adapters[i].crossed
      BY <1>1, <1>2, <1>3 DEF Adapter
<1>5. Dropping'
      BY <1>1 DEF AdaptersTyped, Dropping
<1>6. AdaptersTyped'
      BY <1>1, <1>4 DEF AdaptersTyped
<1>7. DroppedIsGone' /\ RequestIsCurrent'
      BY <1>1, <1>2, <1>4 DEF AdaptersTyped, DroppedIsGone, RequestIsCurrent
<1>8. AdapterIsCurrent'
      BY <1>1, <1>2, <1>4, <1>5 DEF AdapterIsCurrent
<1>. QED BY <1>6, <1>7, <1>8

\* Every step keeps the invariant.
LEMMA AdaptersStep == AdapterInv /\ [AdaptersNext]_adapterVars => AdapterInv'
<1>. SUFFICES ASSUME AdapterInv, [AdaptersNext]_adapterVars PROVE AdapterInv'
     OBVIOUS
<1>1. ASSUME NEW c \in Updates, ChangeFails(c) PROVE AdapterInv'
      <2>1. /\ change[c] = "dropped" /\ change' = [change EXCEPT ![c] = "failed"]
            /\ UNCHANGED <<credentials, adapters, cached, request>>
            BY <1>1 DEF ChangeFails
      <2>2. Dropping' = Dropping
            BY <2>1 DEF AdapterInv, AdaptersTyped, Dropping
      <2>. QED BY <2>1, <2>2 DEF AdapterInv, AdaptersTyped, AdapterIsCurrent, DroppedIsGone, RequestIsCurrent
<1>2. ASSUME UNCHANGED adapterVars PROVE AdapterInv'
      BY <1>2 DEF adapterVars, AdapterInv, AdaptersTyped, AdapterIsCurrent, DroppedIsGone,
                  RequestIsCurrent, Dropping
<1>. QED BY <1>1, <1>2, AdaptersRequestStep, AdaptersMakeStep, AdaptersChangeStep, AdaptersCloseStep
         DEF AdaptersNext

\* For any number of threads and changes: the adapter kept has the credentials stored last
\* and is open, unless a change crossed the request that made it, and no request that was
\* not crossed works with a closed one (db_service.py get_adapter and drop_adapter).
THEOREM CurrentAdapter == AdaptersSpec => []AdapterIsCurrent
<1>1. AdapterInv => AdapterIsCurrent
      BY DEF AdapterInv
<1>. QED BY AdaptersInitially, AdaptersStep, <1>1, PTL DEF AdaptersSpec

-----------------------------------------------------------------------------
\* The three of them together, however their requests interleave.
THEOREM ChangesHold == ServerSpec => []ChangesTakeHold
<1>. DEFINE Inv == AdapterInv /\ LlmInv /\ PapiInv
<1>1. ServerInit => Inv
      BY AdaptersInitially, LlmInitially, PapiInitially DEF ServerInit
<1>2. [ServerNext]_serverVars => /\ [AdaptersNext]_adapterVars /\ [LlmNext]_llmVars
                                 /\ [PapiNext]_papiVars
      BY DEF ServerNext, AdaptersMove, LlmMove, PapiMove, serverVars
<1>3. Inv /\ [ServerNext]_serverVars => Inv'
      BY <1>2, AdaptersStep, LlmStep, PapiStep
<1>4. Inv => ChangesTakeHold
      BY DEF AdapterInv, LlmInv, PapiInv, EndedIsOver, HeldWasGood, Good, TokensStayDead, ChangesTakeHold
<1>. QED BY <1>1, <1>3, <1>4, PTL DEF ServerSpec

=================================================================================
