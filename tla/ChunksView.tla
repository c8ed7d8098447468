------------------------------- MODULE ChunksView -------------------------------
(***************************************************************************)
(* The chunks of a collection of a vector store                            *)
(* (ui/src/components/db/VectorChunksView.tsx): pages that are read, one   *)
(* chunk that is selected, edited or deleted, and files that are uploaded. *)
(*                                                                         *)
(* The view is one component for all its tabs, and its answers do not say  *)
(* what they answer: each is taken for the collection shown when it comes. *)
(* What is searched, sorted and laid out is left out: it only chooses      *)
(* among the chunks read.                                                  *)
(***************************************************************************)
EXTENDS Integers, Sequences, FiniteSets, Bags

CONSTANTS
    Collections,
    PagesOf,        \* the ids of a collection's chunks, page by page
    MaxRequests     \* bound: requests made

NoCollection == "no collection"

ASSUME PagesAssumption ==
    /\ NoCollection \notin Collections
    /\ PagesOf \in [Collections -> Seq(SUBSET (Nat \ {0}))]

NoChunk == 0
NoOffset == -1
FirstPage == 0      \* the cursor null

ChunkIds == UNION {UNION {PagesOf[c][k] : k \in DOMAIN PagesOf[c]} : c \in Collections}

\* A payload is known by the chunk it was first read from.
Payload == Collections \X ChunkIds

VARIABLES
    context,        \* the collection shown, NoCollection where the view is not
    view,           \* the component's state
    requests,       \* requests under way
    requested,      \* requests made so far
    stored,         \* what the store holds: payloads by collection and id
    mixed           \* an answer about one collection was taken for another, for the properties

chunkVars == <<context, view, requests, requested, stored, mixed>>

Mounted ==
    [chunks |-> <<>>, loading |-> FALSE, error |-> FALSE, selectedId |-> NoChunk,
     cursorStack |-> <<FirstPage>>, pageIdx |-> 0, nextOffset |-> NoOffset,
     editing |-> FALSE, editPayload |-> <<>>, saving |-> FALSE,
     confirmDelete |-> FALSE, deleting |-> FALSE]

ChunksInit ==
    /\ context = NoCollection
    /\ view = Mounted
    /\ requests = EmptyBag /\ requested = 0
    /\ stored = [c \in Collections |->
                    [id \in UNION {PagesOf[c][k] : k \in DOMAIN PagesOf[c]} |-> <<c, id>>]]
    /\ mixed = FALSE

-----------------------------------------------------------------------------
Request(kind, c) == [kind |-> kind, of |-> c, cursor |-> FirstPage, id |-> NoChunk, payload |-> <<>>]

Sends(others, request) ==
    /\ requested < MaxRequests
    /\ requested' = requested + 1
    /\ requests' = others (+) SetToBag({request})

\* fetchPage: what was shown goes, and what was being edited.
Cleared(v) ==
    [v EXCEPT !.loading = TRUE, !.error = FALSE, !.selectedId = NoChunk, !.editing = FALSE,
              !.chunks = <<>>]

\* resetAndFetch
Rewound(v) == Cleared([v EXCEPT !.cursorStack = <<FirstPage>>, !.pageIdx = 0, !.nextOffset = NoOffset])

Fetches(others, c, cursor) == Sends(others, [Request("read", c) EXCEPT !.cursor = cursor])

\* A tab is shown: of another collection in the same component, or in a new one.
Show(c) ==
    /\ c # context
    /\ context' = c
    /\ view' = Rewound(IF context = NoCollection THEN Mounted ELSE view)
    /\ Fetches(requests, c, FirstPage)
    /\ UNCHANGED <<stored, mixed>>

Leave ==
    /\ context # NoCollection
    /\ context' = NoCollection
    /\ view' = Mounted
    /\ UNCHANGED <<requests, requested, stored, mixed>>

Reread ==
    /\ context # NoCollection /\ ~view.loading
    /\ view' = Rewound(view)
    /\ Fetches(requests, context, FirstPage)
    /\ UNCHANGED <<context, stored, mixed>>

\* The buttons of pages are there.
Footer == ~view.error /\ (DOMAIN view.chunks # {} \/ view.pageIdx > 0)

\* handleNextPage: the pages after this one are forgotten and the next one put there.
NextPage ==
    /\ Footer /\ view.nextOffset # NoOffset /\ ~view.loading
    /\ view' = Cleared([view EXCEPT
                  !.cursorStack = Append(SubSeq(@, 1, view.pageIdx + 1), view.nextOffset),
                  !.pageIdx = @ + 1])
    /\ Fetches(requests, context, view.nextOffset)
    /\ UNCHANGED <<context, stored, mixed>>

PrevPage ==
    /\ Footer /\ view.pageIdx # 0 /\ ~view.loading
    /\ view' = Cleared([view EXCEPT !.pageIdx = @ - 1])
    /\ Fetches(requests, context, view.cursorStack[view.pageIdx])
    /\ UNCHANGED <<context, stored, mixed>>

\* An answer is taken by the view that is there, if one is.
Takes(request, newView) ==
    /\ requests' = requests (-) SetToBag({request})
    /\ view' = IF context = NoCollection THEN view ELSE newView
    /\ mixed' = (mixed \/ context \notin {NoCollection, request.of})
    /\ UNCHANGED <<context, requested>>

PageCame(r) ==
    /\ r.kind = "read"
    /\ LET page == IF r.cursor = FirstPage THEN 1 ELSE r.cursor
           ids == IF page \in DOMAIN PagesOf[r.of]
                  THEN PagesOf[r.of][page] \intersect DOMAIN stored[r.of] ELSE {}
       IN  Takes(r, [view EXCEPT !.chunks = [id \in ids |-> stored[r.of][id]], !.loading = FALSE,
               !.nextOffset = IF page < Len(PagesOf[r.of]) THEN page + 1 ELSE NoOffset])
    /\ UNCHANGED stored

PageFailed(r) ==
    /\ r.kind = "read"
    /\ Takes(r, [view EXCEPT !.error = TRUE, !.loading = FALSE])
    /\ UNCHANGED stored

-----------------------------------------------------------------------------
(* One chunk.                                                              *)

selected == context # NoCollection /\ view.selectedId \in DOMAIN view.chunks

Acts(v) == view' = v /\ UNCHANGED <<context, requests, requested, stored, mixed>>

\* Mutated form of Select: what is being edited stays open.
SelectAnother(id) ==
    /\ ~view.loading /\ ~view.error
    /\ Acts([view EXCEPT !.selectedId = id, !.confirmDelete = FALSE])

Select(id) ==
    /\ ~view.loading /\ ~view.error
    /\ Acts([view EXCEPT !.selectedId = id, !.editing = FALSE, !.confirmDelete = FALSE])

StartEdit ==
    /\ selected /\ ~view.editing /\ ~view.confirmDelete
    /\ Acts([view EXCEPT !.editPayload = view.chunks[view.selectedId], !.editing = TRUE])

CancelChunkEdit ==
    /\ selected /\ view.editing
    /\ Acts([view EXCEPT !.editing = FALSE, !.editPayload = <<>>])

AskDelete ==
    /\ selected /\ ~view.editing /\ ~view.confirmDelete
    /\ Acts([view EXCEPT !.confirmDelete = TRUE])

KeepChunk ==
    /\ selected /\ view.confirmDelete
    /\ Acts([view EXCEPT !.confirmDelete = FALSE])

SaveChunk ==
    /\ selected /\ view.editing /\ ~view.saving
    /\ view' = [view EXCEPT !.saving = TRUE]
    /\ Sends(requests, [Request("save", context) EXCEPT !.id = view.selectedId,
                                                        !.payload = view.editPayload])
    /\ UNCHANGED <<context, stored, mixed>>

\* The store has it; the chunk of that id, in whatever is shown, and the editor follow.
ChunkSaved(r) ==
    /\ r.kind = "save"
    /\ stored' = [stored EXCEPT ![r.of] = IF r.id \in DOMAIN @ THEN [@ EXCEPT ![r.id] = r.payload] ELSE @]
    /\ Takes(r, [view EXCEPT !.editing = FALSE, !.saving = FALSE,
           !.chunks = [id \in DOMAIN @ |-> IF id = r.id THEN r.payload ELSE @[id]]])

SaveFailed(r) ==
    /\ r.kind = "save"
    /\ Takes(r, [view EXCEPT !.saving = FALSE])
    /\ UNCHANGED stored

DeleteChunk ==
    /\ selected /\ view.confirmDelete /\ ~view.deleting
    /\ view' = [view EXCEPT !.deleting = TRUE]
    /\ Sends(requests, [Request("delete", context) EXCEPT !.id = view.selectedId])
    /\ UNCHANGED <<context, stored, mixed>>

\* It goes from whatever is shown, and with it whatever is selected.
ChunkDeleted(r) ==
    /\ r.kind = "delete"
    /\ stored' = [stored EXCEPT ![r.of] = [id \in DOMAIN @ \ {r.id} |-> @[id]]]
    /\ Takes(r, [view EXCEPT !.selectedId = NoChunk, !.confirmDelete = FALSE, !.deleting = FALSE,
           !.chunks = [id \in DOMAIN @ \ {r.id} |-> @[id]]])

ChunkDeleteFailed(r) ==
    /\ r.kind = "delete"
    /\ Takes(r, [view EXCEPT !.deleting = FALSE])
    /\ UNCHANGED stored

\* Files are sent; if any made a chunk, the collection they were for is read anew into
\* the view that is there.
UploadFiles ==
    /\ context # NoCollection
    /\ Sends(requests, Request("upload", context))
    /\ UNCHANGED <<context, view, stored, mixed>>

Uploaded(r) ==
    /\ r.kind = "upload"
    /\ view' = IF context = NoCollection THEN view ELSE Rewound(view)
    /\ Fetches(requests (-) SetToBag({r}), r.of, FirstPage)
    /\ UNCHANGED <<context, stored, mixed>>

UploadFailed(r) ==
    /\ r.kind = "upload"
    /\ requests' = requests (-) SetToBag({r})
    /\ UNCHANGED <<context, view, requested, stored, mixed>>

ChunksNext ==
    \/ \E c \in Collections : Show(c)
    \/ Leave \/ Reread \/ NextPage \/ PrevPage
    \/ \E id \in DOMAIN view.chunks : Select(id)
    \/ StartEdit \/ CancelChunkEdit \/ AskDelete \/ KeepChunk \/ SaveChunk \/ DeleteChunk \/ UploadFiles
    \/ \E r \in BagToSet(requests) :
          \/ PageCame(r) \/ PageFailed(r) \/ ChunkSaved(r) \/ SaveFailed(r)
          \/ ChunkDeleted(r) \/ ChunkDeleteFailed(r) \/ Uploaded(r) \/ UploadFailed(r)

ChunksSpec == ChunksInit /\ [][ChunksNext]_chunkVars

-----------------------------------------------------------------------------
(* Properties.                                                             *)

Shelf == UNION {[S -> Payload] : S \in SUBSET ChunkIds}

ChunksTyped ==
    /\ context \in Collections \union {NoCollection}
    /\ view.chunks \in Shelf
    /\ view.selectedId \in ChunkIds \union {NoChunk}
    /\ view.pageIdx < Len(view.cursorStack) /\ view.nextOffset \in Nat \union {NoOffset}
    /\ view.editPayload = <<>> \/ view.editPayload \in Payload
    /\ {view.loading, view.error, view.editing, view.saving, view.confirmDelete, view.deleting, mixed}
           \subseteq BOOLEAN
    /\ stored \in [Collections -> Shelf]
    /\ requested \in 0..MaxRequests

\* However chunks are selected, edited, saved, deleted, paged through, uploaded and read
\* anew, and whatever is still under way then: what is saved under an id is what was read
\* under it, in the same collection.  Only an answer about one collection that was taken
\* for another, shown by the time it came, can break this (startEdit, saveEdit, fetchPage).
SavedWhereRead ==
    ~mixed => \A c \in Collections : \A id \in DOMAIN stored[c] : stored[c][id] = <<c, id>>

=================================================================================
