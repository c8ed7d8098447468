------------------------------- MODULE HealthView -------------------------------
(***************************************************************************)
(* The health view of a connection                                         *)
(* (ui/src/components/health/HealthView.tsx): which database it reads,     *)
(* what it shows of the answers and what it hands to the query editor.     *)
(*                                                                         *)
(* The database lives in the tab, in the store; the answers live in the    *)
(* component and go when another tab is shown.  Reads are not cancelled    *)
(* and carry no number: whichever answer comes last is shown.  The numbers *)
(* here only name the reads for the properties.                            *)
(***************************************************************************)
EXTENDS LockTree

CONSTANTS
    Databases,      \* databases of the server
    FirstDatabase,  \* the first one its listing gives
    Engine,         \* "postgres" or "mysql"
    Snapshots,      \* the rows of the lock section an answer may carry
    MaxReads,       \* bound: reads asked for
    MaxMounts       \* bound: times the view is shown

None == "none"

ASSUME DatabasesAssumption ==
    /\ FirstDatabase \in Databases /\ None \notin Databases
    /\ MaxReads \in Nat /\ MaxMounts \in Nat

\* The server lists every session once (api: health_service.py).
ASSUME SnapshotsAssumption ==
    \A rows \in Snapshots :
        /\ rows \in Seq(Row)
        /\ \A i, j \in DOMAIN rows : i # j => rows[i].pid # rows[j].pid

VARIABLES
    tabDatabase,    \* database of the HealthTab, None for null
    connDatabase,   \* database of the connection, None for null
    mounts,         \* times the view has been shown
    mounted,        \* it is shown now
    listings,       \* lists of databases asked for: when, and which one was read then
    databases,      \* the list has arrived: there is a choice to make
    reads,          \* reads under way, oldest first
    asked,          \* reads asked for so far
    snap,           \* the answer shown, NoSnap before the first
    loading, error,
    editor          \* what was last opened in the editor: from and for which database

vars == <<tabDatabase, connDatabase, mounts, mounted, listings, databases, reads, asked,
          snap, loading, error, editor>>

-----------------------------------------------------------------------------
Choice == Databases \union {None}
Read == [no : 1..MaxReads, of : Choice]
NoSnap == [no |-> 0]
NoEditor == <<>>

TypeOK ==
    /\ tabDatabase \in Choice /\ connDatabase \in Choice
    /\ mounts \in 0..MaxMounts /\ mounted \in BOOLEAN /\ databases \in BOOLEAN
    /\ listings \subseteq [mount : 1..MaxMounts, saw : Choice]
    /\ reads \in Seq(Read) /\ asked \in 0..MaxReads
    /\ \/ snap = NoSnap
       \/ snap.no \in 1..MaxReads /\ snap.of \in Choice /\ snap.rows \in Seq(Row)
    /\ loading \in BOOLEAN /\ error \in BOOLEAN
    /\ editor = NoEditor \/ editor \in Choice \X Choice

\* The database of the header, of the reads and of what is opened in the editor.
DatabaseOf(tab, conn) == IF tab # None THEN tab ELSE conn
database == DatabaseOf(tabDatabase, connDatabase)

Init ==
    /\ tabDatabase = None
    /\ connDatabase \in Choice
    /\ mounts = 0 /\ mounted = FALSE
    /\ listings = {} /\ databases = FALSE
    /\ reads = <<>> /\ asked = 0
    /\ snap = NoSnap /\ loading = FALSE /\ error = FALSE
    /\ editor = NoEditor

-----------------------------------------------------------------------------
(* read().                                                                 *)

\* Mutated form of Asks: the number of a read is taken before it is counted.
AsksFromZero(before, of) ==
    /\ asked < MaxReads
    /\ asked' = asked + 1
    /\ reads' = Append(before, [no |-> asked, of |-> of])
    /\ loading' = TRUE
    /\ error' = FALSE

Asks(before, of) ==
    /\ asked < MaxReads
    /\ asked' = asked + 1
    /\ reads' = Append(before, [no |-> asked + 1, of |-> of])
    /\ loading' = TRUE
    /\ error' = FALSE

\* Mutated form of RereadIfChanged: the database is missing from the list of the effect.
RereadNever(now) == UNCHANGED <<reads, asked, loading, error>>

\* The effect of read: it runs again when the database it reads has changed.
RereadIfChanged(now) ==
    IF mounted /\ now # database
    THEN Asks(reads, now)
    ELSE UNCHANGED <<reads, asked, loading, error>>

\* The view is shown: it asks for the databases and reads the one it is at.
Mount ==
    /\ ~mounted
    /\ mounts < MaxMounts
    /\ mounted' = TRUE
    /\ mounts' = mounts + 1
    /\ listings' = listings \union {[mount |-> mounts + 1, saw |-> database]}
    /\ databases' = FALSE
    /\ snap' = NoSnap
    /\ Asks(<<>>, database)
    /\ UNCHANGED <<tabDatabase, connDatabase, editor>>

Unmount ==
    /\ mounted
    /\ mounted' = FALSE
    /\ UNCHANGED <<tabDatabase, connDatabase, mounts, listings, databases, reads, asked,
                   snap, loading, error, editor>>

\* A list of databases arrives.  If neither the tab nor the connection named one when
\* it was asked for, the first becomes that of the tab, whatever it says by now.
Listed(l) ==
    /\ listings' = listings \ {l}
    /\ databases' = (databases \/ (mounted /\ l.mount = mounts))
    /\ tabDatabase' = IF l.saw = None THEN FirstDatabase ELSE tabDatabase
    /\ RereadIfChanged(DatabaseOf(tabDatabase', connDatabase))
    /\ UNCHANGED <<connDatabase, mounts, mounted, snap, editor>>

ListingFailed(l) ==
    /\ listings' = listings \ {l}
    /\ UNCHANGED <<tabDatabase, connDatabase, mounts, mounted, databases, reads, asked, snap,
                   loading, error, editor>>

PickDatabase(d) ==
    /\ mounted /\ databases
    /\ tabDatabase' = d
    /\ RereadIfChanged(d)
    /\ UNCHANGED <<connDatabase, mounts, mounted, listings, databases, snap, editor>>

\* The connection is edited meanwhile.
EditConnection(d) ==
    /\ connDatabase' = d
    /\ RereadIfChanged(DatabaseOf(tabDatabase, d))
    /\ UNCHANGED <<tabDatabase, mounts, mounted, listings, databases, snap, editor>>

Refresh ==
    /\ mounted /\ ~loading
    /\ Asks(reads, database)
    /\ UNCHANGED <<tabDatabase, connDatabase, mounts, mounted, listings, databases, snap, editor>>

Answered(i, rows) ==
    /\ mounted
    /\ snap' = [no |-> reads[i].no, of |-> reads[i].of, rows |-> rows]
    /\ reads' = RemoveAt(reads, i)
    /\ loading' = FALSE
    /\ UNCHANGED <<tabDatabase, connDatabase, mounts, mounted, listings, databases, asked,
                   error, editor>>

Failed(i) ==
    /\ mounted
    /\ error' = TRUE
    /\ reads' = RemoveAt(reads, i)
    /\ loading' = FALSE
    /\ UNCHANGED <<tabDatabase, connDatabase, mounts, mounted, listings, databases, asked,
                   snap, editor>>

-----------------------------------------------------------------------------
(* What is shown of an answer.                                             *)

Shown == mounted /\ snap # NoSnap
tree == Tree(snap.rows)

\* The tree, its warning of a deadlock and its advice are shown once a session waits.
LocksShown == Shown /\ Waiting(tree) # {}

\* openInEditor: an advised statement goes to the query tab of the connection.
OpenInEditor ==
    /\ LocksShown
    /\ \E p \in DOMAIN Advice(tree, Engine) : TRUE
    /\ editor' = <<snap.of, database>>
    /\ mounted' = FALSE
    /\ UNCHANGED <<tabDatabase, connDatabase, mounts, listings, databases, reads, asked, snap,
                   loading, error>>

Next ==
    \/ Mount \/ Unmount \/ Refresh \/ OpenInEditor
    \/ \E l \in listings : Listed(l) \/ ListingFailed(l)
    \/ \E d \in Databases : PickDatabase(d)
    \/ \E d \in Choice : EditConnection(d)
    \/ \E i \in DOMAIN reads : Failed(i) \/ \E rows \in Snapshots : Answered(i, rows)

Spec == Init /\ [][Next]_vars

-----------------------------------------------------------------------------
(* Properties.                                                             *)

\* Once the last read that was asked for is answered, what is shown is of the database
\* the header names, however the tab, the connection and the list of databases changed
\* it meanwhile (HealthView.tsx: read, its effect and the effect of the listing).
NewestShowsHeader == Shown /\ snap.no = asked => snap.of = database

\* Sessions that each wait for one of them.
Deadlock(t, S) == S # {} /\ \A p \in S : Blockers(t, p) \cap S # {}
NoDeadlock(t) == \A S \in SUBSET Placed(t) : ~Deadlock(t, S)

\* Whatever waits for what, cycles included: every session has exactly one place in the
\* tree, below a session it does wait for, and a deadlock is warned of exactly when
\* there is one (buildLockTree: visit, blockers, count).
EverySessionHasOnePlace ==
    Shown => LET t == tree
                 tops == {p \in Placed(t) : t.parent[p] = Nobody}
             IN  /\ \A p \in Placed(t) \ tops : t.parent[p] \in Blockers(t, p)
                 /\ Together(Blocked(t), tops) = Cardinality(Placed(t))
                 /\ t.cycle = {} <=> NoDeadlock(t)

\* Where nobody is deadlocked, every session that waits is drawn, below a session that
\* waits for nobody, and each advised statement is aimed at such a session: a backend
\* is only terminated where there is no statement to cancel (buildLockTree: advice).
AdviceAimsAtHolders ==
    LocksShown => LET t == tree IN NoDeadlock(t) =>
        /\ Waiting(t) \subseteq Drawn(t)
        /\ \A p \in Roots(t) :
               /\ t.session[p].blockedBy = <<>>
               /\ Advice(t, "postgres")[p] = "terminate" <=> t.session[p].state = "idle_in_transaction"

================================================================================
