-------------------------------- MODULE LockTree --------------------------------
(***************************************************************************)
(* Who blocks whom: buildLockTree (ui/src/lib/health/locktree.ts) and what *)
(* lockTree (ui/src/lib/health/view.ts) makes of it for MySQL.             *)
(*                                                                         *)
(* The input is one reading of the server's sessions: a sequence of rows,  *)
(* each with the pid of a session, the sessions it waits for, in the order *)
(* the server gave them, and what it is doing.  A session may wait for one *)
(* that has no row of its own.  The ages, names and statement texts that   *)
(* the rows also carry are printed and never decided upon.                 *)
(***************************************************************************)
EXTENDS Integers, Sequences, FiniteSets, SequencesExt

CONSTANT Pids       \* process numbers of the sessions of the server

\* The number of no session: 0 is one that PostgreSQL gives for a prepared transaction.
Nobody == -1

ASSUME PidsAssumption == Pids \subseteq Nat

\* What a session is doing.  "unseen" is the row made up for a blocker that has none.
Doings == {"active", "idle", "idle_in_transaction", "unseen"}

Row == [pid : Pids, blockedBy : Seq(Pids), state : Doings]

\* The sessions of a tree: those of the rows and the blockers that have none.
Sessions(rows) ==
    LET listed == {rows[i].pid : i \in DOMAIN rows}
        named == UNION {ToSet(rows[i].blockedBy) : i \in DOMAIN rows}
    IN  [p \in listed \union named |->
            IF p \in listed THEN rows[CHOOSE i \in DOMAIN rows : rows[i].pid = p]
            ELSE [pid |-> p, blockedBy |-> <<>>, state |-> "unseen"]]

-----------------------------------------------------------------------------
(* The depth of a session is the longest chain of blockers above it.  It   *)
(* is found by walking up from each session in turn; a walk that comes     *)
(* back to a session of its own path has found a cycle, puts the whole     *)
(* path down as one, and counts nothing above.  A depth once found stays.  *)

Unknown == -1

Walk(P) == [depth : [P -> Int], cycle : SUBSET P]

\* The sessions to visit, the path that led to them and what is known before.
Visits(P) == [pids : Seq(P), path : SUBSET P, known : Walk(P)]

\* The depth of the first session to visit; go visits the blockers of one.
VisitFirst(by, go, at) ==
    LET p == Head(at.pids)
        above == go[[pids |-> by[p].blockedBy, path |-> at.path \union {p}, known |-> at.known]]
    IN  IF at.known.depth[p] # Unknown THEN [height |-> at.known.depth[p], known |-> at.known]
        ELSE IF p \in at.path
        THEN [height |-> 0, known |-> [at.known EXCEPT !.cycle = @ \union at.path]]
        ELSE [above EXCEPT !.known.depth[p] = above.height]

\* Visits the sessions in order: how high they make one that waits for them all, and
\* what is known then.
visit(by) ==
    LET go[at \in Visits(DOMAIN by)] ==
            IF at.pids = <<>> THEN [height |-> 0, known |-> at.known]
            ELSE LET first == VisitFirst(by, go, at)
                     rest == go[[at EXCEPT !.pids = Tail(@), !.known = first.known]]
                 IN  [rest EXCEPT !.height = IF first.height < @ THEN @ ELSE first.height + 1]
    IN  go

\* The blockers without a row are visited with the rows that name them.
Walked(rows) ==
    LET by == Sessions(rows)
        nothing == [depth |-> [p \in DOMAIN by |-> Unknown], cycle |-> {}]
        inOrder == [i \in DOMAIN rows |-> rows[i].pid]
    IN  visit(by)[[pids |-> inOrder, path |-> {}, known |-> nothing]].known

-----------------------------------------------------------------------------
(* Every session hangs below the deepest of its blockers, the first of     *)
(* them if several are as deep, or is a root.  In a cycle only blockers    *)
(* that are less deep count.                                               *)

\* Mutated form of Counted: every blocker counts, in a cycle too.
CountedAlways(s, walk) == DOMAIN s.blockedBy

\* The places of the blockers that count.
Counted(s, walk) ==
    {i \in DOMAIN s.blockedBy : LET b == s.blockedBy[i] IN
        ~({b, s.pid} \subseteq walk.cycle /\ walk.depth[b] >= walk.depth[s.pid])}

ParentOf(s, walk) ==
    LET depth == [i \in Counted(s, walk) |-> walk.depth[s.blockedBy[i]]]
        FirstDeepest(i) == \A j \in DOMAIN depth : depth[j] <= depth[i] /\ (j < i => depth[j] < depth[i])
    IN  IF DOMAIN depth = {} THEN Nobody
        ELSE s.blockedBy[CHOOSE i \in DOMAIN depth : FirstDeepest(i)]

Tree(rows) ==
    LET by == Sessions(rows)
        walk == Walked(rows)
    IN  [session |-> by, depth |-> walk.depth, cycle |-> walk.cycle,
         parent |-> [p \in DOMAIN by |-> ParentOf(by[p], walk)]]

-----------------------------------------------------------------------------
(* What is shown of a tree.                                                *)

Placed(tree) == DOMAIN tree.parent
Blockers(tree, p) == ToSet(tree.session[p].blockedBy)
Waiting(tree) == {p \in Placed(tree) : tree.session[p].blockedBy # <<>>}
Children(tree, p) == {c \in Placed(tree) : tree.parent[c] = p}

\* Sessions with those that hang below each.
Together(below, S) == MapThenSumSet(LAMBDA p : 1 + below[p], S)

\* How many sessions hang below each session, at any distance.
Blocked(tree) == LET below[p \in Placed(tree)] == Together(below, Children(tree, p)) IN below

\* Mutated form of Roots: a blocker without a row is no root, as it is not idle either.
RootsWithRow(tree) ==
    {p \in Placed(tree) : /\ tree.parent[p] = Nobody
                          /\ Children(tree, p) # {}
                          /\ tree.session[p].state # "unseen"}

Roots(tree) == {p \in Placed(tree) : tree.parent[p] = Nobody /\ Children(tree, p) # {}}

\* The sessions drawn: the roots, and whatever hangs below one that is drawn.
Drawn(tree) ==
    {p \in Placed(tree) : \A S \in SUBSET Placed(tree) :
        Roots(tree) \subseteq S /\ (\A q \in S : Children(tree, q) \subseteq S) => p \in S}

\* What to do about a session that holds others up.
Remedy(session) ==
    CASE session.state = "unseen" -> "look_up"
      [] session.state = "idle_in_transaction" -> "terminate"
      [] OTHER -> "cancel"

\* The advice on the sessions shown as roots; MySQL only has KILL.
Advice(tree, engine) ==
    [p \in Roots(tree) |-> IF engine = "mysql" THEN "kill" ELSE Remedy(tree.session[p])]

================================================================================
