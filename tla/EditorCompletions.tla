---------------------------- MODULE EditorCompletions ----------------------------
(***************************************************************************)
(* The names the query editor proposes while one types (the effect of      *)
(* ui/src/components/db/QueryEditor.tsx).  A provider of completions is    *)
(* registered with Monaco, for every SQL editor of the window, once the    *)
(* tables of the database and their columns are known, which takes two     *)
(* rounds of calls; by then the editor may be on another database, may be  *)
(* gone, or may be there again.  The names themselves are data.            *)
(***************************************************************************)
EXTENDS Integers

CONSTANTS
    Targets,        \* pairs of a connection and a database that a tab may be on
    SqlTargets,     \* those whose connection is not of a kind edited as JSON
    MaxEffects      \* bound: runs of the effect

ASSUME TargetsAssumption == SqlTargets \subseteq Targets /\ MaxEffects \in Nat

VARIABLES
    target,         \* what the editor on screen is on
    effects,        \* runs of the effect so far: the last is that of the editor on screen
    registering,    \* runs of registerCompletions under way
    provided,       \* providers registered with Monaco
    held            \* the one in completionDisposableRef of the editor on screen

completionVars == <<target, effects, registering, provided, held>>

NoEditorShown == "no editor"
ASSUME NoEditorIsNoTarget == NoEditorShown \notin Targets

NoProvider == [run |-> 0, of |-> NoEditorShown]

CompletionsInit ==
    /\ target = NoEditorShown
    /\ effects = 0
    /\ registering = {} /\ provided = {}
    /\ held = NoProvider

-----------------------------------------------------------------------------
\* The cleanup of the effect that ran last: what it has begun will see that it was
\* cancelled, and what it has registered is disposed of.
Cleanup ==
    /\ provided' = provided \ {held}
    /\ held' = NoProvider

Cancelled == {[r EXCEPT !.cancelled = TRUE] : r \in registering}

\* The effect for what the editor is now on: registerCompletions, but for JSON.
Runs(t) ==
    /\ effects < MaxEffects
    /\ target' = t /\ effects' = effects + 1
    /\ Cleanup
    /\ registering' = IF t \in SqlTargets
           THEN Cancelled \union {[run |-> effects', of |-> t, cancelled |-> FALSE, at |-> "objects"]}
           ELSE Cancelled

\* The editor is mounted, or its tab gives it another connection or database.
TurnTo(t) == t # target /\ Runs(t)

GoAway ==
    /\ target # NoEditorShown
    /\ target' = NoEditorShown
    /\ Cleanup
    /\ registering' = Cancelled
    /\ UNCHANGED effects

-----------------------------------------------------------------------------
(* registerCompletions.                                                    *)

\* The tables came: the columns of each are asked for.
TablesCame(r) ==
    /\ r.at = "objects"
    /\ registering' = (registering \ {r}) \union
           (IF r.cancelled THEN {} ELSE {[r EXCEPT !.at = "columns"]})
    /\ UNCHANGED <<target, effects, provided, held>>

TablesFailed(r) ==
    /\ r.at = "objects"
    /\ registering' = registering \ {r}
    /\ UNCHANGED <<target, effects, provided, held>>

\* Mutated form of GoesOn: what was cancelled meanwhile is not looked at again.
GoesOnAlways(r) == TRUE

\* The second look at "cancelled".
GoesOn(r) == ~r.cancelled

\* The columns came, of the tables for which they could be had: the provider is
\* registered, and kept in the ref of the editor that asked.
ColumnsKnown(r) ==
    /\ r.at = "columns"
    /\ registering' = registering \ {r}
    /\ IF GoesOn(r)
       THEN LET provider == [run |-> r.run, of |-> r.of]
            IN  /\ provided' = provided \union {provider}
                /\ held' = IF target = NoEditorShown THEN held ELSE provider
       ELSE UNCHANGED <<provided, held>>
    /\ UNCHANGED <<target, effects>>

CompletionsNext ==
    \/ \E t \in Targets : TurnTo(t)
    \/ GoAway
    \/ \E r \in registering : TablesCame(r) \/ TablesFailed(r) \/ ColumnsKnown(r)

CompletionsSpec == CompletionsInit /\ [][CompletionsNext]_completionVars

-----------------------------------------------------------------------------
Registering == [run : 1..MaxEffects, of : SqlTargets, cancelled : BOOLEAN, at : {"objects", "columns"}]
Provider == [run : 1..MaxEffects, of : SqlTargets]

CompletionsTyped ==
    /\ target \in Targets \union {NoEditorShown}
    /\ effects \in 0..MaxEffects
    /\ registering \subseteq Registering
    /\ provided \subseteq Provider
    /\ held \in Provider \union {NoProvider}

\* What is proposed in the editor is of the connection and database it is on: of what was
\* asked for others, however late it comes, nothing is registered, nothing that was
\* registered stays when the editor turns to another database or goes, and no two
\* providers propose the same names (the effect of QueryEditor and its cleanup).
ProposesOwnNames ==
    /\ provided \subseteq {held}
    /\ \A p \in provided : p.of = target /\ p.run = effects

==================================================================================
