------------------------------- MODULE AdapterCache -------------------------------
(***************************************************************************)
(* The adapter that the server keeps of a connection (DatabaseService of   *)
(* api/app/services/db_service.py) and the requests that change the        *)
(* connection (api/app/routers/connections.py).                            *)
(*                                                                         *)
(* Whoever reads a database does so on a worker thread, with the row of    *)
(* the connection that its request read before; the cache is a dictionary  *)
(* that threads and the event loop share without a lock.  A change of the  *)
(* connection or of its logins drops the adapter and then commits.         *)
(* Credentials are named by the change that stored them.                   *)
(***************************************************************************)
EXTENDS Integers, Sequences

CONSTANTS
    Requests,       \* requests that read the databases of the connection
    Updates         \* requests that change the connection: a set of positive numbers

ASSUME UpdatesAssumption == Updates \subseteq Nat \ {0}

VARIABLES
    credentials,    \* those of the row of the connection: a change, or 0 for the first
    adapters,       \* all adapters made; "crossed" is for the property
    cached,         \* _adapters[conn.id]: a place in adapters, or 0 for none
    request,        \* where each request is, with which credentials and which adapter
    change          \* where each change is

adapterVars == <<credentials, adapters, cached, request, change>>

NotCome == [at |-> "new", of |-> 0, adapter |-> 0, crossed |-> FALSE]

AdaptersInit ==
    /\ credentials = 0 /\ adapters = <<>> /\ cached = 0
    /\ request = [r \in Requests |-> NotCome]
    /\ change = [c \in Updates |-> "new"]

-----------------------------------------------------------------------------
(* get_adapter, on a thread.                                               *)

\* The route reads the row of the connection and hands the rest to a thread.
ReadConnection(r) ==
    /\ request[r].at = "new"
    /\ request' = [request EXCEPT ![r].at = "look", ![r].of = credentials]
    /\ UNCHANGED <<credentials, adapters, cached, change>>

Look(r) ==
    /\ request[r].at = "look"
    /\ request' = [request EXCEPT ![r].at = IF cached = 0 THEN "make" ELSE "fetch"]
    /\ UNCHANGED <<credentials, adapters, cached, change>>

\* The new adapter takes the place of one that another thread has put there meanwhile.
MakeAdapter(r) ==
    /\ request[r].at = "make"
    /\ adapters' = Append(adapters, [of |-> request[r].of, closed |-> FALSE,
                       crossed |-> request[r].crossed \/ \E c \in Updates : change[c] = "dropped"])
    /\ cached' = Len(adapters')
    /\ request' = [request EXCEPT ![r].at = "fetch"]
    /\ UNCHANGED <<credentials, change>>

\* What is in the dictionary by now is returned, or a KeyError raised.
Take(r) ==
    /\ request[r].at = "fetch"
    /\ request' = [request EXCEPT ![r].at = IF cached = 0 THEN "failed" ELSE "using",
                                  ![r].adapter = cached]
    /\ UNCHANGED <<credentials, adapters, cached, change>>

RequestDone(r) ==
    /\ request[r].at = "using"
    /\ request' = [request EXCEPT ![r].at = "done"]
    /\ UNCHANGED <<credentials, adapters, cached, change>>

-----------------------------------------------------------------------------
(* A change, on the event loop: drop_adapter, in one go as far as other    *)
(* changes are concerned but not the threads; then the commit.             *)

Dropping == \E c \in Updates : change[c] \in {"closing", "deleting"}

\* The requests that are under way are crossed by a change.
Crossed == [r \in Requests |-> IF request[r].at \in {"new", "failed", "done"} THEN request[r]
                               ELSE [request[r] EXCEPT !.crossed = TRUE]]

\* Mutated form of Finds: a change that does not drop the adapter.
FindsNothing(c) == FALSE

\* There is an adapter to drop.
Finds(c) == cached # 0

DropLooks(c) ==
    /\ change[c] = "new" /\ ~Dropping
    /\ change' = [change EXCEPT ![c] = IF Finds(c) THEN "closing" ELSE "dropped"]
    /\ request' = Crossed
    /\ UNCHANGED <<credentials, adapters, cached>>

DropCloses(c) ==
    /\ change[c] = "closing"
    /\ adapters' = [adapters EXCEPT ![cached].closed = TRUE]
    /\ change' = [change EXCEPT ![c] = "deleting"]
    /\ UNCHANGED <<credentials, cached, request>>

DropDeletes(c) ==
    /\ change[c] = "deleting"
    /\ cached' = 0
    /\ change' = [change EXCEPT ![c] = "dropped"]
    /\ request' = Crossed
    /\ UNCHANGED <<credentials, adapters>>

CommitChange(c) ==
    /\ change[c] = "dropped"
    /\ change' = [change EXCEPT ![c] = "committed"]
    /\ credentials' = c
    /\ request' = Crossed
    /\ UNCHANGED <<adapters, cached>>

ChangeFails(c) ==
    /\ change[c] = "dropped"
    /\ change' = [change EXCEPT ![c] = "failed"]
    /\ UNCHANGED <<credentials, adapters, cached, request>>

AdaptersNext ==
    \/ \E r \in Requests : ReadConnection(r) \/ Look(r) \/ MakeAdapter(r) \/ Take(r) \/ RequestDone(r)
    \/ \E c \in Updates : \/ DropLooks(c) \/ DropCloses(c) \/ DropDeletes(c)
                          \/ CommitChange(c) \/ ChangeFails(c)

AdaptersSpec == AdaptersInit /\ [][AdaptersNext]_adapterVars

-----------------------------------------------------------------------------
Adapter == [of : Updates \union {0}, closed : BOOLEAN, crossed : BOOLEAN]

AdaptersTyped ==
    /\ credentials \in Updates \union {0}
    /\ adapters \in Seq(Adapter)
    /\ cached \in 0..Len(adapters)
    /\ request \in [Requests -> [at : {"new", "look", "make", "fetch", "using", "done", "failed"},
                                 of : Updates \union {0}, adapter : 0..Len(adapters), crossed : BOOLEAN]]
    /\ change \in [Updates -> {"new", "closing", "deleting", "dropped", "committed", "failed"}]
    /\ \A c, d \in Updates : {change[c], change[d]} \subseteq {"closing", "deleting"} => c = d

\* Whatever reads and changes overlap: the adapter kept has the credentials stored last,
\* unless it was made by a request, or at a time, that a change crossed; it is open but
\* while it is being dropped; and only a request that a change crossed can work with a
\* closed adapter or find none after it made sure of one (get_adapter, drop_adapter,
\* update_connection and the other routes that drop).
AdapterIsCurrent ==
    /\ cached # 0 => /\ adapters[cached].of # credentials => adapters[cached].crossed
                     /\ adapters[cached].closed => Dropping
    /\ \A r \in Requests :
           /\ request[r].at = "failed" => request[r].crossed
           /\ request[r].at = "using" /\ adapters[request[r].adapter].closed
                  => request[r].crossed \/ Dropping

===================================================================================
