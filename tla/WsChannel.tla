------------------------------- MODULE WsChannel -------------------------------
(***************************************************************************)
(* The push channel from the server to the windows of one user:            *)
(* ConnectionManager and websocket_endpoint (api/app/websocket/manager.py) *)
(* with the connection half of useWebSocket (ui/src/hooks/useWebSocket.ts).*)
(*                                                                         *)
(* send_threadsafe hands each message to the event loop, which runs one    *)
(* send coroutine per message.  A coroutine iterates over the live list of *)
(* the user's sockets and may be suspended in every "await ws.send_text",  *)
(* while endpoints join that list and leave it.  Writes to one socket keep *)
(* the order in which their coroutines asked for them (the drain lock of   *)
(* the WebSocket transport), so a coroutine never overtakes an older one.  *)
(*                                                                         *)
(* A socket is named <<w, n>>: the n-th one window w opened.  A message is *)
(* named by its place in "said"; its contents are the concern of whoever   *)
(* composes the channel with a sender and a receiver.                      *)
(***************************************************************************)
EXTENDS Integers, Sequences, FiniteSets

CONSTANTS
    Windows,        \* windows of the user that run the single-page application
    MaxSockets,     \* bound: connections made, by all windows together
    MaxSaid,        \* bound: messages handed to send_threadsafe
    MaxSends,       \* bound: send coroutines under way at once
    Messages        \* what a message may say

ASSUME BoundsAssumption == MaxSockets \in Nat /\ MaxSaid \in Nat /\ MaxSends \in Nat
ASSUME WindowsAssumption == IsFiniteSet(Windows)

VARIABLES
    said,           \* the messages handed to send_threadsafe, oldest first
    sends,          \* the send coroutines under way, oldest first
    registered,     \* ConnectionManager._connections[user_id], <<>> when absent
    endpoint,       \* where websocket_endpoint is in serving each socket
    link,           \* the connection of each socket, as the network has it
    frames,         \* numbers of the messages written to each socket
    read,           \* how many of them onmessage has taken
    wsRef           \* which of its sockets wsRef of a window holds; 0 before the first

vars == <<said, sends, registered, endpoint, link, frames, read, wsRef>>

-----------------------------------------------------------------------------
Sockets == Windows \X (1..MaxSockets)
Used == {s \in Sockets : link[s] # "unused"}

Nowhere == <<>>

\* A coroutine of ConnectionManager.send.  "next" is the place of its list
\* iterator, 0 before it first runs; "at" the socket it last wrote to, where it may
\* be suspended.  "stale": the list it iterates over is no longer the one of the
\* manager.  The last three say, for the properties, which sockets it found, which
\* it has reached and how many left the list meanwhile.
Send == [no : 1..MaxSaid, next : 0..(Cardinality(Sockets) + 1), stale : BOOLEAN,
         at : Sockets \union {Nowhere}, dead : SUBSET Sockets,
         due : SUBSET Sockets, got : SUBSET Sockets, removed : 0..Cardinality(Sockets)]

Listed(q) == {q[k] : k \in DOMAIN q}

TypeOK ==
    /\ said \in Seq(Messages) /\ Len(said) <= MaxSaid
    /\ sends \in Seq(Send)
    /\ registered \in Seq(Sockets)
    /\ endpoint \in [Sockets -> {"none", "accepting", "serving", "left"}]
    /\ link \in [Sockets -> {"unused", "open", "gone"}]
    /\ frames \in [Sockets -> Seq(1..MaxSaid)]
    /\ read \in [Sockets -> 0..MaxSaid]
    /\ \A s \in Sockets : read[s] <= Len(frames[s])
    /\ wsRef \in [Windows -> 0..MaxSockets]

-----------------------------------------------------------------------------
(* The server.                                                             *)

\* send_threadsafe: a coroutine is scheduled, whatever sockets there are.
Schedule(m) ==
    /\ Len(said) < MaxSaid
    /\ Len(sends) < MaxSends
    /\ said' = Append(said, m)
    /\ sends' = Append(sends, [no |-> Len(said) + 1, next |-> 0, stale |-> FALSE,
                               at |-> Nowhere, dead |-> {}, due |-> {}, got |-> {}, removed |-> 0])
    /\ UNCHANGED <<registered, endpoint, link, frames, read, wsRef>>

\* The first lines of send: the list is looked up once, before the loop.
Started(t) ==
    IF t.next > 0 THEN t
    ELSE [t EXCEPT !.next = 1, !.stale = (registered = <<>>), !.due = Listed(registered)]

\* Mutated form of InTurn: no order among the coroutines.
AnyTurn(i) == i \in DOMAIN sends

\* A coroutine whose turn it is: the older ones are ahead of it in the list.
InTurn(i) == \A k \in 1..(i - 1) : sends[k].stale \/ sends[k].next > sends[i].next

Exhausted(t) == t.stale \/ t.next > Len(registered)

\* Mutated form of Write: the first failure ends the loop.
WriteOrStop(i) ==
    LET t == Started(sends[i])
        s == registered[t.next]
    IN  /\ InTurn(i)
        /\ ~Exhausted(t)
        /\ \/ /\ link[s] = "open"
              /\ frames' = [frames EXCEPT ![s] = Append(@, t.no)]
              /\ sends' = [sends EXCEPT ![i] =
                    [t EXCEPT !.next = t.next + 1, !.at = s, !.got = t.got \union {s}]]
           \/ /\ link[s] = "gone"
              /\ sends' = [sends EXCEPT ![i] =
                    [t EXCEPT !.next = Len(registered) + 1, !.dead = t.dead \union {s}]]
              /\ UNCHANGED frames
        /\ UNCHANGED <<said, registered, endpoint, link, read, wsRef>>

\* One turn of the loop: a write to the next socket of the live list.  Writing to
\* a socket whose peer is gone raises, or goes unnoticed for the time being.
Write(i) ==
    LET t == Started(sends[i])
        s == registered[t.next]
    IN  /\ InTurn(i)
        /\ ~Exhausted(t)
        /\ \/ /\ link[s] = "open"
              /\ frames' = [frames EXCEPT ![s] = Append(@, t.no)]
              /\ sends' = [sends EXCEPT ![i] =
                    [t EXCEPT !.next = t.next + 1, !.at = s, !.got = t.got \union {s}]]
           \/ /\ link[s] = "gone"
              /\ \E dead \in {t.dead, t.dead \union {s}} :
                    sends' = [sends EXCEPT ![i] = [t EXCEPT !.next = t.next + 1, !.at = s, !.dead = dead]]
              /\ UNCHANGED frames
        /\ UNCHANGED <<said, registered, endpoint, link, read, wsRef>>

\* Mutated form of Remaining: the wrong socket is taken off the list.
RemainingFirst(gone) == IF gone = {} \/ registered = <<>> THEN registered ELSE Tail(registered)

\* ConnectionManager.disconnect, of every socket in gone: list.remove shifts the
\* live list under the coroutines in their loops, whose iterators keep their
\* place; the entry of a user without sockets is popped, and who still iterates
\* over it keeps an empty list.
Remaining(gone) ==
    LET kept == {k \in DOMAIN registered : registered[k] \notin gone}
    IN  [j \in 1..Cardinality(kept) |->
            registered[CHOOSE k \in kept : Cardinality({i \in kept : i <= k}) = j]]

\* Mutated form of Shifted: the iterator is moved back, wherever the socket was.
ShiftedBack(t, gone) ==
    IF t.next = 0 \/ t.stale THEN t
    ELSE [t EXCEPT !.stale = (Listed(registered) \subseteq gone),
                   !.next = IF t.next > 1 THEN t.next - 1 ELSE 1]

\* What that makes of a coroutine in its loop.
Shifted(t, gone) ==
    IF t.next = 0 \/ t.stale THEN t
    ELSE [t EXCEPT !.stale = (Listed(registered) \subseteq gone),
                   !.removed = t.removed + Cardinality(gone \intersect Listed(registered))]

Without(q, i) == SubSeq(q, 1, i - 1) \o SubSeq(q, i + 1, Len(q))

\* The loop is over: the sockets that failed are unregistered.
EndSend(i) ==
    LET t == Started(sends[i])
        others == Without(sends, i)
    IN  /\ InTurn(i)
        /\ Exhausted(t)
        /\ registered' = Remaining(t.dead)
        /\ sends' = [k \in DOMAIN others |-> Shifted(others[k], t.dead)]
        /\ UNCHANGED <<said, endpoint, link, frames, read, wsRef>>

\* The browser has read what the coroutine wrote last: the write is through.
Through(t) ==
    \E k \in 1..(IF t.at = Nowhere THEN 0 ELSE read[t.at]) : frames[t.at][k] = t.no

\* connect, after "await ws.accept()": a new socket goes to the end of the list.
\* What the window had read before it reconnected (3 s after the old connection
\* closed) has been through for so long that its coroutines have moved on.
Register(s) ==
    /\ endpoint[s] = "accepting"
    /\ \A i \in DOMAIN sends : ~(Through(sends[i]) /\ sends[i].at[1] = s[1])
    /\ endpoint' = [endpoint EXCEPT ![s] = "serving"]
    /\ registered' = Append(registered, s)
    /\ UNCHANGED <<said, sends, link, frames, read, wsRef>>

\* receive_text raises WebSocketDisconnect: the endpoint unregisters its socket.
Notice(s) ==
    /\ endpoint[s] = "serving"
    /\ link[s] = "gone"
    /\ endpoint' = [endpoint EXCEPT ![s] = "left"]
    /\ registered' = Remaining({s})
    /\ sends' = [k \in DOMAIN sends |-> Shifted(sends[k], {s})]
    /\ UNCHANGED <<said, link, frames, read, wsRef>>

\* The server process dies: coroutines, lists and connections go with it.
Stop ==
    /\ sends' = <<>>
    /\ registered' = <<>>
    /\ endpoint' = [s \in Sockets |-> IF endpoint[s] = "none" THEN "none" ELSE "left"]
    /\ link' = [s \in Sockets |-> IF link[s] = "unused" THEN "unused" ELSE "gone"]
    /\ UNCHANGED <<said, frames, read, wsRef>>

-----------------------------------------------------------------------------
(* The browser.                                                            *)

\* The socket a window holds, once it has one.
Current(w) == <<w, wsRef[w]>>
Connected(w) == wsRef[w] > 0 /\ link[Current(w)] = "open"

\* connect: at the start, and from the timer that onclose sets.
Connect(w) ==
    /\ ~Connected(w)
    /\ Cardinality(Used) < MaxSockets
    /\ wsRef' = [wsRef EXCEPT ![w] = @ + 1]
    /\ link' = [link EXCEPT ![<<w, wsRef[w] + 1>>] = "open"]
    /\ endpoint' = [endpoint EXCEPT ![<<w, wsRef[w] + 1>>] = "accepting"]
    /\ UNCHANGED <<said, sends, registered, frames, read>>

\* The connection breaks, or the window closes: what was not read is lost.
Drop(w) ==
    /\ Connected(w)
    /\ link' = [link EXCEPT ![Current(w)] = "gone"]
    /\ UNCHANGED <<said, sends, registered, endpoint, frames, read, wsRef>>

\* The numbers of the messages that have arrived and wait for onmessage.
Unread(w) ==
    IF Connected(w)
    THEN SubSeq(frames[Current(w)], read[Current(w)] + 1, Len(frames[Current(w)]))
    ELSE <<>>

\* Mutated form of Take: onmessage is attached twice.
TakeTwice(w) ==
    /\ Unread(w) # <<>>
    /\ read' = [read EXCEPT ![Current(w)] = @ + 2]
    /\ UNCHANGED <<said, sends, registered, endpoint, link, frames, wsRef>>

\* onmessage of window w runs; what it does with Head(Unread(w)) is the receiver's.
Take(w) ==
    /\ Unread(w) # <<>>
    /\ read' = [read EXCEPT ![Current(w)] = @ + 1]
    /\ UNCHANGED <<said, sends, registered, endpoint, link, frames, wsRef>>

-----------------------------------------------------------------------------
Init ==
    /\ said = <<>>
    /\ sends = <<>>
    /\ registered = <<>>
    /\ endpoint = [s \in Sockets |-> "none"]
    /\ link = [s \in Sockets |-> "unused"]
    /\ frames = [s \in Sockets |-> <<>>]
    /\ read = [s \in Sockets |-> 0]
    /\ wsRef = [w \in Windows |-> 0]

Next ==
    \/ \E m \in Messages : Schedule(m)
    \/ \E i \in DOMAIN sends : Write(i) \/ EndSend(i)
    \/ \E s \in Sockets : Register(s) \/ Notice(s)
    \/ \E w \in Windows : Connect(w) \/ Drop(w) \/ Take(w)
    \/ Stop

Spec == Init /\ [][Next]_vars

-----------------------------------------------------------------------------
(* Properties.                                                             *)

\* Whatever joins or leaves while several coroutines are in their loops, a socket
\* is written every message at most once and in the order of send_threadsafe.
\* useWebSocket relies on it: a migration_progress that came after the
\* migration_step_done of its step would set the step running again.
InOrder ==
    \A s \in Sockets : \A i, j \in DOMAIN frames[s] :
        i < j => frames[s][i] < frames[s][j]

\* Sockets the loop has gone past without writing to them, though they were on
\* the list when it started, still are, and work.
Skipped(t) ==
    {s \in t.due \ t.got :
        /\ link[s] = "open"
        /\ \E k \in DOMAIN registered : k < t.next /\ registered[k] = s}

\* A window that closes costs the other windows of its user at most one message of
\* each coroutine in its loop, and nothing is skipped for any other reason, a
\* failed write least of all (the loop catches it and goes on).
SkipsArePaidFor ==
    \A i \in DOMAIN sends : Cardinality(Skipped(sends[i])) <= sends[i].removed

\* The endpoints and the list agree: a socket whose endpoint has left is off the
\* list, no socket is listed twice, and one that is served and works is listed.
\* (disconnect is called for one socket from two places, in either order.)
ServedIsListed ==
    /\ \A s \in Listed(registered) : endpoint[s] = "serving"
    /\ \A s \in Sockets : endpoint[s] = "serving" /\ link[s] = "open" => s \in Listed(registered)
    /\ \A j, k \in DOMAIN registered : registered[j] = registered[k] => j = k

\* The number of the message a window took last on its current socket.
LastOn(w) ==
    IF wsRef[w] = 0 \/ read[Current(w)] = 0 THEN 0 ELSE frames[Current(w)][read[Current(w)]]

Feed(w) == INSTANCE UserFeed WITH feed <- Unread(w), taken <- LastOn(w)

\* To each window the channel is a lossy feed in order: whatever its user's other
\* windows do, a connection brings it messages it has not seen on that connection,
\* none behind a later one, and what is lost is lost with the connection.
FeedSpec ==
    /\ \A w \in Windows : Feed(w)!Init
    /\ [][\A w \in Windows : UNCHANGED Feed(w)!vars \/ Feed(w)!Next]_vars

\* "UI connects to /ws/{user_id} and receives JSON messages" (manager.py:4): a
\* window connected throughout a send is sent the message.
ConnectedReceives == \A i \in DOMAIN sends : Skipped(sends[i]) = {}
=============================================================================
