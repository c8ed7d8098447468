-------------------------------- MODULE UserFeed --------------------------------
(***************************************************************************)
(* What a window may expect of the push channel, whatever else the user    *)
(* has open: the abstract specification that WsChannel implements for each *)
(* of its windows.                                                         *)
(*                                                                         *)
(* The feed is lossy and in order.  Messages wait in it as numbers, their  *)
(* places in "said"; between two connections of the window it is emptied.  *)
(* A reconnection may bring back messages the window has already taken:    *)
(* their coroutines were held up at another socket of the user, of another *)
(* window or a dead one of this window.                                    *)
(***************************************************************************)
EXTENDS Integers, Sequences

CONSTANTS
    Messages,       \* what a message may say
    MaxSaid         \* bound: messages sent

VARIABLES
    said,           \* the messages sent, oldest first
    feed,           \* numbers of the messages that wait for onmessage
    taken           \* the number last taken; lower after some reconnections

vars == <<said, feed, taken>>

TypeOK ==
    /\ said \in Seq(Messages)
    /\ feed \in Seq(1..MaxSaid)
    /\ taken \in 0..MaxSaid

-----------------------------------------------------------------------------
Say(m) ==
    /\ Len(said) < MaxSaid
    /\ said' = Append(said, m)
    /\ UNCHANGED <<feed, taken>>

\* Messages may be left out; they are never put behind later ones.
Put(n) ==
    /\ n \in DOMAIN said
    /\ n > taken
    /\ \A k \in DOMAIN feed : feed[k] < n
    /\ feed' = Append(feed, n)
    /\ UNCHANGED <<said, taken>>

Take ==
    /\ feed # <<>>
    /\ feed' = Tail(feed)
    /\ taken' = Head(feed)
    /\ UNCHANGED said

\* The connection is lost, or the next one begins.
Lose ==
    /\ feed' = <<>>
    /\ taken' \in 0..taken
    /\ UNCHANGED said

-----------------------------------------------------------------------------
Init ==
    /\ said = <<>>
    /\ feed = <<>>
    /\ taken = 0

Next ==
    \/ \E m \in Messages : Say(m)
    \/ \E n \in DOMAIN said : Put(n)
    \/ Take
    \/ Lose

Spec == Init /\ [][Next]_vars
=============================================================================
