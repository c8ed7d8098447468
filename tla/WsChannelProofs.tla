---------------------------- MODULE WsChannelProofs ----------------------------
(***************************************************************************)
(* The push channel, for any number of windows, sockets, messages and      *)
(* sends: what each socket is written, in which order, what a send skips,  *)
(* and that a window sees the lossy feed of UserFeed.                      *)
(***************************************************************************)
EXTENDS WsChannel, FiniteSetTheorems, SequenceTheorems, TLAPS

-----------------------------------------------------------------------------
(* Numbering the elements of a finite set of positions, lowest first, as   *)
(* Remaining does with the positions that stay.                            *)

Upto(K, k) == {i \in K : i <= k}
Rank(K, k) == Cardinality(Upto(K, k))
Nth(K, j) == CHOOSE k \in K : Rank(K, k) = j

LEMMA CountUpto ==
    ASSUME NEW n \in Nat
    PROVE  IsFiniteSet(1..n) /\ Cardinality(1..n) = n
BY FS_Interval

LEMMA RankProperties ==
    ASSUME NEW n \in Nat, NEW K \in SUBSET (1..n)
    PROVE  /\ IsFiniteSet(K) /\ Cardinality(K) \in Nat
           /\ \A k \in K : Rank(K, k) \in 1..Cardinality(K) /\ Rank(K, k) <= k
           /\ \A k, l \in K : k < l => Rank(K, k) < Rank(K, l)
           /\ \A j \in 1..Cardinality(K) : \E k \in K : Rank(K, k) = j
<1>0. \A k \in K : k \in 1..n
  OBVIOUS
<1>1. IsFiniteSet(K) /\ Cardinality(K) \in Nat
  <2>1. IsFiniteSet(1..n)
    BY FS_Interval
  <2>. QED BY <2>1, FS_Subset, FS_CardinalityType
<1>2. ASSUME NEW k \in K PROVE IsFiniteSet(Upto(K, k)) /\ Rank(K, k) \in 1..Cardinality(K) /\ Rank(K, k) <= k
  <2>0. k \in Nat /\ k >= 1
    BY <1>0
  <2>1. Upto(K, k) \in SUBSET K /\ Upto(K, k) \in SUBSET (1..k) /\ k \in Upto(K, k) /\ k \in Nat
    <3>1. \A i \in Upto(K, k) : i \in K /\ i \in 1..n /\ i <= k
      BY <1>0 DEF Upto
    <3>2. k <= k
      BY <2>0
    <3>3. k \in Upto(K, k)
      BY <3>2 DEF Upto
    <3>4. \A i \in Upto(K, k) : i \in 1..k
      BY <2>0, <3>1
    <3>. QED BY <2>0, <3>1, <3>3, <3>4
  <2>2. IsFiniteSet(Upto(K, k)) /\ Cardinality(Upto(K, k)) <= Cardinality(K)
    BY <1>1, <2>1, FS_Subset
  <2>3. IsFiniteSet(1..k) /\ Cardinality(1..k) = k
    BY <2>1, FS_Interval
  <2>4. Cardinality(Upto(K, k)) <= k
    BY <2>1, <2>3, FS_Subset
  <2>5. Cardinality(Upto(K, k)) # 0 /\ Cardinality(Upto(K, k)) \in Nat
    BY <2>1, <2>2, FS_EmptySet, FS_CardinalityType
  <2>. QED BY <1>1, <2>2, <2>4, <2>5 DEF Rank
<1>3. ASSUME NEW k \in K, NEW l \in K, k < l PROVE Rank(K, k) < Rank(K, l)
  <2>1. Upto(K, k) \in SUBSET Upto(K, l) /\ l \in Upto(K, l) /\ l \notin Upto(K, k)
    <3>1. k \in Nat /\ l \in Nat /\ \A i \in K : i \in Nat
      BY <1>0
    <3>2. l <= l /\ ~(l <= k) /\ \A i \in K : i <= k => i <= l
      BY <1>3, <3>1
    <3>. QED BY <3>2 DEF Upto
  <2>2. Cardinality(Upto(K, k)) <= Cardinality(Upto(K, l)) /\ Cardinality(Upto(K, k)) # Cardinality(Upto(K, l))
    BY <1>2, <2>1, FS_Subset
  <2>. QED BY <1>2, <2>2 DEF Rank
<1>4. ASSUME NEW j \in 1..Cardinality(K) PROVE \E k \in K : Rank(K, k) = j
  <2>. DEFINE C == 1..Cardinality(K)
              f == [k \in K |-> Rank(K, k)]
  <2>1. f \in [K -> C]
    BY <1>2
  <2>2. ASSUME NEW k \in K, NEW l \in K, f[k] = f[l] PROVE k = l
    <3>1. ~(k < l) /\ ~(l < k)
      BY <1>2, <1>3, <2>2
    <3>. QED BY <3>1
  <2>3. f \in Injection(K, C)
    BY <2>1, <2>2 DEF Injection, IsInjective
  <2>4. IsFiniteSet(C) /\ Cardinality(C) = Cardinality(K)
    BY <1>1, FS_Interval
  <2>5. f \in Surjection(K, C)
    BY <2>3, <2>4, FS_Injection
  <2>. QED BY <2>5 DEF Surjection
<1>. QED BY <1>1, <1>2, <1>3, <1>4

LEMMA NthProperties ==
    ASSUME NEW n \in Nat, NEW K \in SUBSET (1..n)
    PROVE  /\ \A j \in 1..Cardinality(K) : Nth(K, j) \in K /\ Rank(K, Nth(K, j)) = j /\ j <= Nth(K, j)
           /\ \A i, j \in 1..Cardinality(K) : i < j => Nth(K, i) < Nth(K, j)
           /\ \A k \in K : Nth(K, Rank(K, k)) = k
<1>1. ASSUME NEW j \in 1..Cardinality(K)
      PROVE  Nth(K, j) \in K /\ Rank(K, Nth(K, j)) = j /\ j <= Nth(K, j)
  <2>1. \E k \in K : Rank(K, k) = j
    BY RankProperties
  <2>2. Nth(K, j) \in K /\ Rank(K, Nth(K, j)) = j
    BY <2>1 DEF Nth
  <2>. QED BY <2>2, RankProperties
<1>N. \A k \in K : k \in Nat
  OBVIOUS
<1>0. /\ \A k \in K : Rank(K, k) \in 1..Cardinality(K)
      /\ \A k, l \in K : k < l => Rank(K, k) < Rank(K, l)
  BY RankProperties
<1>2. ASSUME NEW k \in K, NEW l \in K, Rank(K, k) = Rank(K, l) PROVE k = l
  <2>1. ~(Rank(K, k) < Rank(K, l)) /\ ~(Rank(K, l) < Rank(K, k))
    BY <1>0, <1>2
  <2>2. ~(k < l) /\ ~(l < k)
    BY <1>0, <2>1
  <2>. QED BY <1>N, <2>2
<1>3. ASSUME NEW i \in 1..Cardinality(K), NEW j \in 1..Cardinality(K), i < j PROVE Nth(K, i) < Nth(K, j)
  <2>1. Nth(K, i) # Nth(K, j)
    BY <1>1, <1>3
  <2>2. Nth(K, i) \in K /\ Nth(K, j) \in K
    BY <1>1
  <2>3. Rank(K, Nth(K, i)) = i /\ Rank(K, Nth(K, j)) = j /\ ~(j < i)
    BY <1>1, <1>3
  <2>4. ~(Nth(K, j) < Nth(K, i))
    BY <1>0, <2>2, <2>3
  <2>5. Nth(K, i) \in Nat /\ Nth(K, j) \in Nat
    BY <1>N, <2>2
  <2>. QED BY <2>1, <2>4, <2>5
<1>4. ASSUME NEW k \in K PROVE Nth(K, Rank(K, k)) = k
  <2>1. Rank(K, k) \in 1..Cardinality(K)
    BY RankProperties
  <2>. QED BY <1>1, <1>2, <2>1
<1>. QED BY <1>1, <1>3, <1>4

-----------------------------------------------------------------------------
(* disconnect: the positions that stay, and the list made of them.         *)

Kept(gone) == {k \in DOMAIN registered : registered[k] \notin gone}

LEMMA RemainingProperties ==
    ASSUME registered \in Seq(Sockets), NEW gone
    PROVE  /\ Kept(gone) \in SUBSET (1..Len(registered)) /\ Len(registered) \in Nat
           /\ Cardinality(Kept(gone)) \in Nat
           /\ Remaining(gone) \in Seq(Sockets)
           /\ Len(Remaining(gone)) = Cardinality(Kept(gone))
           /\ DOMAIN Remaining(gone) = 1..Cardinality(Kept(gone))
           /\ \A j \in DOMAIN Remaining(gone) : Remaining(gone)[j] = registered[Nth(Kept(gone), j)]
           /\ Listed(Remaining(gone)) = Listed(registered) \ gone
<1>. DEFINE K == Kept(gone)
            C == Cardinality(K)
<1>1. DOMAIN registered = 1..Len(registered) /\ Len(registered) \in Nat /\ registered \in [1..Len(registered) -> Sockets]
  BY LenProperties
<1>2. K \in SUBSET (1..Len(registered))
  BY <1>1 DEF Kept
<1>3. C \in Nat
  BY <1>1, <1>2, RankProperties
<1>4. Remaining(gone) = [j \in 1..C |-> registered[Nth(K, j)]]
  BY DEF Remaining, Nth, Rank, Upto, Kept
<1>5. \A j \in 1..C : Nth(K, j) \in K
  BY <1>1, <1>2, NthProperties
<1>6. \A j \in 1..C : registered[Nth(K, j)] \in Sockets
  BY <1>1, <1>2, <1>5
<1>7. Remaining(gone) \in Seq(Sockets) /\ DOMAIN Remaining(gone) = 1..C
  <2>. HIDE DEF C, K
  <2>1. Remaining(gone) \in [1..C -> Sockets]
    BY <1>4, <1>6
  <2>. QED BY <1>3, <2>1, SeqDef
<1>8. Len(Remaining(gone)) = C
  BY <1>3, <1>7, LenProperties
<1>9. Listed(Remaining(gone)) = Listed(registered) \ gone
  <2>1. ASSUME NEW s \in Listed(Remaining(gone)) PROVE s \in Listed(registered) \ gone
    <3>1. PICK j \in 1..C : s = registered[Nth(K, j)]
      BY <1>4, <1>7, <2>1 DEF Listed
    <3>. QED BY <1>5, <3>1 DEF Listed, Kept
  <2>2. ASSUME NEW s \in Listed(registered), s \notin gone PROVE s \in Listed(Remaining(gone))
    <3>1. PICK k \in DOMAIN registered : s = registered[k]
      BY <2>2 DEF Listed
    <3>2. k \in K
      BY <2>2, <3>1 DEF Kept
    <3>3. Rank(K, k) \in 1..C /\ Nth(K, Rank(K, k)) = k
      BY <1>1, <1>2, <3>2, RankProperties, NthProperties
    <3>4. Remaining(gone)[Rank(K, k)] = s
      BY <1>4, <3>1, <3>3
    <3>. QED BY <1>7, <3>3, <3>4 DEF Listed
  <2>. QED BY <2>1, <2>2
<1>. QED BY <1>1, <1>2, <1>3, <1>4, <1>7, <1>8, <1>9

-----------------------------------------------------------------------------
(* The inductive invariant.                                                *)

\* Coroutines carry messages there are, older ones before newer ones, and so do
\* sockets.  An iterator is nowhere, or past the first socket.
Numbered ==
    /\ \A i \in DOMAIN sends :
          /\ sends[i].no <= Len(said)
          /\ sends[i].next # 1
          /\ sends[i].next = 0 => ~sends[i].stale
    /\ \A i, j \in DOMAIN sends : i < j => sends[i].no < sends[j].no
    /\ \A s \in Sockets : \A k \in DOMAIN frames[s] : frames[s][k] <= Len(said)

\* A window has used its sockets in their order; the endpoint of a socket starts
\* with its connection and nothing is written before the socket is registered.
Opened ==
    \A s \in Sockets :
        /\ link[s] # "unused" <=> s[2] <= wsRef[s[1]]
        /\ link[s] = "unused" <=> endpoint[s] = "none"
        /\ endpoint[s] \in {"none", "accepting"} => frames[s] = <<>>

\* Sockets that a coroutine saw fail are gone; those it found on the list have been
\* served, and are no longer listed once the list it iterates over was given up.
Met ==
    \A i \in DOMAIN sends :
        /\ \A s \in sends[i].dead : link[s] = "gone"
        /\ \A s \in sends[i].due : endpoint[s] \in {"serving", "left"}
        /\ sends[i].stale => \A s \in sends[i].due : s \notin Listed(registered)

\* What a coroutine has yet to write is newer than all that was written there.
Older(s, n) == \A k \in DOMAIN frames[s] : frames[s][k] < n
Ahead ==
    \A i \in DOMAIN sends : ~sends[i].stale =>
        \A k \in DOMAIN registered : k >= sends[i].next => Older(registered[k], sends[i].no)

\* Sockets that were on the list once.
Off == {s \in Sockets : endpoint[s] \in {"serving", "left"} /\ s \notin Listed(registered)}
Removals == \A i \in DOMAIN sends : sends[i].removed <= Cardinality(Off)

Ordered ==
    /\ TypeOK
    /\ Numbered
    /\ Opened
    /\ ServedIsListed
    /\ Met
    /\ Ahead
    /\ InOrder
    /\ Removals

-----------------------------------------------------------------------------
(* What the invariant says of the data.                                    *)

LEMMA SocketsAreFinite == IsFiniteSet(Sockets) /\ Cardinality(Sockets) \in Nat
<1>1. IsFiniteSet(1..MaxSockets)
  BY BoundsAssumption, FS_Interval
<1>. QED BY <1>1, WindowsAssumption, FS_Product, FS_CardinalityType DEF Sockets

LEMMA Lists ==
    ASSUME TypeOK
    PROVE  /\ Len(sends) \in Nat /\ DOMAIN sends = 1..Len(sends)
           /\ Len(registered) \in Nat /\ DOMAIN registered = 1..Len(registered)
           /\ Len(said) \in Nat /\ DOMAIN said = 1..Len(said)
           /\ \A i \in DOMAIN sends : sends[i] \in Send
           /\ \A k \in DOMAIN registered : registered[k] \in Sockets
           /\ \A s \in Sockets : Len(frames[s]) \in Nat /\ DOMAIN frames[s] = 1..Len(frames[s])
           /\ \A s \in Sockets : \A k \in DOMAIN frames[s] : frames[s][k] \in 1..MaxSaid
           /\ \A s \in Sockets : read[s] \in Nat /\ read[s] <= Len(frames[s])
<1>. USE DEF TypeOK
<1>1. Len(sends) \in Nat /\ DOMAIN sends = 1..Len(sends) /\ \A i \in DOMAIN sends : sends[i] \in Send
  BY LenProperties, ElementOfSeq
<1>2. Len(registered) \in Nat /\ DOMAIN registered = 1..Len(registered)
      /\ \A k \in DOMAIN registered : registered[k] \in Sockets
  BY LenProperties, ElementOfSeq
<1>3. Len(said) \in Nat /\ DOMAIN said = 1..Len(said)
  BY LenProperties
<1>4. ASSUME NEW s \in Sockets
      PROVE  /\ Len(frames[s]) \in Nat /\ DOMAIN frames[s] = 1..Len(frames[s])
             /\ \A k \in DOMAIN frames[s] : frames[s][k] \in 1..MaxSaid
             /\ read[s] \in Nat /\ read[s] <= Len(frames[s])
  <2>1. frames[s] \in Seq(1..MaxSaid)
    OBVIOUS
  <2>2. read[s] \in 0..MaxSaid /\ read[s] <= Len(frames[s])
    OBVIOUS
  <2>. QED BY <2>1, <2>2, LenProperties, ElementOfSeq, BoundsAssumption
<1>. QED BY <1>1, <1>2, <1>3, <1>4

\* No more sockets are listed than there are.
LEMMA ListFits ==
    ASSUME TypeOK, ServedIsListed
    PROVE  Len(registered) <= Cardinality(Sockets)
<1>1. Len(registered) \in Nat /\ DOMAIN registered = 1..Len(registered)
  BY Lists
<1>2. registered \in [1..Len(registered) -> Sockets]
  BY LenProperties DEF TypeOK
<1>3. registered \in Injection(1..Len(registered), Sockets)
  BY <1>1, <1>2 DEF Injection, IsInjective, ServedIsListed
<1>4. Cardinality(1..Len(registered)) <= Cardinality(Sockets)
  BY <1>3, SocketsAreFinite, FS_Injection
<1>. QED BY <1>1, <1>4, FS_Interval

\* No socket is written more messages than there are.
LEMMA FramesFit ==
    ASSUME TypeOK, InOrder, NEW s \in Sockets
    PROVE  Len(frames[s]) <= MaxSaid
<1>1. Len(frames[s]) \in Nat /\ DOMAIN frames[s] = 1..Len(frames[s])
  BY Lists
<1>2. frames[s] \in [1..Len(frames[s]) -> 1..MaxSaid]
  <2>1. frames[s] \in Seq(1..MaxSaid)
    BY DEF TypeOK
  <2>. QED BY <2>1, LenProperties
<1>3. ASSUME NEW i \in DOMAIN frames[s], NEW j \in DOMAIN frames[s], frames[s][i] = frames[s][j] PROVE i = j
  <2>1. ~(i < j) /\ ~(j < i)
    <3>1. frames[s][i] \in 1..MaxSaid
      BY <1>1, <1>2
    <3>2. ~(frames[s][i] < frames[s][j]) /\ ~(frames[s][j] < frames[s][i])
      BY <1>3, <3>1, BoundsAssumption
    <3>. QED BY <3>2 DEF InOrder
  <2>2. i \in Nat /\ j \in Nat
    BY <1>1
  <2>. QED BY <2>1, <2>2
<1>4. frames[s] \in Injection(1..Len(frames[s]), 1..MaxSaid)
  BY <1>1, <1>2, <1>3 DEF Injection, IsInjective
<1>5. IsFiniteSet(1..MaxSaid) /\ Cardinality(1..MaxSaid) = MaxSaid
  BY BoundsAssumption, FS_Interval
<1>6. Cardinality(1..Len(frames[s])) <= MaxSaid
  BY <1>4, <1>5, FS_Injection
<1>. QED BY <1>1, <1>6, CountUpto

\* A window has opened no more sockets than have been used.
LEMMA WindowsFit ==
    ASSUME TypeOK, Opened, NEW w \in Windows
    PROVE  wsRef[w] \in Nat /\ wsRef[w] <= Cardinality(Used) /\ Cardinality(Used) \in Nat
<1>1. wsRef[w] \in 0..MaxSockets
  BY DEF TypeOK
<1>2. IsFiniteSet(Used) /\ Cardinality(Used) \in Nat
  BY SocketsAreFinite, FS_Subset, FS_CardinalityType DEF Used
<1>. DEFINE f == [n \in 1..wsRef[w] |-> <<w, n>>]
<1>3. ASSUME NEW n \in 1..wsRef[w] PROVE <<w, n>> \in Used
  <2>1. n \in 1..MaxSockets /\ n <= wsRef[w]
    BY <1>1, BoundsAssumption
  <2>2. <<w, n>> \in Sockets
    BY <2>1 DEF Sockets
  <2>. QED BY <2>1, <2>2 DEF Opened, Used
<1>4. f \in Injection(1..wsRef[w], Used)
  BY <1>3 DEF Injection, IsInjective
<1>5. Cardinality(1..wsRef[w]) <= Cardinality(Used)
  BY <1>2, <1>4, FS_Injection
<1>6. wsRef[w] \in Nat
  BY <1>1, BoundsAssumption
<1>. QED BY <1>2, <1>5, <1>6, CountUpto

LEMMA OffIsFinite ==
    /\ IsFiniteSet(Off) /\ Cardinality(Off) \in Nat
    /\ Cardinality(Off) <= Cardinality(Sockets)
BY SocketsAreFinite, FS_Subset, FS_CardinalityType DEF Off

-----------------------------------------------------------------------------
(* What the steps do.                                                      *)

LEMMA Begin == Init => Ordered
<1>. SUFFICES ASSUME Init PROVE Ordered
  OBVIOUS
<1>. USE DEF Init
<1>1. TypeOK
  BY BoundsAssumption, EmptySeq DEF TypeOK
<1>2. \A s \in Sockets : s[1] \in Windows /\ s[2] \in 1..MaxSockets
  BY DEF Sockets
<1>3. Opened
  BY <1>2, BoundsAssumption DEF Opened
<1>. QED BY <1>1, <1>3 DEF Ordered, Numbered, ServedIsListed, Listed, Met, Ahead, InOrder, Removals

\* A turn of the loop: the iterator is at n.
Place(t) == IF t.next = 0 THEN 1 ELSE t.next
Found(t) == IF t.next = 0 THEN Listed(registered) ELSE t.due
\* What it makes of the coroutine.
Stepped(t, v) ==
    /\ v \in Send
    /\ v.no = t.no /\ v.next = Place(t) + 1 /\ ~v.stale /\ v.at = registered[Place(t)]
    /\ v.due = Found(t) /\ v.removed = t.removed

LEMMA StartedIs ==
    ASSUME TypeOK, NEW t \in Send
    PROVE  LET u == Started(t)
           IN  /\ u \in Send
               /\ u.no = t.no /\ u.next = Place(t) /\ u.dead = t.dead /\ u.got = t.got
               /\ u.due = Found(t) /\ u.removed = t.removed
               /\ t.next # 0 => u.stale = t.stale
<1>. DEFINE u == Started(t)
            L == Listed(registered)
<1>1. t.next \in Nat
  BY SocketsAreFinite DEF Send
<1>2. CASE t.next = 0
  <2>1. 1 \in 0..(Cardinality(Sockets) + 1) /\ L \subseteq Sockets
    BY SocketsAreFinite, Lists DEF Listed
  <2>2. \E b \in BOOLEAN : u = [t EXCEPT !.next = 1, !.stale = b, !.due = L]
    <3>1. u = [t EXCEPT !.next = 1, !.stale = (registered = <<>>), !.due = L]
      BY <1>2 DEF Started
    <3>. WITNESS (registered = <<>>) \in BOOLEAN
    <3>. QED BY <3>1
  <2>3. PICK b \in BOOLEAN : u = [t EXCEPT !.next = 1, !.stale = b, !.due = L]
    BY <2>2
  <2>4. Place(t) = 1 /\ Found(t) = L
    BY <1>2 DEF Place, Found
  <2>. HIDE DEF u, L
  <2>5. u \in Send
    BY <2>1, <2>3 DEF Send
  <2>6. u.no = t.no /\ u.next = 1 /\ u.dead = t.dead /\ u.got = t.got /\ u.due = L /\ u.removed = t.removed
    BY <2>1, <2>3 DEF Send
  <2>. QED BY <1>2, <2>4, <2>5, <2>6 DEF u
<1>3. CASE t.next # 0
  <2>1. u = t
    BY <1>1, <1>3 DEF Started
  <2>2. Place(t) = t.next /\ Found(t) = t.due
    BY <1>3 DEF Place, Found
  <2>. QED BY <2>1, <2>2
<1>. QED BY <1>2, <1>3

LEMMA WriteSteps ==
    ASSUME TypeOK, Numbered, ServedIsListed, NEW i \in DOMAIN sends, Write(i)
    PROVE  LET t == sends[i]
               n == Place(t)
               s == registered[n]
           IN  /\ n \in DOMAIN registered /\ s \in Sockets
               /\ ~t.stale
               /\ \A k \in DOMAIN sends : k < i => sends[k].stale \/ sends[k].next > n
               /\ \E v :
                     /\ Stepped(t, v) /\ sends' = [sends EXCEPT ![i] = v]
                     /\ \/ /\ link[s] = "open" /\ frames' = [frames EXCEPT ![s] = Append(@, t.no)]
                           /\ v.dead = t.dead /\ v.got = t.got \union {s}
                        \/ /\ link[s] = "gone" /\ frames' = frames
                           /\ v.dead \in {t.dead, t.dead \union {s}} /\ v.got = t.got
               /\ UNCHANGED <<said, registered, endpoint, link, read, wsRef>>
<1>. DEFINE t == sends[i]
            n == Place(t)
            u == Started(t)
<1>1. t \in Send /\ i \in Nat /\ DOMAIN sends = 1..Len(sends) /\ DOMAIN registered = 1..Len(registered)
      /\ Len(registered) \in Nat
  BY Lists
<1>2. /\ u \in Send
      /\ u.no = t.no /\ u.next = n /\ u.dead = t.dead /\ u.got = t.got /\ u.due = Found(t) /\ u.removed = t.removed
      /\ t.next # 0 => u.stale = t.stale
  BY <1>1, StartedIs
<1>3. t.next \in Nat
  BY <1>1, SocketsAreFinite DEF Send
<1>4. n \in DOMAIN registered /\ ~u.stale
  <2>1. ~u.stale /\ ~(u.next > Len(registered))
    BY DEF Write, Exhausted
  <2>2. n \in Nat /\ n >= 1
    BY <1>3 DEF Place
  <2>. QED BY <1>1, <1>2, <2>1, <2>2
<1>5. ~t.stale
  BY <1>2, <1>4 DEF Numbered
<1>6. ASSUME NEW k \in DOMAIN sends, k < i PROVE sends[k].stale \/ sends[k].next > n
  <2>1. sends[k].stale \/ sends[k].next > t.next
    BY <1>1, <1>6 DEF Write, InTurn
  <2>2. sends[k].next # 1 /\ sends[k].next \in Nat
    BY Lists, SocketsAreFinite DEF Numbered, Send
  <2>. QED BY <1>3, <2>1, <2>2 DEF Place
<1>7. /\ n + 1 \in 0..(Cardinality(Sockets) + 1)
      /\ registered[n] \in Sockets
  BY <1>1, <1>4, Lists, ListFits, SocketsAreFinite
<1>. DEFINE s == registered[n]
<1>8. CASE /\ link[s] = "open"
           /\ frames' = [frames EXCEPT ![s] = Append(@, t.no)]
           /\ sends' = [sends EXCEPT ![i] = [u EXCEPT !.next = n + 1, !.at = s, !.got = u.got \union {s}]]
  <2>. DEFINE v == [u EXCEPT !.next = n + 1, !.at = s, !.got = u.got \union {s}]
  <2>1. Stepped(t, v) /\ v.dead = t.dead /\ v.got = t.got \union {s}
    <3>. HIDE DEF u, n
    <3>. QED BY <1>2, <1>4, <1>7 DEF Stepped, Send, n
  <2>. QED BY <1>4, <1>5, <1>6, <1>7, <1>8, <2>1 DEF Write
<1>9. CASE /\ link[s] = "gone"
           /\ \E dead \in {u.dead, u.dead \union {s}} :
                 sends' = [sends EXCEPT ![i] = [u EXCEPT !.next = n + 1, !.at = s, !.dead = dead]]
           /\ frames' = frames
  <2>1. PICK dead \in {u.dead, u.dead \union {s}} :
           sends' = [sends EXCEPT ![i] = [u EXCEPT !.next = n + 1, !.at = s, !.dead = dead]]
    BY <1>9
  <2>. DEFINE v == [u EXCEPT !.next = n + 1, !.at = s, !.dead = dead]
  <2>2. Stepped(t, v) /\ v.dead \in {t.dead, t.dead \union {s}} /\ v.got = t.got
    <3>. HIDE DEF u, n
    <3>. QED BY <1>2, <1>4, <1>7 DEF Stepped, Send, n
  <2>. QED BY <1>4, <1>5, <1>6, <1>7, <1>9, <2>1, <2>2 DEF Write
<1>10. u.next = n /\ u.no = t.no
  BY <1>2
<1>. QED BY <1>8, <1>9, <1>10 DEF Write

\* Sockets leave the list under the coroutines that go on: EndSend and Notice.
Removal(gone) ==
    /\ gone \subseteq Sockets /\ \A s \in gone : link[s] = "gone"
    /\ registered' = Remaining(gone)
    /\ \E m \in 0..Len(sends) : \E g \in [1..m -> DOMAIN sends] :
          /\ \A j, k \in 1..m : j < k => g[j] < g[k]
          /\ sends' = [k \in 1..m |-> Shifted(sends[g[k]], gone)]
    /\ endpoint' \in [Sockets -> {"none", "accepting", "serving", "left"}]
    /\ \A s \in Sockets :
          \/ endpoint'[s] = endpoint[s]
          \/ s \in gone /\ endpoint[s] = "serving" /\ endpoint'[s] = "left"
    /\ UNCHANGED <<said, link, frames, read, wsRef>>

LEMMA WithoutIs ==
    ASSUME NEW S, NEW q \in Seq(S), NEW i \in DOMAIN q
    PROVE  /\ Len(q) - 1 \in Nat
           /\ DOMAIN Without(q, i) = 1..(Len(q) - 1)
           /\ \A k \in 1..(Len(q) - 1) : Without(q, i)[k] = q[IF k < i THEN k ELSE k + 1]
<1>. DEFINE a == SubSeq(q, 1, i - 1)
            b == SubSeq(q, i + 1, Len(q))
<1>1. Len(q) \in Nat /\ DOMAIN q = 1..Len(q) /\ i \in 1..Len(q) /\ \A k \in 1..Len(q) : q[k] \in S
  BY LenProperties, ElementOfSeq
<1>2. a \in Seq(S) /\ Len(a) = i - 1 /\ \A k \in 1..(i - 1) : a[k] = q[k]
  <2>1. \A k \in 1..(i - 1) : q[k] \in S
    BY <1>1
  <2>2. /\ a \in Seq(S) /\ Len(a) = IF 1 <= i - 1 THEN (i - 1) - 1 + 1 ELSE 0
        /\ \A k \in 1..((i - 1) - 1 + 1) : a[k] = q[1 + k - 1]
    BY <1>1, <2>1, SubSeqProperties
  <2>. HIDE DEF a
  <2>. QED BY <1>1, <2>2
<1>3. b \in Seq(S) /\ Len(b) = Len(q) - i /\ \A k \in 1..(Len(q) - i) : b[k] = q[i + k]
  <2>1. \A k \in (i + 1)..Len(q) : q[k] \in S
    BY <1>1
  <2>2. /\ b \in Seq(S) /\ Len(b) = IF i + 1 <= Len(q) THEN Len(q) - (i + 1) + 1 ELSE 0
        /\ \A k \in 1..(Len(q) - (i + 1) + 1) : b[k] = q[i + 1 + k - 1]
    BY <1>1, <2>1, SubSeqProperties
  <2>. HIDE DEF b
  <2>3. Len(b) = Len(q) - i
    BY <1>1, <2>2
  <2>4. ASSUME NEW k \in 1..(Len(q) - i) PROVE b[k] = q[i + k]
    <3>1. k \in 1..(Len(q) - (i + 1) + 1) /\ i + 1 + k - 1 = i + k
      BY <1>1
    <3>2. b[k] = q[i + 1 + k - 1]
      BY <2>2, <3>1
    <3>. QED BY <3>1, <3>2
  <2>. QED BY <2>2, <2>3, <2>4
<1>. HIDE DEF a, b
<1>4. Without(q, i) = a \o b
  BY DEF Without, a, b
<1>5. /\ a \o b \in Seq(S) /\ Len(a \o b) = Len(a) + Len(b)
      /\ \A k \in 1..(Len(a) + Len(b)) : (a \o b)[k] = IF k <= Len(a) THEN a[k] ELSE b[k - Len(a)]
  BY <1>2, <1>3, ConcatProperties
<1>6. Len(a) + Len(b) = Len(q) - 1 /\ Len(q) - 1 \in Nat
  BY <1>1, <1>2, <1>3
<1>7. DOMAIN (a \o b) = 1..(Len(q) - 1)
  BY <1>5, <1>6, LenProperties
<1>8. ASSUME NEW k \in 1..(Len(q) - 1) PROVE (a \o b)[k] = q[IF k < i THEN k ELSE k + 1]
  <2>1. CASE k < i
    <3>1. k \in 1..(i - 1) /\ k <= Len(a) /\ k \in 1..(Len(a) + Len(b))
      BY <1>1, <1>2, <1>6, <2>1
    <3>. QED BY <1>2, <1>5, <2>1, <3>1
  <2>2. CASE ~(k < i)
    <3>1. ~(k <= Len(a)) /\ k \in 1..(Len(a) + Len(b)) /\ k - Len(a) \in 1..(Len(q) - i) /\ i + (k - Len(a)) = k + 1
      BY <1>1, <1>2, <1>6, <2>2
    <3>2. (a \o b)[k] = b[k - Len(a)]
      BY <1>5, <3>1
    <3>. QED BY <1>3, <2>2, <3>1, <3>2
  <2>. QED BY <2>1, <2>2
<1>. QED BY <1>4, <1>6, <1>7, <1>8

LEMMA EndSendRemoves ==
    ASSUME TypeOK, Opened, ServedIsListed, Met, NEW i \in DOMAIN sends, EndSend(i)
    PROVE  Removal(sends[i].dead) /\ endpoint' = endpoint
<1>. DEFINE gone == sends[i].dead
            others == Without(sends, i)
            m == Len(sends) - 1
            g == [k \in 1..m |-> IF k < i THEN k ELSE k + 1]
<1>1. sends[i] \in Send /\ Len(sends) \in Nat /\ DOMAIN sends = 1..Len(sends)
  BY Lists
<1>2. Started(sends[i]).dead = gone
  BY <1>1, StartedIs
<1>3. DOMAIN others = 1..m /\ m \in Nat /\ \A k \in 1..m : others[k] = sends[IF k < i THEN k ELSE k + 1]
  BY WithoutIs DEF TypeOK
<1>4. sends' = [k \in DOMAIN others |-> Shifted(others[k], gone)] /\ registered' = Remaining(gone)
  BY <1>2 DEF EndSend
<1>5. g \in [1..m -> DOMAIN sends] /\ m \in 0..Len(sends) /\ \A j, k \in 1..m : j < k => g[j] < g[k]
  BY <1>1, <1>3
<1>6. sends' = [k \in 1..m |-> Shifted(sends[g[k]], gone)]
  <2>. HIDE DEF m, others
  <2>. QED BY <1>3, <1>4
<1>7. gone \subseteq Sockets /\ \A s \in gone : link[s] = "gone"
  BY <1>1 DEF Send, Met
<1>8. endpoint' \in [Sockets -> {"none", "accepting", "serving", "left"}] /\ endpoint' = endpoint
      /\ UNCHANGED <<said, link, frames, read, wsRef>>
  BY DEF EndSend, TypeOK
<1>. HIDE DEF gone, others, m, g
<1>9. Removal(gone)
  BY <1>4, <1>5, <1>6, <1>7, <1>8 DEF Removal
<1>. QED BY <1>8, <1>9 DEF gone

LEMMA NoticeRemoves ==
    ASSUME TypeOK, NEW s \in Sockets, Notice(s)
    PROVE  Removal({s}) /\ endpoint' = [endpoint EXCEPT ![s] = "left"]
<1>. DEFINE m == Len(sends)
            g == [k \in 1..m |-> k]
<1>1. Len(sends) \in Nat /\ DOMAIN sends = 1..Len(sends)
  BY Lists
<1>2. g \in [1..m -> DOMAIN sends] /\ m \in 0..Len(sends) /\ \A j, k \in 1..m : j < k => g[j] < g[k]
  BY <1>1
<1>3. sends' = [k \in 1..m |-> Shifted(sends[g[k]], {s})]
  BY <1>1 DEF Notice
<1>4. /\ endpoint' \in [Sockets -> {"none", "accepting", "serving", "left"}]
      /\ \A r \in Sockets : endpoint'[r] = endpoint[r] \/ (r = s /\ endpoint[r] = "serving" /\ endpoint'[r] = "left")
  BY DEF Notice, TypeOK
<1>. HIDE DEF m, g
<1>5. Removal({s})
  BY <1>2, <1>3, <1>4 DEF Notice, Removal
<1>. QED BY <1>5 DEF Notice

LEMMA ShiftedIs ==
    ASSUME TypeOK, NEW t \in Send, NEW gone \in SUBSET Sockets, t.removed <= Cardinality(Off)
    PROVE  LET u == Shifted(t, gone)
               L == Listed(registered)
           IN  /\ u \in Send
               /\ u.no = t.no /\ u.next = t.next /\ u.at = t.at /\ u.dead = t.dead /\ u.due = t.due /\ u.got = t.got
               /\ t.next = 0 \/ t.stale => u = t
               /\ ~(t.next = 0 \/ t.stale) => /\ u.stale <=> L \subseteq gone
                                              /\ u.removed = t.removed + Cardinality(gone \intersect L)
               /\ u.removed <= t.removed + Cardinality(gone \intersect L)
               /\ Cardinality(gone \intersect L) \in Nat
<1>. DEFINE u == Shifted(t, gone)
            L == Listed(registered)
            c == Cardinality(gone \intersect L)
<1>1. IsFiniteSet(gone \intersect L) /\ c \in Nat
  BY SocketsAreFinite, FS_Subset, FS_CardinalityType
<1>2. Cardinality(Off) + c <= Cardinality(Sockets)
  <2>1. Off \intersect (gone \intersect L) = {} /\ Off \union (gone \intersect L) \in SUBSET Sockets
    BY DEF Off
  <2>2. Cardinality(Off \union (gone \intersect L)) = Cardinality(Off) + c
    <3>1. Cardinality(Off \intersect (gone \intersect L)) = 0
      BY <2>1, FS_EmptySet
    <3>2. Cardinality(Off \union (gone \intersect L)) =
             Cardinality(Off) + Cardinality(gone \intersect L) - Cardinality(Off \intersect (gone \intersect L))
      BY <1>1, OffIsFinite, FS_Union
    <3>. QED BY <1>1, <3>1, <3>2, OffIsFinite
  <2>. QED BY <2>1, <2>2, SocketsAreFinite, FS_Subset
<1>3. t.removed \in Nat
  BY SocketsAreFinite DEF Send
<1>4. t.removed + c \in 0..Cardinality(Sockets)
  BY <1>1, <1>2, <1>3, SocketsAreFinite, OffIsFinite
<1>5. CASE t.next = 0 \/ t.stale
  <2>1. u = t
    BY <1>5 DEF Shifted
  <2>2. t.removed <= t.removed + c
    BY <1>1, <1>3
  <2>. HIDE DEF c
  <2>. QED BY <1>1, <1>5, <2>1, <2>2 DEF c
<1>6. CASE ~(t.next = 0 \/ t.stale)
  <2>1. \E b \in BOOLEAN : (b <=> L \subseteq gone) /\ u = [t EXCEPT !.stale = b, !.removed = t.removed + c]
    <3>1. u = [t EXCEPT !.stale = (L \subseteq gone), !.removed = t.removed + c]
      BY <1>6 DEF Shifted
    <3>. WITNESS (L \subseteq gone) \in BOOLEAN
    <3>. QED BY <3>1
  <2>2. PICK b \in BOOLEAN : (b <=> L \subseteq gone) /\ u = [t EXCEPT !.stale = b, !.removed = t.removed + c]
    BY <2>1
  <2>. HIDE DEF u, c
  <2>3. u \in Send /\ u.stale = b /\ u.removed = t.removed + c
    BY <1>4, <2>2 DEF Send
  <2>4. u.no = t.no /\ u.next = t.next /\ u.at = t.at /\ u.dead = t.dead /\ u.due = t.due /\ u.got = t.got
    BY <2>2 DEF Send
  <2>5. u.removed <= t.removed + c
    BY <1>4, <2>3
  <2>. QED BY <1>1, <1>6, <2>2, <2>3, <2>4, <2>5 DEF u, c
<1>. QED BY <1>5, <1>6

LEMMA OffGrows ==
    ASSUME TypeOK, ServedIsListed, NEW gone, Removal(gone)
    PROVE  /\ Off' = Off \union (gone \intersect Listed(registered))
           /\ Cardinality(Off)' = Cardinality(Off) + Cardinality(gone \intersect Listed(registered))
<1>. DEFINE L == Listed(registered)
            G == gone \intersect L
<1>1. gone \subseteq Sockets /\ Listed(registered)' = L \ gone
  BY RemainingProperties DEF Removal, TypeOK
<1>2. Off' = Off \union G
  <2>1. ASSUME NEW s \in Sockets PROVE s \in Off' <=> s \in Off \union G
    <3>1. endpoint'[s] \in {"serving", "left"} <=> endpoint[s] \in {"serving", "left"}
      BY DEF Removal
    <3>2. s \in G => endpoint[s] = "serving"
      BY DEF ServedIsListed
    <3>. QED BY <1>1, <3>1, <3>2 DEF Off
  <2>2. Off' \subseteq Sockets /\ Off \union G \subseteq Sockets
    BY <1>1 DEF Off
  <2>. QED BY <2>1, <2>2
<1>3. Off \intersect G = {}
  BY DEF Off
<1>4. IsFiniteSet(G) /\ Cardinality(G) \in Nat
  BY <1>1, SocketsAreFinite, FS_Subset, FS_CardinalityType
<1>5. Cardinality(Off \union G) = Cardinality(Off) + Cardinality(G) - Cardinality(Off \intersect G)
  BY <1>4, OffIsFinite, FS_Union
<1>6. Cardinality(Off \intersect G) = 0
  BY <1>3, FS_EmptySet
<1>7. Cardinality(Off \union G) = Cardinality(Off) + Cardinality(G)
  BY <1>4, <1>5, <1>6, OffIsFinite
<1>8. Cardinality(Off)' = Cardinality(Off \union G)
  BY <1>2
<1>. QED BY <1>2, <1>7, <1>8

\* What is left of a coroutine when sockets are removed.
Follows(k, j, gone) ==
    LET u == sends[k]'
        t == sends[j]
        L == Listed(registered)
    IN  /\ t \in Send /\ u \in Send
        /\ u.no = t.no /\ u.next = t.next /\ u.at = t.at /\ u.dead = t.dead /\ u.due = t.due /\ u.got = t.got
        /\ t.next = 0 \/ t.stale => u = t
        /\ ~(t.next = 0 \/ t.stale) => /\ u.stale <=> L \subseteq gone
                                       /\ u.removed = t.removed + Cardinality(gone \intersect L)
        /\ u.removed <= t.removed + Cardinality(gone \intersect L)
        /\ t.removed \in Nat /\ Cardinality(gone \intersect L) \in Nat

LEMMA RemovalFollows ==
    ASSUME TypeOK, Removals, NEW gone, Removal(gone)
    PROVE  \E m \in Nat : \E g \in [1..m -> DOMAIN sends] :
              /\ sends' \in Seq(Send) /\ DOMAIN sends' = 1..m
              /\ \A j, k \in 1..m : j < k => g[j] < g[k]
              /\ \A k \in 1..m : Follows(k, g[k], gone)
<1>1. Len(sends) \in Nat /\ \A i \in DOMAIN sends : sends[i] \in Send /\ sends[i].removed \in Nat
  BY Lists, SocketsAreFinite DEF Send
<1>2. PICK m \in 0..Len(sends) : \E g \in [1..m -> DOMAIN sends] :
          /\ \A j, k \in 1..m : j < k => g[j] < g[k]
          /\ sends' = [k \in 1..m |-> Shifted(sends[g[k]], gone)]
  BY DEF Removal
<1>3. PICK g \in [1..m -> DOMAIN sends] :
          /\ \A j, k \in 1..m : j < k => g[j] < g[k]
          /\ sends' = [k \in 1..m |-> Shifted(sends[g[k]], gone)]
  BY <1>2
<1>4. m \in Nat
  BY <1>1
<1>5. ASSUME NEW k \in 1..m PROVE Follows(k, g[k], gone)
  <2>1. g[k] \in DOMAIN sends /\ sends'[k] = Shifted(sends[g[k]], gone)
    BY <1>3
  <2>2. sends[g[k]] \in Send /\ sends[g[k]].removed <= Cardinality(Off) /\ sends[g[k]].removed \in Nat /\ gone \in SUBSET Sockets
    BY <1>1, <2>1 DEF Removals, Removal
  <2>3. sends[k]' = Shifted(sends[g[k]], gone)
    BY <2>1
  <2>. DEFINE t == sends[g[k]]
              u == Shifted(t, gone)
              L == Listed(registered)
              c == Cardinality(gone \intersect L)
  <2>4. /\ u \in Send
        /\ u.no = t.no /\ u.next = t.next /\ u.at = t.at /\ u.dead = t.dead /\ u.due = t.due /\ u.got = t.got
        /\ t.next = 0 \/ t.stale => u = t
        /\ ~(t.next = 0 \/ t.stale) => /\ u.stale <=> L \subseteq gone
                                       /\ u.removed = t.removed + c
        /\ u.removed <= t.removed + c
        /\ c \in Nat
    BY <2>2, ShiftedIs
  <2>5. sends[k]' = u
    BY <2>3
  <2>. QED BY <2>2, <2>4, <2>5, Zenon DEF Follows
<1>6. sends' \in Seq(Send) /\ DOMAIN sends' = 1..m
  <2>1. \A k \in 1..m : sends'[k] \in Send
    BY <1>5 DEF Follows
  <2>2. sends' \in [1..m -> Send]
    BY <1>3, <2>1
  <2>. QED BY <1>4, <2>2, SeqDef
<1>. QED BY <1>3, <1>4, <1>5, <1>6

LEMMA RemovalOrdered ==
    ASSUME Ordered, NEW gone, Removal(gone)
    PROVE  Ordered'
<1>. USE DEF Ordered
<1>. DEFINE L == Listed(registered)
            K == Kept(gone)
<1>1. PICK m \in Nat : \E g \in [1..m -> DOMAIN sends] :
              /\ sends' \in Seq(Send) /\ DOMAIN sends' = 1..m
              /\ \A j, k \in 1..m : j < k => g[j] < g[k]
              /\ \A k \in 1..m : Follows(k, g[k], gone)
  BY RemovalFollows
<1>2. PICK g \in [1..m -> DOMAIN sends] :
              /\ sends' \in Seq(Send) /\ DOMAIN sends' = 1..m
              /\ \A j, k \in 1..m : j < k => g[j] < g[k]
              /\ \A k \in 1..m : Follows(k, g[k], gone)
  BY <1>1
<1>3. /\ registered' \in Seq(Sockets) /\ DOMAIN registered' = 1..Cardinality(K)
      /\ \A j \in DOMAIN registered' : registered'[j] = registered[Nth(K, j)]
      /\ Listed(registered)' = L \ gone
      /\ K \in SUBSET (1..Len(registered)) /\ Len(registered) \in Nat
  BY RemainingProperties DEF Removal, TypeOK
<1>4. /\ \A j \in 1..Cardinality(K) : Nth(K, j) \in K /\ j <= Nth(K, j)
      /\ \A i, j \in 1..Cardinality(K) : i < j => Nth(K, i) < Nth(K, j)
      /\ Cardinality(K) \in Nat
  BY <1>3, NthProperties, RankProperties
<1>5. TypeOK'
  BY <1>2, <1>3 DEF TypeOK, Removal
<1>6. Numbered'
  <2>1. ASSUME NEW k \in DOMAIN sends'
        PROVE  /\ sends'[k].no <= Len(said') /\ sends'[k].next # 1
               /\ sends'[k].next = 0 => ~sends'[k].stale
    <3>1. g[k] \in DOMAIN sends /\ Follows(k, g[k], gone)
      BY <1>2, <2>1
    <3>. QED BY <3>1 DEF Follows, Numbered, Removal
  <2>2. ASSUME NEW j \in DOMAIN sends', NEW k \in DOMAIN sends', j < k PROVE sends'[j].no < sends'[k].no
    <3>1. g[j] \in DOMAIN sends /\ g[k] \in DOMAIN sends /\ g[j] < g[k]
          /\ Follows(k, g[k], gone) /\ Follows(j, g[j], gone)
      BY <1>2, <2>2
    <3>. QED BY <3>1 DEF Follows, Numbered
  <2>3. (\A s \in Sockets : \A k \in DOMAIN frames[s] : frames[s][k] <= Len(said))'
    BY DEF Numbered, Removal
  <2>. QED BY <2>1, <2>2, <2>3 DEF Numbered
<1>7. Opened'
  BY DEF Opened, Removal
<1>8. ServedIsListed'
  <2>1. \A s \in Listed(registered)' : endpoint'[s] = "serving"
    <3>1. \A s \in L : s \in Sockets /\ endpoint[s] = "serving"
      BY Lists DEF Listed, ServedIsListed
    <3>. QED BY <1>3, <3>1 DEF Removal
  <2>2. \A s \in Sockets : endpoint'[s] = "serving" /\ link'[s] = "open" => s \in Listed(registered)'
    BY <1>3 DEF ServedIsListed, Removal
  <2>3. ASSUME NEW j \in DOMAIN registered', NEW k \in DOMAIN registered', registered'[j] = registered'[k] PROVE j = k
    <3>1. Nth(K, j) \in DOMAIN registered /\ Nth(K, k) \in DOMAIN registered
      BY <1>3, <1>4 DEF Kept
    <3>2. Nth(K, j) = Nth(K, k)
      BY <1>3, <2>3, <3>1 DEF ServedIsListed
    <3>3. Nth(K, j) \in Nat /\ Nth(K, k) \in Nat /\ j \in Nat /\ k \in Nat
      BY <1>3, <1>4
    <3>4. ~(j < k) /\ ~(k < j)
      BY <1>3, <1>4, <3>2, <3>3
    <3>. QED BY <3>3, <3>4
  <2>. QED BY <2>1, <2>2, <2>3 DEF ServedIsListed
<1>9. Met'
  <2>1. ASSUME NEW k \in DOMAIN sends'
        PROVE  /\ \A s \in sends'[k].dead : link'[s] = "gone"
               /\ \A s \in sends'[k].due : endpoint'[s] \in {"serving", "left"}
               /\ sends'[k].stale => \A s \in sends'[k].due : s \notin Listed(registered)'
    <3>1. g[k] \in DOMAIN sends /\ Follows(k, g[k], gone)
      BY <1>2, <2>1
    <3>2. /\ \A s \in sends[g[k]].dead : link[s] = "gone"
          /\ \A s \in sends[g[k]].due : endpoint[s] \in {"serving", "left"} /\ s \in Sockets
          /\ sends[g[k]].stale => \A s \in sends[g[k]].due : s \notin L
      BY <3>1, Lists DEF Met, Send
    <3>3. sends'[k].stale => sends[g[k]].stale \/ L \subseteq gone
      BY <3>1 DEF Follows
    <3>4. sends'[k].dead = sends[g[k]].dead /\ sends'[k].due = sends[g[k]].due
      BY <3>1 DEF Follows
    <3>. QED BY <1>3, <3>2, <3>3, <3>4 DEF Removal
  <2>. QED BY <2>1 DEF Met
<1>10. Ahead'
  <2>1. ASSUME NEW i \in DOMAIN sends', ~sends'[i].stale, NEW k \in DOMAIN registered', k >= sends'[i].next
        PROVE  Older(registered[k], sends[i].no)'
    <3>1. g[i] \in DOMAIN sends /\ Follows(i, g[i], gone)
      BY <1>2, <2>1
    <3>2. ~sends[g[i]].stale /\ sends'[i].next = sends[g[i]].next /\ sends'[i].no = sends[g[i]].no
          /\ sends[g[i]].next \in Nat
      BY <2>1, <3>1, SocketsAreFinite DEF Follows, Send
    <3>3. Nth(K, k) \in DOMAIN registered /\ Nth(K, k) >= k /\ Nth(K, k) \in Nat /\ k \in Nat
      BY <1>3, <1>4 DEF Kept
    <3>4. Nth(K, k) >= sends[g[i]].next
      BY <2>1, <3>2, <3>3
    <3>5. Older(registered[Nth(K, k)], sends[g[i]].no)
      BY <3>1, <3>2, <3>3, <3>4 DEF Ahead
    <3>. QED BY <1>3, <3>2, <3>5 DEF Older, Removal
  <2>. QED BY <2>1 DEF Ahead
<1>11. InOrder'
  BY DEF InOrder, Removal
<1>12. Removals'
  <2>1. ASSUME NEW k \in DOMAIN sends' PROVE sends'[k].removed <= Cardinality(Off)'
    <3>1. g[k] \in DOMAIN sends /\ Follows(k, g[k], gone)
      BY <1>2, <2>1
    <3>2. sends[g[k]].removed <= Cardinality(Off)
      BY <3>1 DEF Removals
    <3>3. Cardinality(Off)' = Cardinality(Off) + Cardinality(gone \intersect L)
      BY OffGrows
    <3>4. /\ sends'[k].removed <= sends[g[k]].removed + Cardinality(gone \intersect L)
          /\ sends'[k].removed \in Nat /\ sends[g[k]].removed \in Nat /\ Cardinality(gone \intersect L) \in Nat
      BY <3>1, SocketsAreFinite DEF Follows, Send
    <3>. QED BY <3>2, <3>3, <3>4, OffIsFinite
  <2>. QED BY <2>1 DEF Removals
<1>. QED BY <1>5, <1>6, <1>7, <1>8, <1>9, <1>10, <1>11, <1>12

-----------------------------------------------------------------------------
(* Every step keeps the invariant.                                         *)

LEMMA ScheduleOrdered ==
    ASSUME Ordered, NEW m \in Messages, Schedule(m)
    PROVE  Ordered'
<1>. USE DEF Ordered
<1>. DEFINE t == [no |-> Len(said) + 1, next |-> 0, stale |-> FALSE, at |-> Nowhere,
                  dead |-> {}, due |-> {}, got |-> {}, removed |-> 0]
<1>1. /\ Len(sends) \in Nat /\ DOMAIN sends = 1..Len(sends) /\ Len(said) \in Nat
      /\ \A i \in DOMAIN sends : sends[i] \in Send
  BY Lists
<1>2. t \in Send
  BY <1>1, SocketsAreFinite, BoundsAssumption DEF Schedule, Send
<1>. HIDE DEF t
<1>3. /\ sends' \in Seq(Send) /\ DOMAIN sends' = 1..(Len(sends) + 1)
      /\ \A i \in 1..Len(sends) : sends'[i] = sends[i]
      /\ sends'[Len(sends) + 1] = t
  <2>1. sends' = Append(sends, t) /\ sends \in Seq(Send)
    BY DEF Schedule, t, TypeOK
  <2>. QED BY <1>1, <1>2, <2>1, AppendProperties, LenProperties
<1>4. said' \in Seq(Messages) /\ Len(said') = Len(said) + 1 /\ Len(said') <= MaxSaid
  <2>1. said' = Append(said, m) /\ said \in Seq(Messages) /\ Len(said) < MaxSaid
    BY DEF Schedule, TypeOK
  <2>. QED BY <1>1, <2>1, AppendProperties, BoundsAssumption
<1>5. t.no = Len(said) + 1 /\ t.next = 0 /\ ~t.stale /\ t.dead = {} /\ t.due = {} /\ t.removed = 0
  BY DEF t
<1>6. UNCHANGED <<registered, endpoint, link, frames, read, wsRef>>
  BY DEF Schedule
<1>7. TypeOK'
  BY <1>3, <1>4, <1>6 DEF TypeOK
<1>8. \A i \in DOMAIN sends' : (i \in DOMAIN sends /\ sends'[i] = sends[i]) \/ (i = Len(sends) + 1 /\ sends'[i] = t)
  BY <1>1, <1>3
<1>9. Numbered'
  <2>1. \A i \in DOMAIN sends : sends[i].no <= Len(said) /\ sends[i].no \in Nat
    BY <1>1, BoundsAssumption DEF Numbered, Send
  <2>2. \A i \in DOMAIN sends' : sends'[i].no <= Len(said') /\ sends'[i].next # 1 /\ (sends'[i].next = 0 => ~sends'[i].stale)
    BY <1>1, <1>4, <1>5, <1>8, <2>1 DEF Numbered
  <2>3. \A i, j \in DOMAIN sends' : i < j => sends'[i].no < sends'[j].no
    BY <1>1, <1>5, <1>8, <2>1 DEF Numbered
  <2>4. (\A s \in Sockets : \A k \in DOMAIN frames[s] : frames[s][k] <= Len(said))'
    BY <1>1, <1>4, <1>6, Lists, BoundsAssumption DEF Numbered
  <2>. QED BY <2>2, <2>3, <2>4 DEF Numbered
<1>10. Opened' /\ ServedIsListed' /\ InOrder'
  BY <1>6 DEF Opened, ServedIsListed, InOrder, Listed
<1>11. Met'
  BY <1>5, <1>6, <1>8 DEF Met, Listed
<1>12. Ahead'
  <2>1. ASSUME NEW k \in DOMAIN registered PROVE Older(registered[k], t.no)
    <3>1. \A j \in DOMAIN frames[registered[k]] : frames[registered[k]][j] <= Len(said) /\ frames[registered[k]][j] \in Nat
      BY Lists, BoundsAssumption DEF Numbered
    <3>. QED BY <1>1, <1>5, <3>1 DEF Older
  <2>. QED BY <1>6, <1>8, <2>1 DEF Ahead, Older
<1>13. Removals'
  <2>1. Off' = Off
    BY <1>6 DEF Off, Listed
  <2>. QED BY <1>5, <1>8, <2>1, OffIsFinite DEF Removals
<1>. QED BY <1>7, <1>9, <1>10, <1>11, <1>12, <1>13

LEMMA WriteOrdered ==
    ASSUME Ordered, NEW i \in DOMAIN sends, Write(i)
    PROVE  Ordered'
<1>. USE DEF Ordered
<1>. DEFINE t == sends[i]
            n == Place(t)
            s == registered[n]
<1>1. /\ n \in DOMAIN registered /\ s \in Sockets
      /\ ~t.stale
      /\ \A k \in DOMAIN sends : k < i => sends[k].stale \/ sends[k].next > n
      /\ UNCHANGED <<said, registered, endpoint, link, read, wsRef>>
  BY WriteSteps
<1>2. PICK v : /\ Stepped(t, v) /\ sends' = [sends EXCEPT ![i] = v]
               /\ \/ /\ link[s] = "open" /\ frames' = [frames EXCEPT ![s] = Append(@, t.no)]
                     /\ v.dead = t.dead /\ v.got = t.got \union {s}
                  \/ /\ link[s] = "gone" /\ frames' = frames
                     /\ v.dead \in {t.dead, t.dead \union {s}} /\ v.got = t.got
  BY WriteSteps
<1>3. /\ Len(sends) \in Nat /\ DOMAIN sends = 1..Len(sends)
      /\ \A j \in DOMAIN sends : sends[j] \in Send /\ sends[j].no \in 1..MaxSaid /\ sends[j].next \in Nat
      /\ t \in Send /\ t.no \in 1..MaxSaid /\ t.next \in Nat
      /\ DOMAIN registered = 1..Len(registered) /\ Len(registered) \in Nat
      /\ n \in Nat /\ n >= 1 /\ n >= t.next
  BY <1>1, Lists, SocketsAreFinite DEF Send, Place
<1>4. endpoint[s] = "serving" /\ s \in Listed(registered)
  BY <1>1 DEF ServedIsListed, Listed
<1>5. /\ v \in Send /\ v.no = t.no /\ v.next = n + 1 /\ ~v.stale /\ v.at = s
      /\ v.due = Found(t) /\ v.removed = t.removed
  BY <1>2 DEF Stepped
<1>. HIDE DEF n, s
<1>6. sends' \in Seq(Send) /\ DOMAIN sends' = DOMAIN sends /\ \A j \in DOMAIN sends' : sends'[j] = IF j = i THEN v ELSE sends[j]
  <2>1. sends \in Seq(Send)
    BY DEF TypeOK
  <2>. QED BY <1>2, <1>3, <1>5, <2>1, ExceptSeq, LenProperties
<1>7. Older(s, t.no)
  BY <1>1, <1>3 DEF Ahead, s
<1>8. frames' = frames \/ frames' = [frames EXCEPT ![s] = Append(@, t.no)]
  BY <1>2
<1>9. /\ frames[s] \in Seq(1..MaxSaid) /\ Len(frames[s]) \in Nat /\ DOMAIN frames[s] = 1..Len(frames[s])
      /\ Append(frames[s], t.no) \in Seq(1..MaxSaid)
      /\ DOMAIN Append(frames[s], t.no) = 1..(Len(frames[s]) + 1)
      /\ Len(Append(frames[s], t.no)) = Len(frames[s]) + 1
      /\ \A k \in 1..Len(frames[s]) : Append(frames[s], t.no)[k] = frames[s][k]
      /\ Append(frames[s], t.no)[Len(frames[s]) + 1] = t.no
  <2>1. frames[s] \in Seq(1..MaxSaid)
    BY <1>1 DEF TypeOK
  <2>. QED BY <1>3, <2>1, AppendProperties, LenProperties
<1>10. /\ frames' \in [Sockets -> Seq(1..MaxSaid)]
       /\ \A r \in Sockets : r # s => frames'[r] = frames[r]
       /\ frames'[s] = frames[s] \/ frames'[s] = Append(frames[s], t.no)
  BY <1>1, <1>8, <1>9 DEF TypeOK
<1>11. \A r \in Sockets : Len(frames'[r]) \in Nat /\ Len(frames'[r]) >= Len(frames[r]) /\ DOMAIN frames'[r] = 1..Len(frames'[r])
  BY <1>9, <1>10, Lists
<1>12. TypeOK'
  <2>1. \A r \in Sockets : read[r] <= Len(frames'[r])
    BY <1>11, Lists
  <2>. QED BY <1>1, <1>6, <1>10, <2>1 DEF TypeOK
<1>13. \A r \in Sockets : \A k \in DOMAIN frames'[r] :
          (k \in DOMAIN frames[r] /\ frames'[r][k] = frames[r][k]) \/ (r = s /\ k = Len(frames[s]) + 1 /\ frames'[r][k] = t.no)
  <2>1. ASSUME NEW r \in Sockets, NEW k \in DOMAIN frames'[r], r # s PROVE k \in DOMAIN frames[r] /\ frames'[r][k] = frames[r][k]
    BY <1>10, <2>1
  <2>2. ASSUME NEW k \in DOMAIN Append(frames[s], t.no)
        PROVE  \/ k \in DOMAIN frames[s] /\ Append(frames[s], t.no)[k] = frames[s][k]
               \/ k = Len(frames[s]) + 1 /\ Append(frames[s], t.no)[k] = t.no
    BY <1>9, <2>2
  <2>3. ASSUME NEW k \in DOMAIN frames'[s]
        PROVE  (k \in DOMAIN frames[s] /\ frames'[s][k] = frames[s][k]) \/ (k = Len(frames[s]) + 1 /\ frames'[s][k] = t.no)
    <3>1. CASE frames'[s] = frames[s]
      BY <2>3, <3>1
    <3>2. CASE frames'[s] = Append(frames[s], t.no)
      BY <2>2, <2>3, <3>2
    <3>. QED BY <1>10, <3>1, <3>2
  <2>. QED BY <2>1, <2>3
<1>14. Numbered'
  <2>1. \A j \in DOMAIN sends' : sends'[j].no = sends[j].no
    BY <1>5, <1>6
  <2>2. \A j \in DOMAIN sends' : sends'[j].next # 1 /\ (sends'[j].next = 0 => ~sends'[j].stale)
    BY <1>3, <1>5, <1>6 DEF Numbered
  <2>3. \A r \in Sockets : \A k \in DOMAIN frames'[r] : frames'[r][k] <= Len(said')
    BY <1>1, <1>13 DEF Numbered
  <2>. QED BY <1>1, <1>6, <2>1, <2>2, <2>3 DEF Numbered
<1>15. Opened'
  BY <1>1, <1>4, <1>10 DEF Opened
<1>16. ServedIsListed'
  BY <1>1 DEF ServedIsListed, Listed
<1>17. Met'
  <2>1. ASSUME NEW j \in DOMAIN sends'
        PROVE  /\ \A r \in sends'[j].dead : link'[r] = "gone"
               /\ \A r \in sends'[j].due : endpoint'[r] \in {"serving", "left"}
               /\ sends'[j].stale => \A r \in sends'[j].due : r \notin Listed(registered)'
    <3>1. CASE j # i
      BY <1>1, <1>6, <2>1, <3>1 DEF Met, Listed
    <3>2. CASE j = i
      <4>1. \A r \in v.dead : link[r] = "gone"
        BY <1>2 DEF Met
      <4>2. \A r \in v.due : endpoint[r] \in {"serving", "left"}
        BY <1>5 DEF Met, Found, ServedIsListed
      <4>. QED BY <1>1, <1>5, <1>6, <2>1, <3>2, <4>1, <4>2
    <3>. QED BY <3>1, <3>2
  <2>. QED BY <2>1 DEF Met
<1>18. Ahead'
  <2>1. ASSUME NEW j \in DOMAIN sends', ~sends'[j].stale, NEW k \in DOMAIN registered', k >= sends'[j].next
        PROVE  Older(registered[k], sends[j].no)'
    <3>1. k \in DOMAIN registered /\ registered'[k] = registered[k] /\ k \in Nat /\ registered[k] \in Sockets
      BY <1>1, <1>3, <2>1, Lists
    <3>2. CASE j = i
      <4>1. k >= t.next /\ k # n
        BY <1>3, <1>5, <1>6, <2>1, <3>1, <3>2
      <4>2. Older(registered[k], t.no) /\ registered[k] # s
        BY <1>1, <3>1, <4>1 DEF Ahead, ServedIsListed, s
      <4>. QED BY <1>5, <1>6, <1>10, <3>1, <3>2, <4>2 DEF Older
    <3>3. CASE j # i
      <4>1. sends'[j] = sends[j] /\ j \in DOMAIN sends /\ ~sends[j].stale /\ k >= sends[j].next
        BY <1>6, <2>1, <3>3
      <4>2. Older(registered[k], sends[j].no)
        BY <3>1, <4>1 DEF Ahead
      <4>3. registered[k] = s => t.no < sends[j].no
        <5>1. ASSUME registered[k] = s PROVE k = n
          BY <1>1, <3>1, <5>1 DEF ServedIsListed, s
        <5>2. ASSUME k = n PROVE ~(j < i)
          BY <1>1, <1>3, <4>1, <5>2
        <5>. QED BY <1>3, <3>3, <4>1, <5>1, <5>2 DEF Numbered
      <4>. QED BY <1>13, <3>1, <4>1, <4>2, <4>3 DEF Older
    <3>. QED BY <3>2, <3>3
  <2>. QED BY <2>1 DEF Ahead
<1>19. InOrder'
  <2>1. ASSUME NEW r \in Sockets, NEW j \in DOMAIN frames'[r], NEW k \in DOMAIN frames'[r], j < k
        PROVE  frames'[r][j] < frames'[r][k]
    <3>1. CASE k \in DOMAIN frames[r] /\ frames'[r][k] = frames[r][k]
      <4>1. j \in DOMAIN frames[r] /\ frames'[r][j] = frames[r][j]
        BY <1>9, <1>11, <1>13, <2>1, <3>1, Lists
      <4>. QED BY <2>1, <3>1, <4>1 DEF InOrder
    <3>2. CASE r = s /\ k = Len(frames[s]) + 1 /\ frames'[r][k] = t.no
      <4>1. j \in DOMAIN frames[r] /\ frames'[r][j] = frames[r][j]
        BY <1>9, <1>11, <1>13, <2>1, <3>2
      <4>. QED BY <1>7, <3>2, <4>1 DEF Older
    <3>. QED BY <1>13, <3>1, <3>2
  <2>. QED BY <2>1 DEF InOrder
<1>20. Removals'
  <2>1. Off' = Off
    BY <1>1 DEF Off, Listed
  <2>2. \A j \in DOMAIN sends' : sends'[j].removed = sends[j].removed
    BY <1>5, <1>6
  <2>. QED BY <1>6, <2>1, <2>2 DEF Removals
<1>. QED BY <1>12, <1>14, <1>15, <1>16, <1>17, <1>18, <1>19, <1>20

LEMMA RegisterOrdered ==
    ASSUME Ordered, NEW s \in Sockets, Register(s)
    PROVE  Ordered'
<1>. USE DEF Ordered
<1>1. /\ endpoint[s] = "accepting" /\ endpoint' = [endpoint EXCEPT ![s] = "serving"]
      /\ registered' = Append(registered, s)
      /\ UNCHANGED <<said, sends, link, frames, read, wsRef>>
  BY DEF Register
<1>2. /\ registered \in Seq(Sockets) /\ Len(registered) \in Nat /\ DOMAIN registered = 1..Len(registered)
      /\ endpoint \in [Sockets -> {"none", "accepting", "serving", "left"}]
  BY Lists DEF TypeOK
<1>3. /\ registered' \in Seq(Sockets) /\ DOMAIN registered' = 1..(Len(registered) + 1)
      /\ \A k \in 1..Len(registered) : registered'[k] = registered[k]
      /\ registered'[Len(registered) + 1] = s
  BY <1>1, <1>2, AppendProperties, LenProperties
<1>4. \A k \in DOMAIN registered' : (k \in DOMAIN registered /\ registered'[k] = registered[k])
                                    \/ (k = Len(registered) + 1 /\ registered'[k] = s)
  BY <1>2, <1>3
<1>5. Listed(registered)' = Listed(registered) \union {s}
  <2>1. \A r \in Listed(registered) : r \in Listed(registered)'
    BY <1>2, <1>3 DEF Listed
  <2>2. s \in Listed(registered)'
    BY <1>2, <1>3 DEF Listed
  <2>3. \A r \in Listed(registered)' : r \in Listed(registered) \/ r = s
    BY <1>4 DEF Listed
  <2>. QED BY <2>1, <2>2, <2>3
<1>6. s \notin Listed(registered) /\ frames[s] = <<>>
  BY <1>1 DEF ServedIsListed, Opened
<1>7. TypeOK'
  BY <1>1, <1>2, <1>3 DEF TypeOK
<1>8. Numbered' /\ InOrder'
  BY <1>1 DEF Numbered, InOrder
<1>9. Opened'
  BY <1>1, <1>2 DEF Opened
<1>10. ServedIsListed'
  <2>1. \A r \in Listed(registered)' : endpoint'[r] = "serving"
    BY <1>1, <1>2, <1>5 DEF ServedIsListed
  <2>2. \A r \in Sockets : endpoint'[r] = "serving" /\ link'[r] = "open" => r \in Listed(registered)'
    BY <1>1, <1>2, <1>5 DEF ServedIsListed
  <2>3. \A j, k \in DOMAIN registered' : registered'[j] = registered'[k] => j = k
    BY <1>4, <1>6 DEF ServedIsListed, Listed
  <2>. QED BY <2>1, <2>2, <2>3 DEF ServedIsListed
<1>11. Met'
  <2>1. ASSUME NEW i \in DOMAIN sends
        PROVE  /\ \A r \in sends[i].dead : link'[r] = "gone"
               /\ \A r \in sends[i].due : endpoint'[r] \in {"serving", "left"}
               /\ sends[i].stale => \A r \in sends[i].due : r \notin Listed(registered)'
    <3>1. \A r \in sends[i].due : r \in Sockets /\ endpoint[r] \in {"serving", "left"}
      BY Lists DEF Send, Met
    <3>. QED BY <1>1, <1>2, <1>5, <3>1 DEF Met
  <2>. QED BY <1>1, <2>1 DEF Met
<1>12. Ahead'
  <2>1. \A n : Older(s, n)
    BY <1>6 DEF Older
  <2>. QED BY <1>1, <1>4, <2>1 DEF Ahead, Older
<1>13. Removals'
  <2>1. Off' = Off
    BY <1>1, <1>2, <1>5 DEF Off
  <2>. QED BY <1>1, <2>1 DEF Removals
<1>. QED BY <1>7, <1>8, <1>9, <1>10, <1>11, <1>12, <1>13

LEMMA ConnectOrdered ==
    ASSUME Ordered, NEW w \in Windows, Connect(w)
    PROVE  Ordered' /\ <<w, wsRef[w] + 1>> \in Sockets /\ link[<<w, wsRef[w] + 1>>] = "unused"
<1>. USE DEF Ordered
<1>. DEFINE s == <<w, wsRef[w] + 1>>
<1>1. /\ wsRef' = [wsRef EXCEPT ![w] = @ + 1]
      /\ link' = [link EXCEPT ![s] = "open"]
      /\ endpoint' = [endpoint EXCEPT ![s] = "accepting"]
      /\ UNCHANGED <<said, sends, registered, frames, read>>
  BY DEF Connect
<1>2. /\ wsRef[w] \in Nat /\ wsRef[w] + 1 \in 0..MaxSockets
  BY WindowsFit, BoundsAssumption DEF Connect
<1>3. s \in Sockets /\ s[1] = w /\ s[2] = wsRef[w] + 1
  BY <1>2 DEF Sockets
<1>4. link[s] = "unused" /\ endpoint[s] = "none" /\ frames[s] = <<>>
  BY <1>2, <1>3 DEF Opened, TypeOK
<1>5. \A r \in Sockets : r = <<r[1], r[2]>> /\ r[1] \in Windows /\ r[2] \in Nat
  BY BoundsAssumption DEF Sockets
<1>6. \A r \in Sockets : r # s => link'[r] = link[r] /\ endpoint'[r] = endpoint[r]
  BY <1>1 DEF TypeOK
<1>7. link'[s] = "open" /\ endpoint'[s] = "accepting"
  BY <1>1, <1>3 DEF TypeOK
<1>. HIDE DEF s
<1>8. TypeOK'
  BY <1>1, <1>2 DEF TypeOK
<1>9. Numbered' /\ InOrder'
  BY <1>1 DEF Numbered, InOrder
<1>10. Opened'
  <2>1. ASSUME NEW r \in Sockets PROVE link'[r] # "unused" <=> r[2] <= wsRef'[r[1]]
    <3>1. CASE r = s
      BY <1>1, <1>2, <1>3, <1>7, <3>1 DEF TypeOK
    <3>2. CASE r # s /\ r[1] = w
      <4>1. r[2] # wsRef[w] + 1
        BY <1>5, <3>2 DEF s
      <4>2. wsRef'[w] = wsRef[w] + 1
        BY <1>1 DEF TypeOK
      <4>3. r[2] <= wsRef[w] + 1 <=> r[2] <= wsRef[w]
        BY <1>2, <1>5, <4>1
      <4>. QED BY <1>6, <3>2, <4>2, <4>3 DEF Opened
    <3>3. CASE r # s /\ r[1] # w
      BY <1>1, <1>5, <1>6, <3>3 DEF Opened, TypeOK
    <3>. QED BY <3>1, <3>2, <3>3
  <2>2. \A r \in Sockets : link'[r] = "unused" <=> endpoint'[r] = "none"
    BY <1>6, <1>7 DEF Opened
  <2>3. \A r \in Sockets : endpoint'[r] \in {"none", "accepting"} => frames'[r] = <<>>
    BY <1>1, <1>4, <1>6 DEF Opened
  <2>. QED BY <2>1, <2>2, <2>3 DEF Opened
<1>11. \A r \in Listed(registered) : r \in Sockets /\ r # s
  BY <1>4, Lists DEF ServedIsListed, Listed
<1>12. ServedIsListed'
  BY <1>1, <1>6, <1>7, <1>11 DEF ServedIsListed, Listed
<1>13. Met'
  <2>1. \A i \in DOMAIN sends : /\ \A r \in sends[i].dead : r \in Sockets /\ r # s
                                /\ \A r \in sends[i].due : r \in Sockets /\ r # s
    BY <1>4, Lists DEF Met, Send
  <2>. QED BY <1>1, <1>6, <2>1 DEF Met, Listed
<1>14. Ahead'
  BY <1>1 DEF Ahead, Older
<1>15. Removals'
  <2>1. Off' = Off
    BY <1>1, <1>4, <1>6, <1>7 DEF Off, Listed
  <2>. QED BY <1>1, <2>1 DEF Removals
<1>. QED BY <1>3, <1>4, <1>8, <1>9, <1>10, <1>12, <1>13, <1>14, <1>15 DEF s

\* The socket a window holds.
LEMMA CurrentIs ==
    ASSUME TypeOK, NEW w \in Windows, wsRef[w] > 0
    PROVE  Current(w) \in Sockets /\ Current(w)[1] = w /\ Current(w)[2] = wsRef[w]
BY BoundsAssumption DEF TypeOK, Current, Sockets

LEMMA DropOrdered ==
    ASSUME Ordered, NEW w \in Windows, Drop(w)
    PROVE  Ordered'
<1>. USE DEF Ordered
<1>. DEFINE s == Current(w)
<1>1. /\ wsRef[w] > 0 /\ link[s] = "open"
      /\ link' = [link EXCEPT ![s] = "gone"]
      /\ UNCHANGED <<said, sends, registered, endpoint, frames, read, wsRef>>
  BY DEF Drop, Connected
<1>2. s \in Sockets
  BY <1>1, CurrentIs
<1>. HIDE DEF s
<1>3. link'[s] = "gone" /\ \A r \in Sockets : r # s => link'[r] = link[r]
  BY <1>1, <1>2 DEF TypeOK
<1>4. TypeOK'
  BY <1>1 DEF TypeOK
<1>5. Numbered' /\ InOrder' /\ Ahead'
  BY <1>1 DEF Numbered, InOrder, Ahead, Older
<1>6. Opened'
  BY <1>1, <1>3 DEF Opened
<1>7. ServedIsListed'
  BY <1>1, <1>3 DEF ServedIsListed, Listed
<1>8. Met'
  <2>1. \A i \in DOMAIN sends : \A r \in sends[i].dead : r \in Sockets
    BY Lists DEF Send
  <2>. QED BY <1>1, <1>3, <2>1 DEF Met, Listed
<1>9. Removals'
  <2>1. Off' = Off
    BY <1>1 DEF Off, Listed
  <2>. QED BY <1>1, <2>1 DEF Removals
<1>. QED BY <1>4, <1>5, <1>6, <1>7, <1>8, <1>9

LEMMA TakeIs ==
    ASSUME TypeOK, NEW w \in Windows, Take(w)
    PROVE  /\ wsRef[w] > 0 /\ link[Current(w)] = "open" /\ Current(w) \in Sockets
           /\ read[Current(w)] + 1 <= Len(frames[Current(w)])
           /\ read' = [read EXCEPT ![Current(w)] = @ + 1]
           /\ UNCHANGED <<said, sends, registered, endpoint, link, frames, wsRef>>
<1>1. Unread(w) # <<>> /\ Connected(w)
  BY DEF Take, Unread
<1>2. wsRef[w] > 0 /\ link[Current(w)] = "open" /\ Current(w) \in Sockets
  BY <1>1, CurrentIs DEF Connected
<1>. DEFINE s == Current(w)
<1>3. /\ read[s] \in Nat /\ Len(frames[s]) \in Nat /\ frames[s] \in Seq(1..MaxSaid)
  BY <1>2, Lists DEF TypeOK
<1>4. ASSUME Len(frames[s]) < read[s] + 1 PROVE FALSE
  <2>1. SubSeq(frames[s], read[s] + 1, Len(frames[s])) = <<>>
    BY <1>3, <1>4, SubSeqEmpty
  <2>. QED BY <1>1, <2>1 DEF Unread
<1>. QED BY <1>2, <1>3, <1>4 DEF Take

LEMMA TakeOrdered ==
    ASSUME Ordered, NEW w \in Windows, Take(w)
    PROVE  Ordered'
<1>. USE DEF Ordered
<1>. DEFINE s == Current(w)
<1>1. /\ s \in Sockets /\ read[s] + 1 <= Len(frames[s])
      /\ read' = [read EXCEPT ![s] = @ + 1]
      /\ UNCHANGED <<said, sends, registered, endpoint, link, frames, wsRef>>
  BY TakeIs
<1>2. read[s] + 1 \in 0..MaxSaid
  BY <1>1, Lists, FramesFit, BoundsAssumption
<1>. HIDE DEF s
<1>3. TypeOK'
  <2>1. read' \in [Sockets -> 0..MaxSaid]
    BY <1>1, <1>2 DEF TypeOK
  <2>2. \A r \in Sockets : read'[r] <= Len(frames'[r])
    BY <1>1 DEF TypeOK
  <2>. QED BY <1>1, <2>1, <2>2 DEF TypeOK
<1>4. Off' = Off
  BY <1>1 DEF Off, Listed
<1>. QED BY <1>1, <1>3, <1>4 DEF Numbered, Opened, ServedIsListed, Met, Ahead, Older, InOrder, Removals, Listed

LEMMA StopOrdered ==
    ASSUME Ordered, Stop
    PROVE  Ordered'
<1>. USE DEF Ordered, Stop
<1>1. TypeOK'
  BY EmptySeq DEF TypeOK
<1>2. Opened'
  BY DEF Opened, TypeOK
<1>3. ServedIsListed'
  BY DEF ServedIsListed, Listed, TypeOK
<1>. QED BY <1>1, <1>2, <1>3 DEF Numbered, Met, Ahead, InOrder, Removals

LEMMA OrderedStep == Ordered /\ [Next]_vars => Ordered'
<1>. SUFFICES ASSUME Ordered, [Next]_vars PROVE Ordered'
  OBVIOUS
<1>1. ASSUME NEW m \in Messages, Schedule(m) PROVE Ordered'
  BY <1>1, ScheduleOrdered
<1>2. ASSUME NEW i \in DOMAIN sends, Write(i) PROVE Ordered'
  BY <1>2, WriteOrdered
<1>3. ASSUME NEW i \in DOMAIN sends, EndSend(i) PROVE Ordered'
  BY <1>3, EndSendRemoves, RemovalOrdered DEF Ordered
<1>4. ASSUME NEW s \in Sockets, Register(s) PROVE Ordered'
  BY <1>4, RegisterOrdered
<1>5. ASSUME NEW s \in Sockets, Notice(s) PROVE Ordered'
  BY <1>5, NoticeRemoves, RemovalOrdered DEF Ordered
<1>6. ASSUME NEW w \in Windows, Connect(w) PROVE Ordered'
  BY <1>6, ConnectOrdered
<1>7. ASSUME NEW w \in Windows, Drop(w) PROVE Ordered'
  BY <1>7, DropOrdered
<1>8. ASSUME NEW w \in Windows, Take(w) PROVE Ordered'
  BY <1>8, TakeOrdered
<1>9. CASE Stop
  BY <1>9, StopOrdered
<1>10. CASE UNCHANGED vars
  <2>1. Off' = Off
    BY <1>10 DEF vars, Off, Listed
  <2>2. TypeOK' /\ Numbered' /\ Opened' /\ InOrder'
    BY <1>10 DEF vars, Ordered, TypeOK, Numbered, Opened, InOrder
  <2>3. ServedIsListed' /\ Met' /\ Ahead'
    BY <1>10 DEF vars, Ordered, ServedIsListed, Met, Ahead, Older, Listed
  <2>4. Removals'
    BY <1>10, <2>1 DEF vars, Ordered, Removals
  <2>. QED BY <2>2, <2>3, <2>4 DEF Ordered
<1>. QED BY <1>1, <1>2, <1>3, <1>4, <1>5, <1>6, <1>7, <1>8, <1>9, <1>10 DEF Next

LEMMA AlwaysOrdered == Spec => []Ordered
BY Begin, OrderedStep, PTL DEF Spec

-----------------------------------------------------------------------------
(* What a send skips.                                                      *)

Skips == Ordered /\ SkipsArePaidFor

LEMMA SkippedIsFinite ==
    ASSUME NEW t \in Send
    PROVE  Skipped(t) \subseteq Sockets /\ IsFiniteSet(Skipped(t)) /\ Cardinality(Skipped(t)) \in Nat
<1>1. Skipped(t) \subseteq Sockets
  BY DEF Skipped, Send
<1>. QED BY <1>1, SocketsAreFinite, FS_Subset, FS_CardinalityType

\* The sockets that a removal lets slip past the iterator of a coroutine: those at
\* places that were ahead of it and no longer are.
Slipped(next, gone) ==
    {Nth(Kept(gone), j) : j \in {k \in 1..Cardinality(Kept(gone)) : k < next}} \ (1..(next - 1))

\* For each of them a socket before the iterator has left the list.
LEMMA SlippedArePaidFor ==
    ASSUME registered \in Seq(Sockets), ServedIsListed, NEW gone, NEW next \in Nat, next >= 1
    PROVE  /\ IsFiniteSet(Slipped(next, gone))
           /\ Cardinality(Slipped(next, gone)) <= Cardinality(gone \intersect Listed(registered))
<1>. DEFINE K == Kept(gone)
            c == Cardinality(K)
            N == 1..(next - 1)
            J == {k \in 1..c : k < next}
            A == {Nth(K, j) : j \in J}
            G == N \ K
            L == gone \intersect Listed(registered)
<1>1. /\ K \in SUBSET (1..Len(registered)) /\ Len(registered) \in Nat /\ DOMAIN registered = 1..Len(registered)
      /\ c \in Nat /\ \A k \in K : k \in Nat /\ k >= 1 /\ k <= Len(registered)
  BY RemainingProperties, LenProperties
<1>2. /\ \A j \in 1..c : Nth(K, j) \in K /\ Rank(K, Nth(K, j)) = j
      /\ \A k \in K : Rank(K, k) \in 1..c /\ Rank(K, k) <= k /\ Nth(K, Rank(K, k)) = k
  BY <1>1, RankProperties, NthProperties
<1>3. Slipped(next, gone) = A \ N
  BY DEF Slipped
<1>4. IsFiniteSet(N) /\ Cardinality(N) = next - 1 /\ next - 1 \in Nat
  BY CountUpto
<1>5. IsFiniteSet(A) /\ Cardinality(A) <= next - 1 /\ Cardinality(A) \in Nat
  <2>. DEFINE f == [j \in J |-> Nth(K, j)]
  <2>1. f \in Surjection(J, A)
    BY DEF Surjection
  <2>2. J \in SUBSET N
    BY <1>1, <1>4
  <2>3. IsFiniteSet(J) /\ Cardinality(J) <= next - 1 /\ Cardinality(J) \in Nat
    BY <1>4, <2>2, FS_Subset, FS_CardinalityType
  <2>. HIDE DEF J, A, f
  <2>4. IsFiniteSet(A) /\ Cardinality(A) <= Cardinality(J)
    BY <2>1, <2>3, FS_Surjection
  <2>5. Cardinality(A) \in Nat
    BY <2>4, FS_CardinalityType
  <2>. QED BY <1>4, <2>3, <2>4, <2>5
<1>6. A \subseteq K
  BY <1>2
<1>7. N \intersect K \subseteq A
  <2>1. ASSUME NEW k \in N \intersect K PROVE k \in A
    <3>1. Rank(K, k) \in J
      BY <1>1, <1>2, <1>4, <2>1
    <3>. QED BY <1>2, <2>1, <3>1
  <2>. QED BY <2>1
<1>8. IsFiniteSet(A \ N) /\ Cardinality(A \ N) \in Nat /\ Cardinality(A \ N) = Cardinality(A) - Cardinality(A \intersect N)
  BY <1>5, FS_Difference, FS_CardinalityType
<1>9. A \intersect N = N \intersect K
  BY <1>6, <1>7
<1>10. IsFiniteSet(G) /\ Cardinality(G) \in Nat /\ Cardinality(G) = Cardinality(N) - Cardinality(N \intersect K)
  BY <1>4, FS_Difference, FS_CardinalityType
<1>11. Cardinality(N \intersect K) \in Nat
  BY <1>4, FS_Intersection, FS_CardinalityType
<1>12. Cardinality(A \ N) <= Cardinality(G)
  <2>1. Cardinality(A \ N) = Cardinality(A) - Cardinality(N \intersect K)
    BY <1>8, <1>9
  <2>. HIDE DEF A, N, G
  <2>2. Cardinality(A) \in Nat /\ Cardinality(A) <= next - 1
    BY <1>5
  <2>3. Cardinality(G) = next - 1 - Cardinality(N \intersect K)
    BY <1>4, <1>10
  <2>. QED BY <1>4, <1>11, <2>1, <2>2, <2>3
<1>13. IsFiniteSet(L) /\ Cardinality(L) \in Nat
  <2>1. L \in SUBSET Sockets
    BY <1>1, ElementOfSeq DEF Listed
  <2>. QED BY <2>1, SocketsAreFinite, FS_Subset, FS_CardinalityType
<1>14. CASE next - 1 <= Len(registered)
  <2>. DEFINE f == [k \in G |-> registered[k]]
  <2>1. ASSUME NEW k \in G PROVE k \in DOMAIN registered /\ registered[k] \in L
    <3>1. k \in DOMAIN registered
      BY <1>1, <1>4, <1>14
    <3>. QED BY <3>1 DEF Kept, Listed
  <2>2. f \in Injection(G, L)
    BY <2>1 DEF Injection, IsInjective, ServedIsListed
  <2>. HIDE DEF f, G, L
  <2>3. Cardinality(G) <= Cardinality(L)
    BY <1>13, <2>2, FS_Injection
  <2>. HIDE DEF A, N
  <2>. QED BY <1>3, <1>8, <1>10, <1>12, <1>13, <2>3 DEF L
<1>15. CASE ~(next - 1 <= Len(registered))
  <2>1. A \subseteq N
    <3>1. \A k \in K : k \in N
      BY <1>1, <1>4, <1>15
    <3>. QED BY <1>6, <3>1
  <2>2. Cardinality(A \ N) = 0
    BY <2>1, FS_EmptySet
  <2>. HIDE DEF A, N
  <2>. QED BY <1>3, <1>8, <1>13, <2>2
<1>. QED BY <1>14, <1>15

LEMMA RemovalSkips ==
    ASSUME Skips, NEW gone, Removal(gone)
    PROVE  SkipsArePaidFor'
<1>. USE DEF Skips, Ordered
<1>. DEFINE L == Listed(registered)
            K == Kept(gone)
<1>1. PICK m \in Nat : \E g \in [1..m -> DOMAIN sends] :
              /\ sends' \in Seq(Send) /\ DOMAIN sends' = 1..m
              /\ \A j, k \in 1..m : j < k => g[j] < g[k]
              /\ \A k \in 1..m : Follows(k, g[k], gone)
  BY RemovalFollows
<1>2. PICK g \in [1..m -> DOMAIN sends] :
              /\ sends' \in Seq(Send) /\ DOMAIN sends' = 1..m
              /\ \A j, k \in 1..m : j < k => g[j] < g[k]
              /\ \A k \in 1..m : Follows(k, g[k], gone)
  BY <1>1
<1>3. /\ DOMAIN registered' = 1..Cardinality(K)
      /\ \A j \in DOMAIN registered' : registered'[j] = registered[Nth(K, j)]
      /\ Listed(registered)' = L \ gone
      /\ K \in SUBSET (1..Len(registered)) /\ Len(registered) \in Nat /\ DOMAIN registered = 1..Len(registered)
      /\ registered \in Seq(Sockets)
  BY RemainingProperties, Lists DEF Removal, TypeOK
<1>4. \A j \in 1..Cardinality(K) : Nth(K, j) \in K
  BY <1>3, NthProperties
<1>5. ASSUME NEW k \in DOMAIN sends' PROVE Cardinality(Skipped(sends[k]))' <= sends'[k].removed
  <2>. DEFINE t == sends[g[k]]
              u == sends'[k]
              S == Skipped(t)
              T == Skipped(sends[k])'
  <2>1. g[k] \in DOMAIN sends /\ Follows(k, g[k], gone)
    BY <1>2, <1>5
  <2>2. /\ t \in Send /\ u \in Send /\ u.next = t.next /\ u.due = t.due /\ u.got = t.got
        /\ t.removed \in Nat /\ t.next \in Nat
        /\ t.next = 0 \/ t.stale => u = t
        /\ ~(t.next = 0 \/ t.stale) => u.removed = t.removed + Cardinality(gone \intersect L)
        /\ Cardinality(gone \intersect L) \in Nat
    BY <2>1, SocketsAreFinite DEF Follows, Send
  <2>3. Cardinality(S) <= t.removed /\ Cardinality(S) \in Nat /\ IsFiniteSet(S) /\ S \subseteq Sockets
    BY <2>1, <2>2, SkippedIsFinite DEF SkipsArePaidFor
  <2>4. T = {s \in u.due \ u.got : link'[s] = "open" /\ \E j \in DOMAIN registered' : j < u.next /\ registered'[j] = s}
    BY <1>5 DEF Skipped
  <2>5. CASE t.next = 0 \/ t.stale
    <3>1. T = {}
      <4>1. CASE t.next = 0
        BY <1>3, <2>2, <2>4, <4>1
      <4>2. CASE t.stale
        <5>1. \A s \in t.due : s \notin L
          BY <2>1, <4>2 DEF Met
        <5>2. \A j \in DOMAIN registered' : registered'[j] \in L
          BY <1>3, <1>4 DEF Listed, Kept
        <5>. QED BY <2>2, <2>4, <5>1, <5>2
      <4>. QED BY <2>5, <4>1, <4>2
    <3>2. Cardinality(T) = 0
      BY <3>1, FS_EmptySet
    <3>3. u.removed = t.removed
      BY <2>2, <2>5
    <3>. QED BY <2>2, <3>2, <3>3
  <2>6. CASE ~(t.next = 0 \/ t.stale)
    <3>. DEFINE X == Slipped(t.next, gone)
                R == {registered[p] : p \in X}
                f == [p \in X |-> registered[p]]
    <3>1. IsFiniteSet(X) /\ Cardinality(X) <= Cardinality(gone \intersect L)
      BY <1>3, <2>2, <2>6, SlippedArePaidFor
    <3>2. f \in Surjection(X, R)
      BY DEF Surjection
    <3>3. IsFiniteSet(R) /\ Cardinality(R) <= Cardinality(X)
      <4>. HIDE DEF R, X, f
      <4>. QED BY <3>1, <3>2, FS_Surjection
    <3>4. T \subseteq S \union R
      <4>1. ASSUME NEW s \in T PROVE s \in S \union R
        <5>1. PICK j \in DOMAIN registered' : j < u.next /\ registered'[j] = s
          BY <2>4, <4>1
        <5>2. j \in 1..Cardinality(K) /\ j < t.next /\ Nth(K, j) \in DOMAIN registered /\ registered[Nth(K, j)] = s
          BY <1>3, <1>4, <2>2, <5>1
        <5>3. CASE Nth(K, j) < t.next
          <6>1. s \in t.due \ t.got /\ link[s] = "open"
            BY <2>2, <2>4, <4>1 DEF Removal
          <6>. QED BY <5>2, <5>3, <6>1 DEF Skipped
        <5>4. CASE ~(Nth(K, j) < t.next)
          <6>1. Nth(K, j) \in X
            BY <2>2, <5>2, <5>4 DEF Slipped
          <6>. QED BY <5>2, <6>1
        <5>. QED BY <5>3, <5>4
      <4>. QED BY <4>1
    <3>5. IsFiniteSet(S \union R) /\ Cardinality(S \union R) = Cardinality(S) + Cardinality(R) - Cardinality(S \intersect R)
      <4>. HIDE DEF S, R
      <4>. QED BY <2>3, <3>3, FS_Union
    <3>6. Cardinality(S \intersect R) \in Nat
      <4>. HIDE DEF S, R
      <4>. QED BY <2>3, FS_Intersection, FS_CardinalityType
    <3>7. Cardinality(T) <= Cardinality(S \union R) /\ Cardinality(T) \in Nat
      <4>. HIDE DEF S, R, T
      <4>. QED BY <3>4, <3>5, FS_Subset, FS_CardinalityType
    <3>8. Cardinality(R) \in Nat /\ Cardinality(X) \in Nat /\ Cardinality(S \union R) \in Nat
      BY <3>1, <3>3, <3>5, FS_CardinalityType
    <3>. HIDE DEF S, R, T, X
    <3>9. Cardinality(T) <= t.removed + Cardinality(gone \intersect L)
      BY <2>2, <2>3, <3>1, <3>3, <3>5, <3>6, <3>7, <3>8
    <3>10. u.removed = t.removed + Cardinality(gone \intersect L)
      BY <2>2, <2>6
    <3>. QED BY <3>9, <3>10 DEF T
  <2>. QED BY <2>5, <2>6
<1>. QED BY <1>5 DEF SkipsArePaidFor

\* A coroutine that skips nothing new is as good as it was.
LEMMA SkipsNothingNew ==
    ASSUME NEW t \in Send, Cardinality(Skipped(t)) <= t.removed, NEW T, T \subseteq Skipped(t)
    PROVE  Cardinality(T) <= t.removed
<1>1. IsFiniteSet(Skipped(t)) /\ Cardinality(Skipped(t)) \in Nat
  BY SkippedIsFinite
<1>2. Cardinality(T) <= Cardinality(Skipped(t)) /\ Cardinality(T) \in Nat
  BY <1>1, FS_Subset, FS_CardinalityType
<1>3. t.removed \in Nat
  BY SocketsAreFinite DEF Send
<1>. QED BY <1>1, <1>2, <1>3

LEMMA WriteSkips ==
    ASSUME Skips, NEW i \in DOMAIN sends, Write(i)
    PROVE  SkipsArePaidFor'
<1>. USE DEF Skips, Ordered
<1>. DEFINE t == sends[i]
            n == Place(t)
            s == registered[n]
<1>1. /\ n \in DOMAIN registered /\ s \in Sockets /\ ~t.stale
      /\ UNCHANGED <<said, registered, endpoint, link, read, wsRef>>
  BY WriteSteps
<1>2. PICK v : /\ Stepped(t, v) /\ sends' = [sends EXCEPT ![i] = v]
               /\ \/ link[s] = "open" /\ v.got = t.got \union {s}
                  \/ link[s] = "gone" /\ v.got = t.got
  BY WriteSteps
<1>3. /\ \A j \in DOMAIN sends : sends[j] \in Send
      /\ t \in Send /\ t.next \in Nat /\ n \in Nat /\ n >= 1 /\ n >= t.next
      /\ \A k \in DOMAIN registered : k \in Nat /\ k >= 1
  BY <1>1, Lists, SocketsAreFinite DEF Send, Place
<1>4. v.next = n + 1 /\ v.due = Found(t) /\ v.removed = t.removed
  BY <1>2 DEF Stepped
<1>5. DOMAIN sends' = DOMAIN sends /\ \A j \in DOMAIN sends' : sends'[j] = IF j = i THEN v ELSE sends[j]
  <2>1. DOMAIN sends = 1..Len(sends) /\ sends \in [1..Len(sends) -> Send]
    BY Lists, LenProperties DEF TypeOK
  <2>. QED BY <1>2, <2>1
<1>6. ASSUME NEW j \in DOMAIN sends', j # i PROVE Cardinality(Skipped(sends[j]))' <= sends'[j].removed
  <2>1. Skipped(sends[j])' = Skipped(sends[j]) /\ sends'[j] = sends[j] /\ j \in DOMAIN sends
    BY <1>1, <1>5, <1>6 DEF Skipped
  <2>. QED BY <2>1 DEF SkipsArePaidFor
<1>7. Skipped(sends[i])' \subseteq Skipped(t)
  <2>1. sends'[i] = v
    BY <1>5
  <2>2. ASSUME NEW x \in Skipped(sends[i])' PROVE x \in Skipped(t)
    <3>1. /\ x \in v.due \ v.got /\ link[x] = "open"
          /\ \E k \in DOMAIN registered : k < v.next /\ registered[k] = x
      BY <1>1, <2>1, <2>2 DEF Skipped
    <3>2. PICK k \in DOMAIN registered : k < n + 1 /\ registered[k] = x
      BY <1>4, <3>1
    <3>3. k # n
      BY <1>2, <3>1, <3>2
    <3>4. k < n /\ t.next # 0
      BY <1>3, <3>2, <3>3 DEF Place
    <3>5. n = t.next /\ v.due = t.due /\ x \notin t.got
      BY <1>2, <1>4, <3>1, <3>4 DEF Place, Found
    <3>. QED BY <3>1, <3>2, <3>4, <3>5 DEF Skipped
  <2>. QED BY <2>2
<1>8. Cardinality(Skipped(sends[i]))' <= sends'[i].removed
  <2>1. Cardinality(Skipped(t)) <= t.removed
    BY DEF SkipsArePaidFor
  <2>2. sends'[i].removed = t.removed
    BY <1>4, <1>5
  <2>. QED BY <1>3, <1>7, <2>1, <2>2, SkipsNothingNew
<1>. QED BY <1>5, <1>6, <1>8 DEF SkipsArePaidFor

\* The steps that leave the coroutines alone break connections, or make sockets that
\* no coroutine has to do with.
LEMMA OthersSkip ==
    ASSUME Skips, UNCHANGED sends,
           \A i \in DOMAIN sends : Skipped(sends[i])' \subseteq Skipped(sends[i])
    PROVE  SkipsArePaidFor'
<1>1. ASSUME NEW i \in DOMAIN sends PROVE Cardinality(Skipped(sends[i]))' <= sends'[i].removed
  <2>1. sends[i] \in Send /\ Cardinality(Skipped(sends[i])) <= sends[i].removed
    BY Lists DEF Skips, Ordered, SkipsArePaidFor
  <2>. QED BY <2>1, SkipsNothingNew
<1>. QED BY <1>1 DEF SkipsArePaidFor

LEMMA SkipsStep == Skips /\ [Next]_vars => SkipsArePaidFor'
<1>. SUFFICES ASSUME Skips, [Next]_vars PROVE SkipsArePaidFor'
  OBVIOUS
<1>. USE DEF Skips
<1>0. \A i \in DOMAIN sends : \A x \in sends[i].due : x \in Sockets /\ endpoint[x] \in {"serving", "left"}
  BY Lists DEF Ordered, Met, Send
<1>1. ASSUME NEW m \in Messages, Schedule(m) PROVE SkipsArePaidFor'
  <2>. DEFINE t == [no |-> Len(said) + 1, next |-> 0, stale |-> FALSE, at |-> Nowhere,
                    dead |-> {}, due |-> {}, got |-> {}, removed |-> 0]
  <2>1. /\ sends' = Append(sends, t) /\ t.due = {} /\ t.removed = 0 /\ UNCHANGED <<link, registered>>
    BY <1>1 DEF Schedule
  <2>2. sends \in Seq(Send) /\ Len(sends) \in Nat /\ DOMAIN sends = 1..Len(sends)
    BY Lists DEF Ordered, TypeOK
  <2>. HIDE DEF t
  <2>3. DOMAIN sends' = 1..(Len(sends) + 1) /\ \A i \in 1..Len(sends) : sends'[i] = sends[i]
        /\ sends'[Len(sends) + 1] = t
    <3>1. sends \in [1..Len(sends) -> Send]
      BY <2>2, LenProperties
    <3>. QED BY <2>1, <2>2, <3>1
  <2>4. ASSUME NEW i \in DOMAIN sends' PROVE Cardinality(Skipped(sends[i]))' <= sends'[i].removed
    <3>1. CASE i \in DOMAIN sends
      <4>1. sends'[i] = sends[i] /\ Skipped(sends[i])' = Skipped(sends[i])
        BY <2>1, <2>2, <2>3, <3>1 DEF Skipped
      <4>. QED BY <3>1, <4>1 DEF SkipsArePaidFor
    <3>2. CASE i = Len(sends) + 1
      <4>1. Skipped(sends[i])' = {} /\ sends'[i].removed = 0
        BY <2>1, <2>3, <3>2 DEF Skipped
      <4>2. Cardinality(Skipped(sends[i]))' = 0
        BY <4>1, FS_EmptySet
      <4>. QED BY <4>1, <4>2
    <3>. QED BY <2>2, <2>3, <2>4, <3>1, <3>2
  <2>. QED BY <2>4 DEF SkipsArePaidFor
<1>2. ASSUME NEW i \in DOMAIN sends, Write(i) PROVE SkipsArePaidFor'
  BY <1>2, WriteSkips
<1>3. ASSUME NEW i \in DOMAIN sends, EndSend(i) PROVE SkipsArePaidFor'
  BY <1>3, EndSendRemoves, RemovalSkips DEF Ordered
<1>4. ASSUME NEW s \in Sockets, Register(s) PROVE SkipsArePaidFor'
  <2>1. registered' = Append(registered, s) /\ UNCHANGED <<sends, link>> /\ endpoint[s] = "accepting"
    BY <1>4 DEF Register
  <2>2. /\ \A k \in DOMAIN registered' : (k \in DOMAIN registered /\ registered'[k] = registered[k]) \/ registered'[k] = s
    <3>1. registered \in [1..Len(registered) -> Sockets] /\ Len(registered) \in Nat /\ DOMAIN registered = 1..Len(registered)
      BY Lists, LenProperties DEF Ordered, TypeOK
    <3>. QED BY <2>1, <3>1
  <2>3. \A i \in DOMAIN sends : Skipped(sends[i])' \subseteq Skipped(sends[i])
    BY <1>0, <2>1, <2>2 DEF Skipped
  <2>. QED BY <2>1, <2>3, OthersSkip
<1>5. ASSUME NEW s \in Sockets, Notice(s) PROVE SkipsArePaidFor'
  BY <1>5, NoticeRemoves, RemovalSkips DEF Ordered
<1>6. ASSUME NEW w \in Windows, Connect(w) PROVE SkipsArePaidFor'
  <2>. DEFINE s == <<w, wsRef[w] + 1>>
  <2>1. s \in Sockets /\ link[s] = "unused" /\ link' = [link EXCEPT ![s] = "open"] /\ UNCHANGED <<sends, registered>>
    BY <1>6, ConnectOrdered DEF Connect
  <2>2. endpoint[s] = "none" /\ \A r \in Sockets : r # s => link'[r] = link[r]
    BY <2>1 DEF Ordered, Opened, TypeOK
  <2>. HIDE DEF s
  <2>3. \A i \in DOMAIN sends : Skipped(sends[i])' \subseteq Skipped(sends[i])
    BY <1>0, <2>1, <2>2 DEF Skipped
  <2>. QED BY <2>1, <2>3, OthersSkip
<1>7. ASSUME NEW w \in Windows, Drop(w) PROVE SkipsArePaidFor'
  <2>1. /\ UNCHANGED <<sends, registered>>
        /\ \A r \in Sockets : link'[r] = "open" => link[r] = "open"
    BY <1>7 DEF Drop, Ordered, TypeOK
  <2>2. \A i \in DOMAIN sends : Skipped(sends[i])' \subseteq Skipped(sends[i])
    BY <1>0, <2>1 DEF Skipped
  <2>. QED BY <2>1, <2>2, OthersSkip
<1>8. ASSUME UNCHANGED <<sends, registered, link>> PROVE SkipsArePaidFor'
  <2>1. \A i \in DOMAIN sends : Skipped(sends[i])' \subseteq Skipped(sends[i])
    BY <1>8 DEF Skipped
  <2>. QED BY <1>8, <2>1, OthersSkip
<1>9. CASE Stop
  BY <1>9 DEF Stop, SkipsArePaidFor
<1>. QED BY <1>1, <1>2, <1>3, <1>4, <1>5, <1>6, <1>7, <1>8, <1>9 DEF Next, Take, vars

LEMMA AlwaysSkips == Spec => []Skips
<1>1. Init => SkipsArePaidFor
  BY DEF Init, SkipsArePaidFor
<1>2. Init => Skips
  BY <1>1, Begin DEF Skips
<1>3. Skips /\ [Next]_vars => Skips'
  BY OrderedStep, SkipsStep DEF Skips
<1>. QED BY <1>2, <1>3, PTL DEF Spec

-----------------------------------------------------------------------------
(* The feed of a window.                                                   *)

LEMMA FeedSame ==
    ASSUME NEW w \in Windows, UNCHANGED <<said, link, frames, read, wsRef>>
    PROVE  UNCHANGED Feed(w)!vars
BY DEF Feed!vars, Unread, LastOn, Connected, Current

\* What a window took last is a number of its current socket.
LEMMA LastIs ==
    ASSUME Ordered, NEW w \in Windows
    PROVE  /\ LastOn(w) \in Nat
           /\ wsRef[w] > 0 /\ read[Current(w)] > 0 =>
                 /\ LastOn(w) = frames[Current(w)][read[Current(w)]]
                 /\ read[Current(w)] \in DOMAIN frames[Current(w)]
<1>1. wsRef[w] \in Nat
  BY WindowsFit DEF Ordered
<1>2. CASE wsRef[w] = 0
  BY <1>2 DEF LastOn
<1>3. CASE wsRef[w] > 0
  <2>1. Current(w) \in Sockets
    BY <1>3, CurrentIs DEF Ordered
  <2>2. /\ read[Current(w)] \in Nat /\ read[Current(w)] <= Len(frames[Current(w)]) /\ Len(frames[Current(w)]) \in Nat
        /\ DOMAIN frames[Current(w)] = 1..Len(frames[Current(w)])
        /\ \A k \in DOMAIN frames[Current(w)] : frames[Current(w)][k] \in Nat
    BY <2>1, Lists, BoundsAssumption DEF Ordered
  <2>. QED BY <1>3, <2>2 DEF LastOn
<1>. QED BY <1>1, <1>2, <1>3

LEMMA RestOf ==
    ASSUME NEW S, NEW q \in Seq(S), NEW r \in Nat, r <= Len(q)
    PROVE  LET u == SubSeq(q, r + 1, Len(q))
           IN  /\ u \in Seq(S) /\ Len(u) = Len(q) - r
               /\ \A k \in 1..(Len(q) - r) : u[k] = q[r + k]
<1>. DEFINE u == SubSeq(q, r + 1, Len(q))
<1>1. Len(q) \in Nat /\ \A k \in (r + 1)..Len(q) : q[k] \in S
  BY LenProperties, ElementOfSeq
<1>2. /\ u \in Seq(S) /\ Len(u) = IF r + 1 <= Len(q) THEN Len(q) - (r + 1) + 1 ELSE 0
      /\ \A k \in 1..(Len(q) - (r + 1) + 1) : u[k] = q[(r + 1) + k - 1]
  BY <1>1, SubSeqProperties
<1>. HIDE DEF u
<1>3. Len(u) = Len(q) - r
  BY <1>1, <1>2
<1>4. ASSUME NEW k \in 1..(Len(q) - r) PROVE u[k] = q[r + k]
  <2>1. (r + 1) + k - 1 = r + k /\ k \in 1..(Len(q) - (r + 1) + 1)
    BY <1>1
  <2>2. u[k] = q[(r + 1) + k - 1]
    BY <1>2, <2>1
  <2>. QED BY <2>1, <2>2
<1>. QED BY <1>2, <1>3, <1>4 DEF u

LEMMA WriteFeeds ==
    ASSUME Ordered, Ordered', NEW w \in Windows, NEW i \in DOMAIN sends, Write(i)
    PROVE  Feed(w)!Next \/ UNCHANGED Feed(w)!vars
<1>. USE DEF Ordered
<1>. DEFINE t == sends[i]
            s == registered[Place(t)]
            c == Current(w)
<1>1. /\ s \in Sockets /\ UNCHANGED <<said, registered, endpoint, link, read, wsRef>>
      /\ Place(t) \in DOMAIN registered /\ ~t.stale
  BY WriteSteps
<1>2. \/ link[s] = "open" /\ frames' = [frames EXCEPT ![s] = Append(@, t.no)]
      \/ frames' = frames
  BY WriteSteps
<1>3. t \in Send /\ t.no \in Nat /\ t.no >= 1 /\ t.no <= Len(said) /\ DOMAIN said = 1..Len(said)
      /\ Len(said) \in Nat
  BY Lists, BoundsAssumption DEF Send, Numbered
<1>4. CASE frames' = frames
  BY <1>1, <1>4, FeedSame
<1>5. CASE link[s] = "open" /\ frames' = [frames EXCEPT ![s] = Append(@, t.no)] /\ Connected(w) /\ s = c
  <2>. DEFINE f == frames[c]
              r == read[c]
  <2>1. /\ f \in Seq(1..MaxSaid) /\ Len(f) \in Nat /\ DOMAIN f = 1..Len(f) /\ r \in Nat /\ r <= Len(f)
        /\ \A k \in DOMAIN f : f[k] \in Nat /\ f[k] < t.no
    <3>1. Older(s, t.no)
      <4>1. Place(t) >= t.next
        BY <1>3, SocketsAreFinite DEF Place, Send
      <4>. QED BY <1>1, <4>1 DEF Ahead
    <3>2. c \in Sockets
      BY <1>1, <1>5
    <3>3. frames[c] \in Seq(1..MaxSaid)
      BY <3>2 DEF TypeOK
    <3>. QED BY <1>5, <3>1, <3>2, <3>3, Lists, BoundsAssumption DEF Older
  <2>2. Connected(w)' /\ Current(w)' = c /\ frames'[c] = Append(f, t.no) /\ read'[c] = r
    BY <1>1, <1>5 DEF Connected, Current, TypeOK
  <2>3. LastOn(w)' = LastOn(w) /\ LastOn(w) < t.no
    <3>1. wsRef[w] > 0 /\ wsRef[w] \in Nat
      BY <1>5, WindowsFit DEF Connected
    <3>2. r # 0 => r \in DOMAIN f /\ Append(f, t.no)[r] = f[r]
      BY <1>3, <2>1, AppendProperties
    <3>. HIDE DEF f, r, c, t
    <3>3. CASE r = 0
      BY <1>1, <1>3, <2>2, <3>1, <3>3 DEF LastOn, r, c
    <3>4. CASE r # 0
      BY <1>1, <2>1, <2>2, <3>1, <3>2, <3>4 DEF LastOn, r, c, f
    <3>. QED BY <3>3, <3>4
  <2>4. Unread(w) = SubSeq(f, r + 1, Len(f)) /\ Unread(w)' = SubSeq(Append(f, t.no), r + 1, Len(f) + 1)
    <3>1. Unread(w) = SubSeq(f, r + 1, Len(f))
      BY <1>5 DEF Unread
    <3>2. Unread(w)' = SubSeq(frames'[c], read'[c] + 1, Len(frames'[c]))
      BY <2>2 DEF Unread
    <3>3. Len(Append(f, t.no)) = Len(f) + 1
      BY <1>3, <2>1, AppendProperties
    <3>. QED BY <2>2, <3>1, <3>2, <3>3
  <2>. HIDE DEF f, r, c, t, s
  <2>5. /\ Unread(w) \in Seq(Nat) /\ Len(Unread(w)) = Len(f) - r
        /\ \A k \in 1..(Len(f) - r) : Unread(w)[k] = f[r + k]
    <3>1. f \in Seq(Nat)
      BY <2>1, BoundsAssumption, SeqMonotonic
    <3>2. r \in Nat /\ r <= Len(f)
      BY <2>1
    <3>3. /\ SubSeq(f, r + 1, Len(f)) \in Seq(Nat) /\ Len(SubSeq(f, r + 1, Len(f))) = Len(f) - r
          /\ \A k \in 1..(Len(f) - r) : SubSeq(f, r + 1, Len(f))[k] = f[r + k]
      BY <3>1, <3>2, RestOf
    <3>. QED BY <2>4, <3>3
  <2>6. Unread(w)' = Append(Unread(w), t.no)
    <3>. DEFINE g == Append(f, t.no)
                a == SubSeq(g, r + 1, Len(f) + 1)
                b == Append(Unread(w), t.no)
    <3>1. /\ \A k \in 1..Len(f) : g[k] = f[k]
          /\ g[Len(f) + 1] = t.no
      BY <1>3, <2>1, AppendProperties
    <3>2. g \in Seq(Nat) /\ Len(g) = Len(f) + 1
      <4>1. f \in Seq(Nat)
        BY <2>1, BoundsAssumption, SeqMonotonic
      <4>. QED BY <1>3, <2>1, <4>1, AppendProperties
    <3>3. /\ a \in Seq(Nat) /\ Len(a) = Len(f) + 1 - r
          /\ \A k \in 1..(Len(f) + 1 - r) : a[k] = g[r + k]
      <4>1. r <= Len(g)
        BY <2>1, <3>2
      <4>2. r \in Nat /\ a = SubSeq(g, r + 1, Len(g))
        BY <2>1, <3>2
      <4>. HIDE DEF g, a
      <4>3. /\ SubSeq(g, r + 1, Len(g)) \in Seq(Nat) /\ Len(SubSeq(g, r + 1, Len(g))) = Len(g) - r
            /\ \A k \in 1..(Len(g) - r) : SubSeq(g, r + 1, Len(g))[k] = g[r + k]
        BY <3>2, <4>1, <4>2, RestOf
      <4>. QED BY <3>2, <4>2, <4>3
    <3>4. /\ b \in Seq(Nat) /\ Len(b) = Len(f) - r + 1
          /\ \A k \in 1..(Len(f) - r) : b[k] = f[r + k]
          /\ b[Len(f) - r + 1] = t.no
      BY <1>3, <2>5, AppendProperties
    <3>. HIDE DEF a, b, g
    <3>5. ASSUME NEW k \in 1..Len(a) PROVE a[k] = b[k]
      <4>1. CASE k = Len(f) - r + 1
        <5>1. r + k = Len(f) + 1 /\ k \in 1..(Len(f) + 1 - r)
          BY <2>1, <3>3, <4>1
        <5>. QED BY <3>1, <3>3, <3>4, <4>1, <5>1
      <4>2. CASE k # Len(f) - r + 1
        <5>1. k \in 1..(Len(f) - r) /\ r + k \in 1..Len(f) /\ k \in 1..(Len(f) + 1 - r)
          BY <2>1, <3>3, <4>2
        <5>. QED BY <3>1, <3>3, <3>4, <5>1
      <4>. QED BY <4>1, <4>2
    <3>6. Len(a) = Len(b)
      BY <2>1, <3>3, <3>4
    <3>7. a = b
      BY <3>3, <3>4, <3>5, <3>6, SeqEqual
    <3>. QED BY <2>4, <3>7 DEF a, b, g
  <2>7. \A k \in DOMAIN Unread(w) : Unread(w)[k] < t.no
    <3>1. DOMAIN Unread(w) = 1..(Len(f) - r)
      BY <2>1, <2>5, LenProperties
    <3>2. ASSUME NEW k \in 1..(Len(f) - r) PROVE Unread(w)[k] < t.no
      <4>1. r + k \in DOMAIN f
        BY <2>1
      <4>. QED BY <2>1, <2>5, <4>1
    <3>. QED BY <3>1, <3>2
  <2>8. t.no \in DOMAIN said /\ t.no > LastOn(w)
    BY <1>3, <2>3, LastIs
  <2>9. Feed(w)!Put(t.no)
    BY <1>1, <2>3, <2>6, <2>7, <2>8 DEF Feed!Put
  <2>. QED BY <2>8, <2>9 DEF Feed!Next
<1>6. CASE link[s] = "open" /\ frames' = [frames EXCEPT ![s] = Append(@, t.no)] /\ ~(Connected(w) /\ s = c)
  <2>1. wsRef[w] > 0 => frames'[c] = frames[c]
    <3>1. CASE wsRef[w] > 0 /\ s = c
      BY <1>6, <3>1 DEF Connected
    <3>2. CASE wsRef[w] > 0 /\ s # c
      <4>1. c \in Sockets
        BY <3>2, CurrentIs
      <4>. QED BY <1>6, <3>2, <4>1 DEF TypeOK
    <3>. QED BY <3>1, <3>2
  <2>2. wsRef[w] \in Nat
    BY WindowsFit
  <2>3. LastOn(w)' = LastOn(w)
    BY <1>1, <2>1, <2>2 DEF LastOn, Current
  <2>4. Unread(w)' = Unread(w)
    BY <1>1, <2>1 DEF Unread, Connected, Current
  <2>. QED BY <1>1, <2>3, <2>4 DEF Feed!vars
<1>. QED BY <1>2, <1>4, <1>5, <1>6

LEMMA TakeFeeds ==
    ASSUME Ordered, NEW w \in Windows, Take(w)
    PROVE  Feed(w)!Take
<1>. USE DEF Ordered
<1>. DEFINE c == Current(w)
            f == frames[c]
            r == read[c]
<1>1. /\ wsRef[w] > 0 /\ link[c] = "open" /\ c \in Sockets
      /\ r + 1 <= Len(f)
      /\ read' = [read EXCEPT ![c] = r + 1]
      /\ UNCHANGED <<said, sends, registered, endpoint, link, frames, wsRef>>
  BY TakeIs
<1>2. /\ f \in Seq(1..MaxSaid) /\ Len(f) \in Nat /\ r \in Nat
      /\ read'[c] = r + 1 /\ frames'[c] = f
  BY <1>1, Lists DEF TypeOK
<1>3. Connected(w) /\ Connected(w)' /\ Current(w)' = c
  BY <1>1 DEF Connected, Current
<1>4. Unread(w) = SubSeq(f, r + 1, Len(f)) /\ Unread(w)' = SubSeq(f, r + 2, Len(f))
  <2>1. Unread(w)' = SubSeq(frames'[c], read'[c] + 1, Len(frames'[c]))
    BY <1>3 DEF Unread
  <2>2. r + 1 + 1 = r + 2
    BY <1>2
  <2>. QED BY <1>2, <1>3, <2>1, <2>2 DEF Unread
<1>5. LastOn(w)' = f[r + 1]
  BY <1>1, <1>2, <1>3 DEF LastOn
<1>. HIDE DEF f, r, c
<1>6. r + 1 \in 1..Len(f) /\ Len(f) \in (r + 1)..Len(f) /\ r + 1 + 1 = r + 2
  BY <1>1, <1>2
<1>7. Head(Unread(w)) = f[r + 1] /\ Tail(Unread(w)) = Unread(w)'
  BY <1>2, <1>4, <1>6, HeadTailOfSubSeq
<1>8. Unread(w) # <<>>
  BY DEF Take
<1>. QED BY <1>1, <1>5, <1>7, <1>8 DEF Feed!Take

LEMMA FeedStep ==
    ASSUME Ordered, Ordered', [Next]_vars, NEW w \in Windows
    PROVE  Feed(w)!Next \/ UNCHANGED Feed(w)!vars
<1>. USE DEF Ordered
<1>0. LastOn(w) \in Nat /\ wsRef[w] \in Nat
  BY LastIs, WindowsFit
<1>1. ASSUME NEW m \in Messages, Schedule(m) PROVE Feed(w)!Next
  <2>1. /\ Len(said) < MaxSaid /\ said' = Append(said, m) /\ UNCHANGED <<link, frames, read, wsRef>>
    BY <1>1 DEF Schedule
  <2>2. UNCHANGED <<Unread(w), LastOn(w)>>
    BY <2>1 DEF Unread, LastOn, Connected, Current
  <2>3. Feed(w)!Say(m)
    BY <2>1, <2>2 DEF Feed!Say
  <2>. QED BY <2>3 DEF Feed!Next
<1>2. ASSUME NEW i \in DOMAIN sends, Write(i) PROVE Feed(w)!Next \/ UNCHANGED Feed(w)!vars
  BY <1>2, WriteFeeds
<1>3. CASE \/ \E i \in DOMAIN sends : EndSend(i)
           \/ \E s \in Sockets : Register(s) \/ Notice(s)
           \/ UNCHANGED vars
  BY <1>3, FeedSame DEF EndSend, Register, Notice, vars
<1>4. ASSUME NEW v \in Windows, Connect(v) PROVE Feed(w)!Next \/ UNCHANGED Feed(w)!vars
  <2>. DEFINE s == <<v, wsRef[v] + 1>>
  <2>1. /\ s \in Sockets /\ link[s] = "unused"
        /\ wsRef' = [wsRef EXCEPT ![v] = @ + 1] /\ link' = [link EXCEPT ![s] = "open"]
        /\ ~Connected(v) /\ UNCHANGED <<said, frames, read>>
    BY <1>4, ConnectOrdered DEF Connect
  <2>2. CASE v = w
    <3>1. Unread(w) = <<>>
      BY <2>1, <2>2 DEF Unread
    <3>2. Current(w)' = s /\ wsRef'[w] = wsRef[w] + 1
      BY <2>1, <2>2 DEF Current, TypeOK
    <3>3. frames[s] = <<>> /\ read[s] = 0
      <4>1. frames[s] = <<>>
        BY <2>1 DEF Opened
      <4>2. Len(frames[s]) = 0
        BY <4>1
      <4>. QED BY <2>1, <4>1, <4>2, Lists
    <3>4. LastOn(w)' = 0
      BY <1>0, <2>1, <3>2, <3>3 DEF LastOn
    <3>5. Unread(w)' = <<>>
      <4>1. SubSeq(frames[s], read[s] + 1, Len(frames[s])) = <<>>
        BY <3>3, SubSeqEmpty
      <4>. QED BY <2>1, <3>2, <4>1 DEF Unread
    <3>6. Feed(w)!Lose
      BY <1>0, <2>1, <3>4, <3>5 DEF Feed!Lose
    <3>. QED BY <3>6 DEF Feed!Next
  <2>3. CASE v # w
    <3>1. wsRef'[w] = wsRef[w] /\ Current(w)' = Current(w)
      BY <2>1, <2>3 DEF Current, TypeOK
    <3>2. wsRef[w] > 0 => link'[Current(w)] = link[Current(w)]
      BY <2>1, <2>3, CurrentIs DEF TypeOK
    <3>3. LastOn(w)' = LastOn(w) /\ Unread(w)' = Unread(w)
      BY <2>1, <3>1, <3>2 DEF LastOn, Unread, Connected
    <3>. QED BY <2>1, <3>3 DEF Feed!vars
  <2>. QED BY <2>2, <2>3
<1>5. ASSUME NEW v \in Windows, Drop(v) PROVE Feed(w)!Next \/ UNCHANGED Feed(w)!vars
  <2>1. /\ link' = [link EXCEPT ![Current(v)] = "gone"] /\ wsRef[v] > 0 /\ Current(v) \in Sockets
        /\ UNCHANGED <<said, frames, read, wsRef>>
    BY <1>5, CurrentIs DEF Drop, Connected
  <2>2. LastOn(w)' = LastOn(w)
    BY <2>1 DEF LastOn, Current
  <2>3. CASE v = w
    <3>1. ~Connected(w)'
      BY <2>1, <2>3 DEF Connected, Current, TypeOK
    <3>2. Unread(w)' = <<>>
      BY <3>1 DEF Unread
    <3>3. Feed(w)!Lose
      BY <1>0, <2>1, <2>2, <3>2 DEF Feed!Lose
    <3>. QED BY <3>3 DEF Feed!Next
  <2>4. CASE v # w
    <3>1. wsRef[w] > 0 => Current(w) # Current(v) /\ link'[Current(w)] = link[Current(w)]
      <4>1. Current(v)[1] = v /\ (wsRef[w] > 0 => Current(w) \in Sockets /\ Current(w)[1] = w)
        BY <2>1, CurrentIs
      <4>2. wsRef[w] > 0 => Current(w) # Current(v)
        BY <2>4, <4>1
      <4>. QED BY <2>1, <4>1, <4>2 DEF TypeOK
    <3>2. Unread(w)' = Unread(w)
      BY <2>1, <3>1 DEF Unread, Connected, Current
    <3>. QED BY <2>1, <2>2, <3>2 DEF Feed!vars
  <2>. QED BY <2>3, <2>4
<1>6. ASSUME NEW v \in Windows, Take(v) PROVE Feed(w)!Next \/ UNCHANGED Feed(w)!vars
  <2>1. CASE v = w
    <3>1. Feed(w)!Take
      BY <1>6, <2>1, TakeFeeds
    <3>. QED BY <3>1 DEF Feed!Next
  <2>2. CASE v # w
    <3>1. /\ wsRef[v] > 0 /\ Current(v) \in Sockets /\ read' = [read EXCEPT ![Current(v)] = @ + 1]
          /\ UNCHANGED <<said, link, frames, wsRef>>
      BY <1>6, TakeIs
    <3>2. wsRef[w] > 0 => read'[Current(w)] = read[Current(w)]
      <4>1. Current(v)[1] = v /\ (wsRef[w] > 0 => Current(w) \in Sockets /\ Current(w)[1] = w)
        BY <3>1, CurrentIs
      <4>2. wsRef[w] > 0 => Current(w) # Current(v)
        BY <2>2, <4>1
      <4>. QED BY <3>1, <4>1, <4>2 DEF TypeOK
    <3>3. UNCHANGED <<Unread(w), LastOn(w)>>
      BY <1>0, <3>1, <3>2 DEF Unread, LastOn, Connected, Current
    <3>. QED BY <3>1, <3>3 DEF Feed!vars
  <2>. QED BY <2>1, <2>2
<1>7. CASE Stop
  <2>1. /\ link' = [s \in Sockets |-> IF link[s] = "unused" THEN "unused" ELSE "gone"]
        /\ UNCHANGED <<said, frames, read, wsRef>>
    BY <1>7 DEF Stop
  <2>2. ~Connected(w)'
    BY <2>1, CurrentIs DEF Connected, Current
  <2>3. Unread(w)' = <<>>
    BY <2>2 DEF Unread
  <2>4. LastOn(w)' = LastOn(w)
    BY <2>1 DEF LastOn, Current
  <2>5. Feed(w)!Lose
    BY <1>0, <2>1, <2>3, <2>4 DEF Feed!Lose
  <2>. QED BY <2>5 DEF Feed!Next
<1>. QED BY <1>1, <1>2, <1>3, <1>4, <1>5, <1>6, <1>7 DEF Next

LEMMA FeedStart ==
    ASSUME Init, NEW w \in Windows
    PROVE  Feed(w)!Init
BY DEF Init, Feed!Init, Unread, LastOn, Connected

-----------------------------------------------------------------------------
(* What is proved.                                                         *)

\* However many windows connect, break and reconnect, the lists and the coroutines
\* stay what send, connect and disconnect take them to be.
THEOREM ChannelTyped == Spec => []TypeOK
<1>1. Ordered => TypeOK
  BY DEF Ordered
<1>. QED BY <1>1, AlwaysOrdered, PTL

\* However send coroutines interleave with sockets that join and leave the list they
\* iterate over, a socket is written every message at most once, in the order of
\* send_threadsafe.
THEOREM ChannelInOrder == Spec => []InOrder
<1>1. Ordered => InOrder
  BY DEF Ordered
<1>. QED BY <1>1, AlwaysOrdered, PTL

\* disconnect is called by the endpoint of a socket and by every coroutine that saw it
\* fail: the list keeps exactly the sockets that are served, each once.
THEOREM ChannelListAgrees == Spec => []ServedIsListed
<1>1. Ordered => ServedIsListed
  BY DEF Ordered
<1>. QED BY <1>1, AlwaysOrdered, PTL

\* A coroutine skips no more working sockets than sockets left the list under it.
THEOREM ChannelSkipsArePaidFor == Spec => []SkipsArePaidFor
<1>1. Skips => SkipsArePaidFor
  BY DEF Skips
<1>. QED BY <1>1, AlwaysSkips, PTL

\* What useWebSocket of any window is handed is the lossy feed in order of UserFeed:
\* every step of the server and of all browsers is one of the feed's, or none.
THEOREM ChannelIsAFeed == Spec => FeedSpec
<1>1. Init => \A w \in Windows : Feed(w)!Init
  BY FeedStart
<1>2. Ordered /\ Ordered' /\ [Next]_vars => [\A w \in Windows : UNCHANGED Feed(w)!vars \/ Feed(w)!Next]_vars
  BY FeedStep
<1>. QED BY <1>1, <1>2, AlwaysOrdered, PTL DEF Spec, FeedSpec
=============================================================================
