----------------------------- MODULE AgentChatProofs -----------------------------
(***************************************************************************)
(* The chat, for any number of turns, tabs, plans, steps and windows: what *)
(* happens to a plan that somebody approves or rejects, and which tab      *)
(* shows and waits for what.                                               *)
(***************************************************************************)
EXTENDS AgentChat, FiniteSetTheorems, SequenceTheorems, TLAPS

-----------------------------------------------------------------------------
(* The inductive invariants.                                               *)

Turns == {r \in Requests : ask[r].at # "unsent"}

\* The numbers in the feed are of messages, later ones behind earlier ones, and
\* the window has taken none of them.
FeedInOrder ==
    /\ Len(said) <= MaxSaid
    /\ \A i \in DOMAIN feed : feed[i] \in DOMAIN said /\ feed[i] > taken
    /\ \A i, j \in DOMAIN feed : i < j => feed[i] < feed[j]

\* How far a turn is: the agent is started when the POST is accepted and has a
\* session from then on; a turn is registered until its outcome arrives.
Stages ==
    \A r \in Requests :
        /\ ask[r].at \in {"unsent", "posted"} => agent[r] = "none"
        /\ ask[r].at = "accepted" => agent[r] # "none"
        /\ agent[r] # "none" => conv[r] \in Requests
        /\ r \in Turns => ask[r].tab \in DOMAIN tabs
        /\ r \in pendingRequests => r \in Turns
        /\ r \in Turns /\ agent[r] # "over" => r \in pendingRequests

\* What is said of a turn is said when its agent is done, with its session.
SaidWhenOver ==
    \A n \in DOMAIN said :
        LET m == said[n] IN agent[m.turn] = "over" /\ m.session = conv[m.turn]

\* Plans are of agents that are done.
PlansWhenOver ==
    /\ \A k \in DOMAIN pending : agent[pending[k]] = "over"
    /\ \A h \in handlers : agent[h.plan] = "over"

Typed == TypeOK /\ FeedInOrder /\ Stages /\ SaidWhenOver /\ PlansWhenOver

\* A plan is in one of four states: awaited, pending, in a loop, finished.
Untouched(p) ==
    /\ ran[p] = <<>>
    /\ \A h \in handlers : h.plan # p
    /\ ~HasBeenSaid("plan_committed", p)
    /\ ~HasBeenSaid("plan_rejected", p)

PendingOnce == \A j, k \in DOMAIN pending : pending[j] = pending[k] => j = k

PendingUntouched == \A p \in Requests : IsPending(p) \/ agent[p] # "over" => Untouched(p)

\* The loop that holds a plan is the only one and has executed the steps before its next.
LoopsGoOn ==
    \A h \in handlers :
        /\ h.next = Len(ran[h.plan]) + 1
        /\ <<h.plan, "commit">> \in decided
        /\ ~HasBeenSaid("plan_committed", h.plan)
        /\ \A g \in handlers : g.plan = h.plan => g = h

CommitsAreDecided == \A c \in calls : c.kind = "commit" => <<c.plan, "commit">> \in decided

Plans ==
    /\ PendingOnce /\ PendingUntouched /\ LoopsGoOn /\ CommitsAreDecided
    /\ StepsRunOnce /\ RejectedNeverRuns

\* A tab without a session waits for one turn at most, the one that will bring it.
FirstTurns ==
    \A r, q \in Requests :
        ( /\ {ask[r].at, ask[q].at} \subseteq {"posted", "accepted", "failed"}
          /\ ask[r].tab = ask[q].tab /\ tabs[ask[r].tab].session = None )
            => r = q /\ tabs[ask[r].tab].loading

\* The session of a turn is that of its tab, once the window knows of it.
SessionsAgree ==
    \A r \in Turns :
        LET session == tabs[ask[r].tab].session
        IN  /\ ask[r].at = "posted" => conv[r] = session
            /\ ask[r].at = "failed" => agent[r] = "none"
            /\ agent[r] # "none" => \/ session = conv[r]
                                    \/ session = None /\ ask[r].at = "accepted"

TalkAgrees == \A t \in DOMAIN tabs : tabs[t].talk \subseteq {tabs[t].session}

Tabs == lost = 0 => FirstTurns /\ SessionsAgree /\ TalkAgrees

\* The turns that a tab waits for.
Awaited(t) == {r \in pendingRequests : ask[r].tab = t /\ (ask[r].at # "over" \/ agent[r] # "none")}

LoadingAwaits ==
    \A t \in DOMAIN tabs :
        /\ tabs[t].loading <=> Awaited(t) # {}
        /\ \A r, q \in Awaited(t) : r = q

\* A turn has one outcome; its window has it registered until it takes that.
OneOutcome ==
    \A m, n \in DOMAIN said :
        said[m] \in TurnMessages /\ said[n] \in TurnMessages /\ said[m].turn = said[n].turn => m = n

OutcomesAwaited ==
    rewinds = 0 => \A n \in DOMAIN said :
        n > taken /\ said[n] \in TurnMessages => said[n].turn \in pendingRequests

Loading == lost = 0 /\ rewinds = 0 => LoadingAwaits

-----------------------------------------------------------------------------
(* The sequences.                                                          *)

Holds(plans, p) == \E k \in DOMAIN plans : plans[k] = p
Distinct(plans) == \A j, k \in DOMAIN plans : plans[j] = plans[k] => j = k

\* What is left of the pending plans is short, distinct and does without the plan taken.
LEMMA PoppedHolds ==
    ASSUME NEW plans \in Seq(Requests), Distinct(plans), NEW p \in Requests
    PROVE  /\ Popped(plans, p) \in Seq(Requests)
           /\ Len(Popped(plans, p)) <= Len(plans)
           /\ Distinct(Popped(plans, p))
           /\ \A q : Holds(Popped(plans, p), q) <=> Holds(plans, q) /\ q # p
<1>1. CASE ~Holds(plans, p)
  <2>1. Popped(plans, p) = plans
        BY <1>1 DEF Popped, Holds
  <2>. QED BY <2>1, <1>1 DEF Holds, Distinct
<1>2. CASE Holds(plans, p)
  <2>1. PICK x \in 1..Len(plans) : plans[x] = p
        BY <1>2 DEF Holds
  <2>2. {k \in DOMAIN plans : plans[k] = p} = {x}
        BY <2>1 DEF Distinct
  <2>. DEFINE rest == [k \in 1..(Len(plans) - 1) |-> plans[IF x <= k THEN k + 1 ELSE k]]
  <2>3. Popped(plans, p) = rest
        BY <2>2 DEF Popped
  <2>4. rest \in Seq(Requests) /\ Len(rest) = Len(plans) - 1 /\ DOMAIN rest = 1..(Len(plans) - 1)
        BY <2>1
  <2>5. Distinct(rest)
        BY <2>1, <2>4 DEF Distinct
  <2>6. ASSUME NEW q, Holds(rest, q) PROVE Holds(plans, q) /\ q # p
        BY <2>1, <2>4, <2>6 DEF Holds, Distinct
  <2>7. ASSUME NEW q, Holds(plans, q), q # p PROVE Holds(rest, q)
    <3>1. PICK k \in 1..Len(plans) : plans[k] = q /\ k # x
          BY <2>1, <2>7 DEF Holds
    <3>2. CASE k < x
          BY <3>1, <3>2, <2>1, <2>4 DEF Holds
    <3>3. CASE k > x
      <4>1. k - 1 \in DOMAIN rest /\ rest[k - 1] = plans[k]
            BY <3>3, <3>1, <2>1, <2>4
      <4>. QED BY <4>1, <3>1 DEF Holds
    <3>. QED BY <3>1, <3>2, <3>3, <2>1
  <2>. QED BY <2>3, <2>4, <2>5, <2>6, <2>7
<1>. QED BY <1>1, <1>2

\* With a plan added, the oldest goes if there are too many.
LEMMA StoredHolds ==
    ASSUME NEW plans \in Seq(Requests), Distinct(plans), NEW p \in Requests, ~Holds(plans, p),
           Len(plans) <= MaxPlans
    PROVE  /\ Stored(plans, p) \in Seq(Requests)
           /\ Len(Stored(plans, p)) <= MaxPlans
           /\ Distinct(Stored(plans, p))
           /\ \A q : Holds(Stored(plans, p), q) => Holds(plans, q) \/ q = p
<1>. DEFINE all == Append(plans, p)
<1>1. /\ all \in Seq(Requests) /\ Len(all) = Len(plans) + 1
      /\ \A k \in 1..Len(all) : all[k] = IF k = Len(all) THEN p ELSE plans[k]
      OBVIOUS
<1>. HIDE DEF all
<1>2. Distinct(all)
      BY <1>1 DEF Distinct, Holds
<1>3. \A q : Holds(all, q) => Holds(plans, q) \/ q = p
      BY <1>1 DEF Holds
<1>4. CASE Len(all) > MaxPlans
  <2>. DEFINE rest == Tail(all)
  <2>1. /\ rest \in Seq(Requests) /\ Len(rest) = Len(plans) /\ DOMAIN rest = 1..Len(plans)
        /\ \A k \in 1..Len(plans) : rest[k] = all[k + 1]
        BY <1>1
  <2>. HIDE DEF rest
  <2>2. ASSUME NEW j \in DOMAIN rest, NEW k \in DOMAIN rest, rest[j] = rest[k] PROVE j = k
    <3>1. j + 1 \in DOMAIN all /\ k + 1 \in DOMAIN all /\ all[j + 1] = all[k + 1]
          BY <1>1, <2>1, <2>2
    <3>. QED BY <3>1, <1>2, <2>1 DEF Distinct
  <2>3. \A q : Holds(rest, q) => Holds(all, q)
        BY <1>1, <2>1 DEF Holds
  <2>. QED BY <1>1, <1>3, <1>4, <2>1, <2>2, <2>3 DEF Stored, Distinct, all, rest
<1>5. CASE ~(Len(all) > MaxPlans)
      BY <1>1, <1>2, <1>3, <1>5, LimitsAssumption DEF Stored, all
<1>. QED BY <1>4, <1>5

-----------------------------------------------------------------------------
(* The types, by the parts of the state.                                   *)

TypedChannel == Channel!TypeOK /\ FeedInOrder

TypedServer ==
    /\ conv \in [Requests -> OptRequest]
    /\ agent \in [Requests -> {"none", "thinking", "over"}]
    /\ pending \in Seq(Requests) /\ Len(pending) <= MaxPlans
    /\ handlers \subseteq [plan : Requests, next : 1..(PlanSteps + 1)]
    /\ ran \in [Requests -> Seq(1..PlanSteps)]

TypedWindow ==
    /\ ask \in [Requests -> [at : {"unsent", "posted", "accepted", "failed", "over"}, tab : 0..MaxOpened]]
    /\ decided \subseteq Requests \X {"commit", "reject"}
    /\ pendingRequests \subseteq Requests
    /\ calls \subseteq Call

TypedTabs ==
    /\ tabs \in Seq(ChatTab) /\ Len(tabs) <= MaxOpened
    /\ Cardinality(Open) <= MaxTabs

TypedTroubles ==
    /\ {remounts, lost, rewinds, crashes} \subseteq Nat
    /\ remounts + lost + rewinds + crashes <= MaxTroubles

LEMMA TypeOKInParts ==
    TypeOK /\ FeedInOrder <=> TypedChannel /\ TypedServer /\ TypedWindow /\ TypedTabs /\ TypedTroubles
BY DEF TypeOK, TypedChannel, TypedServer, TypedWindow, TypedTabs, TypedTroubles, Open

LEMMA TypeOKInPartsNext ==
    TypeOK' /\ FeedInOrder' <=> TypedChannel' /\ TypedServer' /\ TypedWindow' /\ TypedTabs' /\ TypedTroubles'
BY TypeOKInParts, PTL

\* What a step may do to the channel; to the tabs; to the count of troubles.
ChannelSteps ==
    \/ UNCHANGED channelVars
    \/ \E m \in Messages : Channel!Say(m)
    \/ \E n \in DOMAIN said : Channel!Put(n)
    \/ feed' = <<>> /\ taken' \in 0..taken /\ said' = said
    \/ Channel!Take

TabChanges(t, tab) == tab \in ChatTab /\ (tab.open => tabs[t].open)

TabSteps ==
    \/ UNCHANGED tabs
    \/ \E tab \in ChatTab : Cardinality(Open) < MaxTabs /\ Len(tabs) < MaxOpened /\ tabs' = Append(tabs, tab)
    \/ \E t \in DOMAIN tabs : \E tab : TabChanges(t, tab) /\ tabs' = [tabs EXCEPT ![t] = tab]
    \/ \E new : tabs' = [t \in DOMAIN tabs |-> new[t]] /\ \A t \in DOMAIN tabs : TabChanges(t, new[t])

TroubleSteps ==
    \/ UNCHANGED troubles
    \/ Troubled /\ \/ remounts' = remounts + 1 /\ UNCHANGED <<lost, rewinds, crashes>>
                   \/ lost' = lost + 1 /\ UNCHANGED <<remounts, rewinds, crashes>>
                   \/ rewinds' = rewinds + 1 /\ UNCHANGED <<remounts, lost, crashes>>
                   \/ crashes' = crashes + 1 /\ UNCHANGED <<remounts, lost, rewinds>>

LEMMA ChannelKept ==
    ASSUME TypedChannel, ChannelSteps PROVE TypedChannel'
<1>. USE DEF TypedChannel, Channel!TypeOK, FeedInOrder
<1>. MaxSaid \in Nat
     BY BoundsAssumption
<1>1. CASE UNCHANGED channelVars
      BY <1>1 DEF channelVars
<1>2. ASSUME NEW m \in Messages, Channel!Say(m) PROVE TypedChannel'
  <2>1. /\ said' \in Seq(Messages) /\ Len(said') = Len(said) + 1
        /\ DOMAIN said' = 1..(Len(said) + 1) /\ DOMAIN said = 1..Len(said)
        BY <1>2 DEF Channel!Say
  <2>2. UNCHANGED <<feed, taken>> /\ Len(said) < MaxSaid
        BY <1>2 DEF Channel!Say
  <2>. QED BY <2>1, <2>2
<1>3. ASSUME NEW n \in DOMAIN said, Channel!Put(n) PROVE TypedChannel'
  <2>. n \in 1..MaxSaid
       OBVIOUS
  <2>1. /\ feed' \in Seq(1..MaxSaid) /\ Len(feed') = Len(feed) + 1 /\ feed'[Len(feed) + 1] = n
        /\ \A i \in 1..Len(feed) : feed'[i] = feed[i]
        /\ DOMAIN feed' = 1..(Len(feed) + 1) /\ DOMAIN feed = 1..Len(feed)
        BY <1>3 DEF Channel!Put
  <2>. QED BY <2>1, <1>3 DEF Channel!Put
<1>4. CASE feed' = <<>> /\ taken' \in 0..taken /\ said' = said
      BY <1>4
<1>5. CASE Channel!Take
  <2>1. /\ feed' \in Seq(1..MaxSaid) /\ Len(feed') = Len(feed) - 1 /\ Len(feed) > 0
        /\ \A i \in 1..Len(feed') : feed'[i] = feed[i + 1]
        /\ DOMAIN feed' = 1..(Len(feed) - 1) /\ DOMAIN feed = 1..Len(feed)
        /\ taken' = feed[1] /\ said' = said
        BY <1>5 DEF Channel!Take
  <2>2. taken' \in 0..MaxSaid /\ Channel!TypeOK' /\ Len(said') <= MaxSaid
        BY <2>1
  <2>3. \A i \in DOMAIN feed' : feed'[i] \in DOMAIN said' /\ feed'[i] > taken'
    <3>. TAKE i \in DOMAIN feed'
    <3>1. i + 1 \in DOMAIN feed /\ 1 \in DOMAIN feed /\ 1 < i + 1 /\ feed'[i] = feed[i + 1]
          BY <2>1
    <3>. QED BY <3>1, <2>1
  <2>4. ASSUME NEW i \in DOMAIN feed', NEW j \in DOMAIN feed', i < j PROVE feed'[i] < feed'[j]
    <3>1. i \in 1..(Len(feed) - 1) /\ j \in 1..(Len(feed) - 1)
          BY <2>1
    <3>2. feed'[i] = feed[i + 1] /\ feed'[j] = feed[j + 1]
          BY <2>1, <3>1
    <3>3. i + 1 < j + 1
          BY <2>4, <3>1
    <3>4. Len(feed) \in Nat /\ i + 1 \in 1..Len(feed) /\ j + 1 \in 1..Len(feed)
          BY <3>1
    <3>. QED BY <2>1, <3>2, <3>3, <3>4
  <2>. QED BY <2>2, <2>3, <2>4
<1>. QED BY <1>1, <1>2, <1>3, <1>4, <1>5 DEF ChannelSteps

LEMMA TabsKept ==
    ASSUME TypedTabs, TabSteps PROVE TypedTabs' /\ DOMAIN tabs \subseteq DOMAIN tabs'
<1>1. IsFiniteSet(Open) /\ Open \subseteq 1..Len(tabs) /\ Cardinality(Open) \in Nat
  <2>1. IsFiniteSet(1..Len(tabs)) /\ Open \subseteq 1..Len(tabs)
        BY FS_Interval DEF Open, TypedTabs
  <2>. QED BY <2>1, FS_Subset, FS_CardinalityType
<1>2. ASSUME Open' \subseteq Open PROVE Cardinality(Open') <= Cardinality(Open) /\ Cardinality(Open') \in Nat
      BY <1>1, <1>2, FS_Subset, FS_CardinalityType
<1>3. MaxTabs \in Nat /\ MaxOpened \in Nat
      BY LimitsAssumption, BoundsAssumption
<1>4. CASE UNCHANGED tabs
      BY <1>4 DEF TypedTabs, Open
<1>5. ASSUME NEW tab \in ChatTab, Cardinality(Open) < MaxTabs, Len(tabs) < MaxOpened, tabs' = Append(tabs, tab)
      PROVE  TypedTabs' /\ DOMAIN tabs \subseteq DOMAIN tabs'
  <2>1. /\ tabs' \in Seq(ChatTab) /\ Len(tabs') = Len(tabs) + 1
        /\ \A t \in 1..Len(tabs) : tabs'[t] = tabs[t]
        /\ DOMAIN tabs' = 1..(Len(tabs) + 1) /\ DOMAIN tabs = 1..Len(tabs)
        BY <1>5 DEF TypedTabs
  <2>2. Open' \subseteq Open \union {Len(tabs) + 1}
        BY <2>1 DEF Open
  <2>3. /\ IsFiniteSet(Open \union {Len(tabs) + 1})
        /\ Cardinality(Open \union {Len(tabs) + 1}) <= Cardinality(Open) + 1
    <3>1. Len(tabs) + 1 \notin Open
          BY <1>1 DEF TypedTabs
    <3>2. Cardinality(Open \union {Len(tabs) + 1}) = Cardinality(Open) + 1
          BY <1>1, <3>1, FS_AddElement
    <3>. QED BY <1>1, <3>2, FS_AddElement
  <2>4. Cardinality(Open') \in Nat /\ Cardinality(Open') <= Cardinality(Open \union {Len(tabs) + 1})
        BY <2>2, <2>3, FS_Subset, FS_CardinalityType
  <2>5. Cardinality(Open') <= MaxTabs
        BY <1>1, <1>3, <1>5, <2>3, <2>4, FS_CardinalityType
  <2>. QED BY <1>3, <1>5, <2>1, <2>5 DEF TypedTabs
<1>6. ASSUME NEW t \in DOMAIN tabs, NEW tab, TabChanges(t, tab), tabs' = [tabs EXCEPT ![t] = tab]
      PROVE  TypedTabs' /\ DOMAIN tabs \subseteq DOMAIN tabs'
  <2>1. /\ tabs' \in Seq(ChatTab) /\ Len(tabs') = Len(tabs) /\ DOMAIN tabs' = DOMAIN tabs
        /\ \A u \in DOMAIN tabs : tabs'[u] = IF u = t THEN tab ELSE tabs[u]
        BY <1>6 DEF TypedTabs, TabChanges
  <2>2. Open' \subseteq Open
        BY <2>1, <1>6 DEF Open, TabChanges
  <2>. QED BY <1>1, <1>2, <1>3, <2>1, <2>2 DEF TypedTabs
<1>7. ASSUME NEW new, tabs' = [t \in DOMAIN tabs |-> new[t]], \A t \in DOMAIN tabs : TabChanges(t, new[t])
      PROVE  TypedTabs' /\ DOMAIN tabs \subseteq DOMAIN tabs'
  <2>1. /\ tabs' \in Seq(ChatTab) /\ Len(tabs') = Len(tabs) /\ DOMAIN tabs' = DOMAIN tabs
        /\ \A u \in DOMAIN tabs : tabs'[u] = new[u]
        BY <1>7 DEF TypedTabs, TabChanges
  <2>2. Open' \subseteq Open
        BY <2>1, <1>7 DEF Open, TabChanges
  <2>. QED BY <1>1, <1>2, <1>3, <2>1, <2>2 DEF TypedTabs
<1>. QED BY <1>4, <1>5, <1>6, <1>7 DEF TabSteps

LEMMA TroublesKept ==
    ASSUME TypedTroubles, TroubleSteps PROVE TypedTroubles'
BY BoundsAssumption DEF TypedTroubles, TroubleSteps, Troubled, troubles

-----------------------------------------------------------------------------
(* What each action does to the parts of the state.                        *)

\* The actions, as Next lists them.
Acts ==
    \/ NewChat \/ Remount \/ LoseReply \/ Crash \/ Carry \/ Rewind \/ Deliver
    \/ \E s \in Sessions : OpenPast(s)
    \/ \E t \in DOMAIN tabs : CloseTab(t)
    \/ \E t \in DOMAIN tabs : \E r \in Requests : SendMessage(t, r)
    \/ \E t \in DOMAIN tabs : \E kind \in {"commit", "reject"} : Decide(t, kind)
    \/ \E r \in Requests : Acknowledged(r)
    \/ \E r \in Requests : NotSent(r)
    \/ \E r \in Requests : Accept(r)
    \/ \E r \in Requests : Refuse(r)
    \/ \E r \in Requests : Answer(r)
    \/ \E r \in Requests : Propose(r)
    \/ \E r \in Requests : CommitElsewhere(r)
    \/ \E r \in Requests : RejectElsewhere(r)
    \/ \E c \in calls : Decided(c)
    \/ \E c \in calls : CommitCall(c)
    \/ \E c \in calls : CommitMissing(c)
    \/ \E c \in calls : RejectCall(c)
    \/ \E h \in handlers : ExecuteStep(h)
    \/ \E h \in handlers : CommitEnds(h)

LEMMA NextIsActs == Next => Acts
BY DEF Next, Acts

\* What is said is a message: of an agent that was thinking or is done.
LEMMA AboutIsMessage ==
    ASSUME Typed, NEW r \in Requests, agent[r] # "none",
           NEW kind \in {"agent_done", "error", "plan_proposed", "plan_committed", "plan_rejected"}
    PROVE  About(kind, r) \in Messages
BY DEF About, Messages, TurnMessages, PlanMessages, Typed, Stages

\* Messages go into the feed and out of it as UserFeed says.
LEMMA ActsOnChannel ==
    ASSUME Typed, Acts PROVE ChannelSteps
<1>. USE DEF ChannelSteps, channelVars
<1>. agent \in [Requests -> {"none", "thinking", "over"}]
     BY DEF Typed, TypeOK
<1>1. ASSUME NEW r \in Requests, Answer(r) PROVE ChannelSteps
      BY <1>1, AboutIsMessage DEF Answer
<1>2. ASSUME NEW r \in Requests, Propose(r) PROVE ChannelSteps
      BY <1>2, AboutIsMessage DEF Propose
<1>3. ASSUME NEW h \in handlers, CommitEnds(h) PROVE ChannelSteps
      BY <1>3, AboutIsMessage DEF CommitEnds, Typed, TypeOK, PlansWhenOver
<1>4. ASSUME NEW p \in Requests, Reject(p) PROVE ChannelSteps
      BY <1>4, AboutIsMessage DEF Reject, Tells, IsPending, Typed, PlansWhenOver
<1>5. ASSUME NEW c \in calls, RejectCall(c) PROVE ChannelSteps
      BY <1>4, <1>5 DEF RejectCall, Typed, TypeOK, Call
<1>6. ASSUME NEW p \in Requests, RejectElsewhere(p) PROVE ChannelSteps
      BY <1>4, <1>6 DEF RejectElsewhere
<1>7. taken \in 0..MaxSaid /\ MaxSaid \in Nat
      BY BoundsAssumption DEF Typed, TypeOK, Channel!TypeOK
<1>8. CASE Crash \/ Carry \/ Rewind
      BY <1>7, <1>8 DEF Crash, Carry, Rewind, Channel!Lose
<1>9. CASE Deliver
      BY <1>9 DEF Deliver
<1>10. ASSUME UNCHANGED channelVars PROVE ChannelSteps
       BY <1>10
<1>11. CASE \/ NewChat \/ Remount \/ LoseReply
            \/ \E s \in Sessions : OpenPast(s)
            \/ \E t \in DOMAIN tabs : CloseTab(t)
            \/ \E t \in DOMAIN tabs : \E r \in Requests : SendMessage(t, r)
            \/ \E t \in DOMAIN tabs : \E kind \in {"commit", "reject"} : Decide(t, kind)
       BY <1>11 DEF NewChat, Remount, LoseReply, OpenPast, OpenTab, CloseTab, SendMessage, Decide
<1>12. CASE \E r \in Requests : Acknowledged(r) \/ NotSent(r) \/ Accept(r) \/ Refuse(r) \/ CommitElsewhere(r)
       BY <1>12 DEF Acknowledged, NotSent, Accept, Refuse, CommitElsewhere
<1>13. CASE \E c \in calls : Decided(c) \/ CommitCall(c) \/ CommitMissing(c)
       BY <1>13 DEF Decided, CommitCall, CommitMissing
<1>14. CASE \E h \in handlers : ExecuteStep(h)
       BY <1>14 DEF ExecuteStep
<1>. QED BY <1>1, <1>2, <1>3, <1>5, <1>6, <1>8, <1>9, <1>11, <1>12, <1>13, <1>14 DEF Acts

\* Troubles are counted one at a time.
LEMMA ActsOnTroubles ==
    ASSUME Acts PROVE TroubleSteps
<1>. USE DEF TroubleSteps, troubles
<1>1. CASE \/ NewChat \/ Remount \/ LoseReply \/ Crash \/ Carry \/ Rewind \/ Deliver
      BY <1>1 DEF NewChat, OpenTab, Remount, LoseReply, Crash, Carry, Rewind, Deliver
<1>2. CASE \/ \E s \in Sessions : OpenPast(s)
           \/ \E t \in DOMAIN tabs : CloseTab(t)
           \/ \E t \in DOMAIN tabs : \E r \in Requests : SendMessage(t, r)
           \/ \E t \in DOMAIN tabs : \E kind \in {"commit", "reject"} : Decide(t, kind)
      BY <1>2 DEF OpenPast, OpenTab, CloseTab, SendMessage, Decide
<1>3. CASE \E r \in Requests : Acknowledged(r) \/ NotSent(r) \/ Accept(r) \/ Refuse(r)
      BY <1>3 DEF Acknowledged, NotSent, Accept, Refuse
<1>4. CASE \E r \in Requests : Answer(r) \/ Propose(r) \/ CommitElsewhere(r) \/ RejectElsewhere(r)
      BY <1>4 DEF Answer, Propose, CommitElsewhere, RejectElsewhere
<1>5. CASE \E c \in calls : Decided(c) \/ CommitCall(c) \/ CommitMissing(c) \/ RejectCall(c)
      BY <1>5 DEF Decided, CommitCall, CommitMissing, RejectCall
<1>6. CASE \E h \in handlers : ExecuteStep(h) \/ CommitEnds(h)
      BY <1>6 DEF ExecuteStep, CommitEnds
<1>. QED BY <1>1, <1>2, <1>3, <1>4, <1>5, <1>6 DEF Acts

\* A changed tab is a tab, and a closed one stays closed.
LEMMA TabChanged ==
    ASSUME NEW tab \in ChatTab
    PROVE  /\ [tab EXCEPT !.open = FALSE] \in ChatTab
           /\ \A on \in BOOLEAN : LET u == [tab EXCEPT !.loading = on]
                                  IN  u \in ChatTab /\ u.open = tab.open
           /\ \A p \in OptRequest : LET u == [tab EXCEPT !.plan = p]
                                    IN  u \in ChatTab /\ u.open = tab.open
           /\ \A s \in Requests : Bound(tab, s) \in ChatTab /\ Bound(tab, s).open = tab.open
           /\ \A m \in Messages : Applied(tab, m) \in ChatTab /\ Applied(tab, m).open = tab.open
<1>1. \A s \in Requests : Bound(tab, s) \in ChatTab /\ Bound(tab, s).open = tab.open
      BY DEF ChatTab, Bound, OptRequest
<1>2. ASSUME NEW m \in Messages PROVE Applied(tab, m) \in ChatTab /\ Applied(tab, m).open = tab.open
  <2>1. m.session \in Requests /\ m.turn \in OptRequest /\ None \in OptRequest
        BY DEF Messages, TurnMessages, PlanMessages, OptRequest
  <2>2. CASE m.kind \in {"agent_done", "error"}
        BY <1>1, <2>1, <2>2 DEF Applied, ChatTab
  <2>3. CASE m.kind = "plan_proposed"
        BY <1>1, <2>1, <2>3 DEF Applied, ChatTab
  <2>4. CASE m.kind = "plan_committed"
        BY <2>1, <2>4 DEF Applied, ChatTab
  <2>5. CASE m.kind = "plan_rejected"
        BY <2>1, <2>5 DEF Applied, ChatTab
  <2>. QED BY <2>2, <2>3, <2>4, <2>5 DEF Messages, TurnMessages, PlanMessages
<1>. QED BY <1>1, <1>2 DEF ChatTab

\* A message that is taken is one that was said.
LEMMA TakenIsMessage ==
    ASSUME Typed, Channel!Take
    PROVE  /\ Head(feed) \in DOMAIN said /\ said[Head(feed)] \in Messages
           /\ Head(feed) > taken
BY DEF Typed, TypeOK, Channel!TypeOK, FeedInOrder, Channel!Take

\* Tabs are opened within their number and changed one, or all, at a time.
LEMMA ActsOnTabs ==
    ASSUME Typed, Acts PROVE TabSteps
<1>. USE DEF TabSteps
<1>1. /\ \A t \in DOMAIN tabs : tabs[t] \in ChatTab
      /\ \A s \in Sessions : s \in Requests
      /\ None \in OptRequest
      BY DEF Typed, TypeOK, Sessions, OptRequest
<1>2. ASSUME NEW tab \in ChatTab, OpenTab(tab) PROVE TabSteps
      BY <1>2 DEF OpenTab
<1>3. CASE NewChat \/ \E s \in Sessions : OpenPast(s)
      BY <1>1, <1>2, <1>3 DEF NewChat, OpenPast, ChatTab, OptRequest
<1>4. ASSUME NEW t \in DOMAIN tabs, CloseTab(t) PROVE TabSteps
  <2>1. TabChanges(t, [tabs[t] EXCEPT !.open = FALSE])
        BY <1>1, TabChanged DEF TabChanges, ChatTab
  <2>. QED BY <1>4, <2>1 DEF CloseTab
<1>5. ASSUME NEW t \in DOMAIN tabs, NEW r \in Requests, SendMessage(t, r) PROVE TabSteps
  <2>1. TabChanges(t, [tabs[t] EXCEPT !.loading = TRUE])
        BY <1>1, TabChanged DEF TabChanges
  <2>. QED BY <1>5, <2>1 DEF SendMessage
<1>6. ASSUME NEW r \in Requests, Acknowledged(r) PROVE TabSteps
  <2>1. ask[r].tab \in DOMAIN tabs /\ conv[r] \in Requests
        BY <1>6 DEF Acknowledged, Typed, Stages, Turns
  <2>2. TabChanges(ask[r].tab, Bound(tabs[ask[r].tab], conv[r]))
        BY <1>1, <2>1, TabChanged DEF TabChanges
  <2>. QED BY <1>6, <2>1, <2>2 DEF Acknowledged
<1>7. ASSUME NEW r \in Requests, NotSent(r) PROVE TabSteps
  <2>1. ask[r].tab \in DOMAIN tabs
        BY <1>7 DEF NotSent, Typed, Stages, Turns
  <2>2. TabChanges(ask[r].tab, [tabs[ask[r].tab] EXCEPT !.loading = FALSE])
        BY <1>1, <2>1, TabChanged DEF TabChanges
  <2>. QED BY <1>7, <2>1, <2>2 DEF NotSent
<1>8. ASSUME NEW c \in calls, Decided(c) PROVE TabSteps
  <2>. DEFINE new == [tabs EXCEPT ![c.tab].plan = None]
  <2>1. ASSUME NEW t \in DOMAIN tabs PROVE TabChanges(t, new[t])
    <3>1. new[t] = IF t = c.tab THEN [tabs[t] EXCEPT !.plan = None] ELSE tabs[t]
          OBVIOUS
    <3>2. /\ [tabs[t] EXCEPT !.plan = None] \in ChatTab
          /\ [tabs[t] EXCEPT !.plan = None].open = tabs[t].open
          BY <1>1, TabChanged
    <3>. QED BY <1>1, <3>1, <3>2 DEF TabChanges
  <2>2. new = [t \in DOMAIN tabs |-> new[t]]
        OBVIOUS
  <2>3. tabs' = new \/ UNCHANGED tabs
        BY <1>8 DEF Decided
  <2>. HIDE DEF new
  <2>. QED BY <2>1, <2>2, <2>3
<1>9. CASE Deliver
  <2>. DEFINE m == said[Head(feed)]
              new == [t \in DOMAIN tabs |-> IF t \in Addressees(m) THEN Applied(tabs[t], m) ELSE tabs[t]]
  <2>1. m \in Messages
        BY <1>9, TakenIsMessage DEF Deliver
  <2>2. \A t \in DOMAIN tabs : TabChanges(t, new[t])
        BY <1>1, <2>1, TabChanged DEF TabChanges
  <2>3. tabs' = new /\ new = [t \in DOMAIN tabs |-> new[t]]
        BY <1>9 DEF Deliver
  <2>. HIDE DEF new
  <2>. QED BY <2>2, <2>3
<1>10. CASE Remount \/ LoseReply \/ Crash \/ Carry \/ Rewind
       BY <1>10 DEF Remount, LoseReply, Crash, Carry, Rewind, uiVars
<1>11. CASE \E t \in DOMAIN tabs : \E kind \in {"commit", "reject"} : Decide(t, kind)
       BY <1>11 DEF Decide
<1>12. CASE \E r \in Requests : \/ Accept(r) \/ Refuse(r) \/ Answer(r) \/ Propose(r)
                                \/ CommitElsewhere(r) \/ RejectElsewhere(r)
       BY <1>12 DEF Accept, Refuse, Answer, Propose, CommitElsewhere, RejectElsewhere, uiVars
<1>13. CASE \E c \in calls : CommitCall(c) \/ CommitMissing(c) \/ RejectCall(c)
       BY <1>13 DEF CommitCall, CommitMissing, RejectCall
<1>14. CASE \E h \in handlers : ExecuteStep(h) \/ CommitEnds(h)
       BY <1>14 DEF ExecuteStep, CommitEnds, uiVars
<1>. QED BY <1>3, <1>4, <1>5, <1>6, <1>7, <1>8, <1>9, <1>10, <1>11, <1>12, <1>13, <1>14 DEF Acts

\* The server's state keeps its types.
LEMMA ActsOnServer ==
    ASSUME Typed, PendingOnce, PendingUntouched, Acts PROVE TypedServer' /\ PendingOnce'
<1>1. /\ conv \in [Requests -> OptRequest]
      /\ agent \in [Requests -> {"none", "thinking", "over"}]
      /\ pending \in Seq(Requests) /\ Len(pending) <= MaxPlans /\ Distinct(pending)
      /\ handlers \subseteq [plan : Requests, next : 1..(PlanSteps + 1)]
      /\ ran \in [Requests -> Seq(1..PlanSteps)]
      /\ calls \subseteq Call
      BY DEF Typed, TypeOK, PendingOnce, Distinct
<1>2. {MaxPlans, PlanSteps} \subseteq Nat \ {0}
      BY LimitsAssumption
<1>. USE DEF TypedServer, PendingOnce
<1>3. ASSUME UNCHANGED serverVars PROVE TypedServer' /\ PendingOnce'
      BY <1>1, <1>3 DEF serverVars, Distinct
<1>4. ASSUME NEW p \in Requests, pending' = Popped(pending, p) \/ pending' = <<>> \/ UNCHANGED pending
      PROVE  pending' \in Seq(Requests) /\ Len(pending') <= MaxPlans /\ PendingOnce'
  <2>1. CASE pending' = Popped(pending, p)
    <3>1. /\ Popped(pending, p) \in Seq(Requests)
          /\ Len(Popped(pending, p)) <= Len(pending)
          /\ Distinct(Popped(pending, p))
          BY <1>1, PoppedHolds
    <3>. QED BY <1>1, <1>2, <2>1, <3>1 DEF Distinct
  <2>2. CASE pending' = <<>>
        BY <1>2, <2>2
  <2>3. CASE UNCHANGED pending
        BY <1>1, <2>3 DEF Distinct
  <2>. QED BY <1>4, <2>1, <2>2, <2>3
<1>5. ASSUME NEW t \in DOMAIN tabs, NEW r \in Requests, SendMessage(t, r) PROVE TypedServer' /\ PendingOnce'
  <2>1. tabs[t] \in ChatTab
        BY DEF Typed, TypeOK
  <2>. QED BY <1>1, <1>5, <2>1 DEF SendMessage, Distinct, ChatTab
<1>6. ASSUME NEW r \in Requests, Accept(r) PROVE TypedServer' /\ PendingOnce'
      BY <1>1, <1>6 DEF Accept, Distinct, OptRequest
<1>7. ASSUME NEW r \in Requests, Answer(r) PROVE TypedServer' /\ PendingOnce'
      BY <1>1, <1>7 DEF Answer, Distinct
<1>8. ASSUME NEW r \in Requests, Propose(r) PROVE TypedServer' /\ PendingOnce'
  <2>1. agent[r] = "thinking" /\ ~Holds(pending, r)
        BY <1>8 DEF Propose, Typed, PlansWhenOver, Holds
  <2>2. /\ Stored(pending, r) \in Seq(Requests)
        /\ Len(Stored(pending, r)) <= MaxPlans
        /\ Distinct(Stored(pending, r))
        BY <1>1, <2>1, StoredHolds
  <2>. QED BY <1>1, <1>8, <2>2 DEF Propose, Distinct
<1>9. ASSUME NEW p \in Requests, Commit(p), UNCHANGED <<conv, agent, ran>> PROVE TypedServer' /\ PendingOnce'
  <2>1. [plan |-> p, next |-> 1] \in [plan : Requests, next : 1..(PlanSteps + 1)]
        BY <1>2
  <2>. QED BY <1>1, <1>4, <1>9, <2>1 DEF Commit
<1>10. ASSUME NEW p \in Requests, Reject(p), UNCHANGED <<conv, agent, ran, handlers>> PROVE TypedServer' /\ PendingOnce'
       BY <1>1, <1>4, <1>10 DEF Reject
<1>11. ASSUME NEW h \in handlers, ExecuteStep(h) PROVE TypedServer' /\ PendingOnce'
  <2>1. h.plan \in Requests /\ h.next \in 1..PlanSteps
        BY <1>1, <1>2, <1>11 DEF ExecuteStep
  <2>2. [h EXCEPT !.next = @ + 1] \in [plan : Requests, next : 1..(PlanSteps + 1)]
    <3>1. h.next + 1 \in 1..(PlanSteps + 1)
          BY <1>2, <2>1
    <3>. QED BY <1>1, <3>1
  <2>3. ran' \in [Requests -> Seq(1..PlanSteps)]
        BY <1>1, <1>11, <2>1 DEF ExecuteStep
  <2>. QED BY <1>1, <1>11, <2>2, <2>3 DEF ExecuteStep, Distinct
<1>12. ASSUME NEW h \in handlers, CommitEnds(h) PROVE TypedServer' /\ PendingOnce'
       BY <1>1, <1>12 DEF CommitEnds, Distinct
<1>13. CASE Crash
       BY <1>1, <1>2, <1>13 DEF Crash
<1>14. \A c \in calls : c.plan \in Requests
       BY <1>1 DEF Call
<1>15. CASE \/ \E c \in calls : CommitCall(c)
            \/ \E r \in Requests : CommitElsewhere(r)
       BY <1>9, <1>14, <1>15 DEF CommitCall, CommitElsewhere
<1>16. CASE \/ \E c \in calls : RejectCall(c)
            \/ \E r \in Requests : RejectElsewhere(r)
       BY <1>10, <1>14, <1>16 DEF RejectCall, RejectElsewhere
<1>17. CASE \/ NewChat \/ Remount \/ LoseReply \/ Carry \/ Rewind \/ Deliver
            \/ \E s \in Sessions : OpenPast(s)
            \/ \E t \in DOMAIN tabs : CloseTab(t)
            \/ \E t \in DOMAIN tabs : \E kind \in {"commit", "reject"} : Decide(t, kind)
       BY <1>3, <1>17 DEF NewChat, Remount, LoseReply, Carry, Rewind, Deliver, OpenPast, OpenTab, CloseTab, Decide
<1>18. CASE \/ \E r \in Requests : Acknowledged(r) \/ NotSent(r) \/ Refuse(r)
            \/ \E c \in calls : Decided(c) \/ CommitMissing(c)
       BY <1>3, <1>18 DEF Acknowledged, NotSent, Refuse, Decided, CommitMissing
<1>. QED BY <1>5, <1>6, <1>7, <1>8, <1>11, <1>12, <1>13, <1>15, <1>16, <1>17, <1>18 DEF Acts

\* So does the window's.
LEMMA ActsOnWindow ==
    ASSUME Typed, Acts PROVE TypedWindow'
<1>1. /\ ask \in [Requests -> [at : {"unsent", "posted", "accepted", "failed", "over"}, tab : 0..MaxOpened]]
      /\ decided \subseteq Requests \X {"commit", "reject"}
      /\ pendingRequests \subseteq Requests
      /\ calls \subseteq Call
      /\ DOMAIN tabs \subseteq 1..MaxOpened
      BY BoundsAssumption DEF Typed, TypeOK
<1>. USE DEF TypedWindow
<1>2. ASSUME NEW c \in Call
      PROVE  /\ \A reply \in {"waiting", "running", "ok", "failed"} : [c EXCEPT !.reply = reply] \in Call
             /\ [c EXCEPT !.ours = FALSE] \in Call
             /\ c.plan \in Requests
      BY DEF Call
<1>3. ASSUME UNCHANGED <<ask, decided, pendingRequests, calls>> PROVE TypedWindow'
      BY <1>1, <1>3
<1>4. CASE \E t \in DOMAIN tabs : \E r \in Requests : SendMessage(t, r)
      BY <1>1, <1>4 DEF SendMessage
<1>5. ASSUME NEW r \in Requests, NEW at \in {"accepted", "failed", "over"},
             ask' = [ask EXCEPT ![r].at = at], UNCHANGED <<decided, pendingRequests, calls>>
      PROVE  TypedWindow'
      BY <1>1, <1>5
<1>6. CASE \E r \in Requests : Acknowledged(r) \/ NotSent(r) \/ Accept(r) \/ Refuse(r)
      BY <1>5, <1>6 DEF Acknowledged, NotSent, Accept, Refuse
<1>7. ASSUME NEW t \in DOMAIN tabs, NEW kind \in {"commit", "reject"}, Decide(t, kind) PROVE TypedWindow'
  <2>1. tabs[t].plan \in Requests
    <3>1. tabs[t] \in ChatTab
          BY DEF Typed, TypeOK
    <3>. QED BY <1>7, <3>1 DEF Decide, Card, ChatTab, OptRequest
  <2>2. [kind |-> kind, plan |-> tabs[t].plan, tab |-> t, ours |-> TRUE, reply |-> "waiting"] \in Call
        BY <1>1, <2>1 DEF Call
  <2>3. <<tabs[t].plan, kind>> \in Requests \X {"commit", "reject"}
        BY <2>1
  <2>. QED BY <1>1, <1>7, <2>2, <2>3 DEF Decide
<1>8. CASE \E c \in calls : Decided(c) \/ CommitMissing(c) \/ CommitCall(c) \/ RejectCall(c)
      BY <1>1, <1>2, <1>8 DEF Decided, CommitMissing, CommitCall, RejectCall, serverVars
<1>9. CASE Remount
      BY <1>1, <1>2, <1>9 DEF Remount
<1>10. CASE \E h \in handlers : CommitEnds(h)
       BY <1>1, <1>2, <1>10 DEF CommitEnds
<1>11. CASE LoseReply
  <2>1. UNCHANGED <<decided, pendingRequests>>
        BY <1>11 DEF LoseReply
  <2>2. ASSUME NEW r \in Requests, ask' = [ask EXCEPT ![r].at = "failed"], UNCHANGED calls PROVE TypedWindow'
        BY <1>5, <2>1, <2>2
  <2>3. ASSUME NEW c \in calls, calls' = (calls \ {c}) \union {[c EXCEPT !.reply = "failed"]}, UNCHANGED ask
        PROVE  TypedWindow'
        BY <1>1, <1>2, <2>1, <2>3
  <2>. QED BY <1>11, <2>2, <2>3 DEF LoseReply
<1>12. CASE Crash
  <2>1. ask' \in [Requests -> [at : {"unsent", "posted", "accepted", "failed", "over"}, tab : 0..MaxOpened]]
    <3>1. \A r \in Requests : [ask[r] EXCEPT !.at = "failed"] \in
              [at : {"unsent", "posted", "accepted", "failed", "over"}, tab : 0..MaxOpened]
          BY <1>1
    <3>. QED BY <1>1, <1>12, <3>1 DEF Crash
  <2>2. calls' \subseteq Call
        BY <1>1, <1>2, <1>12 DEF Crash
  <2>. QED BY <1>1, <1>12, <2>1, <2>2 DEF Crash
<1>13. CASE Deliver
       BY <1>1, <1>13 DEF Deliver
<1>14. ASSUME NEW p \in Requests, CommitElsewhere(p) \/ RejectElsewhere(p) PROVE TypedWindow'
       BY <1>1, <1>14 DEF CommitElsewhere, RejectElsewhere
<1>15. CASE \/ NewChat \/ Carry \/ Rewind
            \/ \E s \in Sessions : OpenPast(s)
            \/ \E t \in DOMAIN tabs : CloseTab(t)
       BY <1>3, <1>15 DEF NewChat, Carry, Rewind, OpenPast, OpenTab, CloseTab, uiVars
<1>16. CASE \/ \E r \in Requests : Answer(r) \/ Propose(r)
            \/ \E h \in handlers : ExecuteStep(h)
       BY <1>3, <1>16 DEF Answer, Propose, ExecuteStep, uiVars
<1>. QED BY <1>4, <1>6, <1>7, <1>8, <1>9, <1>10, <1>11, <1>12, <1>13, <1>14, <1>15, <1>16 DEF Acts

\* A turn goes through its stages.
LEMMA ActsOnStages ==
    ASSUME Typed, Acts, DOMAIN tabs \subseteq DOMAIN tabs' PROVE Stages'
<1>1. /\ ask \in [Requests -> [at : {"unsent", "posted", "accepted", "failed", "over"}, tab : 0..MaxOpened]]
      /\ conv \in [Requests -> OptRequest]
      /\ agent \in [Requests -> {"none", "thinking", "over"}]
      /\ pendingRequests \subseteq Requests
      /\ Stages
      BY DEF Typed, TypeOK
<1>. USE DEF Stages, Turns
<1>2. ASSUME UNCHANGED <<ask, conv, agent, pendingRequests>> PROVE Stages'
      BY <1>1, <1>2
<1>3. CASE \E t \in DOMAIN tabs : \E r \in Requests : SendMessage(t, r)
      BY <1>1, <1>3 DEF SendMessage
<1>4. CASE \E r \in Requests : Acknowledged(r)
      BY <1>1, <1>4 DEF Acknowledged, serverVars
<1>5. CASE \E r \in Requests : NotSent(r)
      BY <1>1, <1>5 DEF NotSent, serverVars
<1>6. CASE \E r \in Requests : Accept(r)
      BY <1>1, <1>6 DEF Accept, OptRequest
<1>7. CASE \E r \in Requests : Refuse(r)
      BY <1>1, <1>7 DEF Refuse, serverVars
<1>8. CASE \E r \in Requests : Answer(r) \/ Propose(r)
      BY <1>1, <1>8 DEF Answer, Propose, uiVars
<1>9. CASE LoseReply
      BY <1>1, <1>9 DEF LoseReply, serverVars
<1>10. CASE Crash
       BY <1>1, <1>10 DEF Crash
<1>11. CASE Deliver
  <2>. DEFINE m == said[Head(feed)]
  <2>1. m \in Messages /\ agent[m.turn] = "over"
        BY <1>11, TakenIsMessage DEF Deliver, Typed, SaidWhenOver
  <2>. QED BY <1>1, <1>11, <2>1 DEF Deliver, serverVars
<1>12. CASE \/ NewChat \/ Carry \/ Rewind \/ Remount
            \/ \E s \in Sessions : OpenPast(s)
            \/ \E t \in DOMAIN tabs : CloseTab(t)
            \/ \E t \in DOMAIN tabs : \E kind \in {"commit", "reject"} : Decide(t, kind)
       BY <1>2, <1>12 DEF NewChat, Carry, Rewind, Remount, OpenPast, OpenTab, CloseTab, Decide, serverVars, uiVars
<1>13. CASE \/ \E r \in Requests : CommitElsewhere(r) \/ RejectElsewhere(r)
            \/ \E c \in calls : Decided(c) \/ CommitCall(c) \/ CommitMissing(c) \/ RejectCall(c)
       BY <1>2, <1>13 DEF CommitElsewhere, RejectElsewhere, Decided, CommitCall, CommitMissing, RejectCall, serverVars
<1>14. CASE \E h \in handlers : ExecuteStep(h) \/ CommitEnds(h)
       BY <1>2, <1>14 DEF ExecuteStep, CommitEnds, uiVars
<1>. QED BY <1>3, <1>4, <1>5, <1>6, <1>7, <1>8, <1>9, <1>10, <1>11, <1>12, <1>13, <1>14 DEF Acts

\* An agent that was started keeps its session; one that is done stays done.
LEMMA AgentsGoOn ==
    ASSUME Typed, Acts
    PROVE  \A r \in Requests : /\ agent[r] # "none" => agent'[r] # "none" /\ conv'[r] = conv[r]
                               /\ agent[r] = "over" => agent'[r] = "over"
<1>1. /\ conv \in [Requests -> OptRequest]
      /\ agent \in [Requests -> {"none", "thinking", "over"}]
      /\ Stages
      BY DEF Typed, TypeOK
<1>2. CASE \E t \in DOMAIN tabs : \E r \in Requests : SendMessage(t, r)
      BY <1>1, <1>2 DEF SendMessage, Stages
<1>3. CASE \E r \in Requests : Accept(r)
      BY <1>1, <1>3 DEF Accept, Stages
<1>4. CASE \E r \in Requests : Answer(r) \/ Propose(r)
      BY <1>1, <1>4 DEF Answer, Propose
<1>5. CASE Crash
      BY <1>1, <1>5 DEF Crash
<1>6. CASE \/ NewChat \/ Carry \/ Rewind \/ Remount \/ LoseReply \/ Deliver
           \/ \E s \in Sessions : OpenPast(s)
           \/ \E t \in DOMAIN tabs : CloseTab(t)
           \/ \E t \in DOMAIN tabs : \E kind \in {"commit", "reject"} : Decide(t, kind)
      BY <1>6 DEF NewChat, Carry, Rewind, Remount, LoseReply, Deliver, OpenPast, OpenTab, CloseTab, Decide, serverVars
<1>7. CASE \E r \in Requests : \/ Acknowledged(r) \/ NotSent(r) \/ Refuse(r)
                               \/ CommitElsewhere(r) \/ RejectElsewhere(r)
      BY <1>7 DEF Acknowledged, NotSent, Refuse, CommitElsewhere, RejectElsewhere, serverVars
<1>8. CASE \E c \in calls : Decided(c) \/ CommitCall(c) \/ CommitMissing(c) \/ RejectCall(c)
      BY <1>8 DEF Decided, CommitCall, CommitMissing, RejectCall, serverVars
<1>9. CASE \E h \in handlers : ExecuteStep(h) \/ CommitEnds(h)
      BY <1>9 DEF ExecuteStep, CommitEnds
<1>. QED BY <1>2, <1>3, <1>4, <1>5, <1>6, <1>7, <1>8, <1>9 DEF Acts

\* What a step may say, and of which plan or turn.
Says(kind, r) == said' = Append(said, About(kind, r))

SaysOnce ==
    \/ UNCHANGED said
    \/ \E r \in Requests : \E kind \in {"agent_done", "error", "plan_proposed"} :
          agent[r] = "thinking" /\ agent'[r] = "over" /\ Says(kind, r)
    \/ \E h \in handlers : handlers' = handlers \ {h} /\ UNCHANGED <<pending, ran>> /\ Says("plan_committed", h.plan)
    \/ \E p \in Requests : /\ IsPending(p) /\ pending' = Popped(pending, p) /\ UNCHANGED <<handlers, ran>>
                           /\ Says("plan_rejected", p)

LEMMA ActsSayOnce ==
    ASSUME Typed, Acts PROVE SaysOnce
<1>. USE DEF SaysOnce, Says, channelVars
<1>1. agent \in [Requests -> {"none", "thinking", "over"}]
      BY DEF Typed, TypeOK
<1>2. CASE \E r \in Requests : Answer(r) \/ Propose(r)
      BY <1>1, <1>2 DEF Answer, Propose, Channel!Say
<1>3. CASE \E h \in handlers : CommitEnds(h)
      BY <1>3 DEF CommitEnds, Channel!Say
<1>4. ASSUME NEW p \in Requests, Reject(p), UNCHANGED <<handlers, ran>> PROVE SaysOnce
      BY <1>4 DEF Reject, Tells, Channel!Say
<1>5. CASE \/ \E c \in calls : RejectCall(c)
           \/ \E r \in Requests : RejectElsewhere(r)
      BY <1>4, <1>5 DEF RejectCall, RejectElsewhere, Typed, TypeOK, Call
<1>6. CASE Crash \/ Carry \/ Rewind \/ Deliver
      BY <1>6 DEF Crash, Carry, Rewind, Deliver, Channel!Lose, Channel!Put, Channel!Take
<1>7. CASE \/ NewChat \/ Remount \/ LoseReply
           \/ \E s \in Sessions : OpenPast(s)
           \/ \E t \in DOMAIN tabs : CloseTab(t)
           \/ \E t \in DOMAIN tabs : \E r \in Requests : SendMessage(t, r)
           \/ \E t \in DOMAIN tabs : \E kind \in {"commit", "reject"} : Decide(t, kind)
      BY <1>7 DEF NewChat, Remount, LoseReply, OpenPast, OpenTab, CloseTab, SendMessage, Decide
<1>8. CASE \E r \in Requests : Acknowledged(r) \/ NotSent(r) \/ Accept(r) \/ Refuse(r) \/ CommitElsewhere(r)
      BY <1>8 DEF Acknowledged, NotSent, Accept, Refuse, CommitElsewhere
<1>9. CASE \/ \E c \in calls : Decided(c) \/ CommitCall(c) \/ CommitMissing(c)
           \/ \E h \in handlers : ExecuteStep(h)
      BY <1>9 DEF Decided, CommitCall, CommitMissing, ExecuteStep
<1>. QED BY <1>2, <1>3, <1>5, <1>6, <1>7, <1>8, <1>9 DEF Acts

\* A message more, the last one.
LEMMA SaidMore ==
    ASSUME Typed, NEW r \in Requests, NEW kind, Says(kind, r)
    PROVE  /\ DOMAIN said = 1..Len(said) /\ DOMAIN said' = 1..(Len(said) + 1) /\ Len(said) \in Nat
           /\ \A n \in DOMAIN said : said'[n] = said[n]
           /\ LET m == said'[Len(said) + 1] IN m.kind = kind /\ m.turn = r /\ m.session = conv[r]
BY DEF Typed, TypeOK, Channel!TypeOK, Says, About

\* Messages and plans are of agents that are done.
LEMMA ActsWhenOver ==
    ASSUME Typed, PendingOnce, PendingUntouched, Acts PROVE SaidWhenOver' /\ PlansWhenOver'
<1>1. /\ agent \in [Requests -> {"none", "thinking", "over"}]
      /\ said \in Seq(Messages) /\ pending \in Seq(Requests) /\ Distinct(pending)
      /\ Len(pending) <= MaxPlans
      /\ handlers \subseteq [plan : Requests, next : 1..(PlanSteps + 1)]
      /\ calls \subseteq Call
      /\ SaidWhenOver /\ PlansWhenOver
      BY DEF Typed, TypeOK, Channel!TypeOK, PendingOnce, Distinct
<1>2. \A r \in Requests : /\ agent[r] = "over" => agent'[r] = "over" /\ conv'[r] = conv[r]
                          /\ agent[r] = "thinking" => conv'[r] = conv[r]
      BY AgentsGoOn
<1>3. SaidWhenOver'
  <2>1. \A n \in DOMAIN said : said[n] \in Messages
        BY <1>1
  <2>2. \A n \in DOMAIN said : said[n].turn \in Requests
        BY <2>1 DEF Messages, TurnMessages, PlanMessages
  <2>3. CASE UNCHANGED said
        BY <1>1, <1>2, <2>2, <2>3 DEF SaidWhenOver
  <2>4. ASSUME NEW r \in Requests, NEW kind, Says(kind, r), agent'[r] = "over", conv'[r] = conv[r]
        PROVE  SaidWhenOver'
    <3>1. ASSUME NEW n \in DOMAIN said' PROVE agent'[said'[n].turn] = "over" /\ said'[n].session = conv'[said'[n].turn]
      <4>1. CASE n \in DOMAIN said
            BY <1>1, <1>2, <2>2, <2>4, <4>1, SaidMore DEF SaidWhenOver
      <4>2. CASE n = Len(said) + 1
            BY <2>4, <4>2, SaidMore
      <4>. QED BY <2>4, <4>1, <4>2, SaidMore
    <3>. QED BY <3>1 DEF SaidWhenOver
  <2>5. \A h \in handlers : h.plan \in Requests /\ agent[h.plan] = "over"
        BY <1>1 DEF PlansWhenOver
  <2>6. \A p \in Requests : IsPending(p) => agent[p] = "over"
        BY <1>1 DEF PlansWhenOver, IsPending
  <2>. QED BY <1>2, <2>3, <2>4, <2>5, <2>6, ActsSayOnce DEF SaysOnce
<1>4. PlansWhenOver'
  <2>. USE DEF PlansWhenOver
  <2>1. ASSUME UNCHANGED <<pending, handlers>> PROVE PlansWhenOver'
        BY <1>1, <1>2, <2>1
  <2>2. ASSUME NEW p \in Requests, pending' = Popped(pending, p)
        PROVE  \A k \in DOMAIN pending' : agent'[pending'[k]] = "over"
    <3>1. \A q : Holds(Popped(pending, p), q) => Holds(pending, q)
          BY <1>1, PoppedHolds
    <3>. QED BY <1>1, <1>2, <2>2, <3>1 DEF Holds
  <2>3. CASE \E r \in Requests : Propose(r)
    <3>1. PICK r \in Requests : Propose(r)
          BY <2>3
    <3>2. ~Holds(pending, r)
          BY <1>1, <3>1 DEF Propose, Holds
    <3>3. \A q : Holds(Stored(pending, r), q) => Holds(pending, q) \/ q = r
          BY <1>1, <3>2, StoredHolds
    <3>. QED BY <1>1, <1>2, <3>1, <3>3 DEF Propose, Holds
  <2>4. ASSUME NEW p \in Requests, Commit(p) PROVE PlansWhenOver'
    <3>1. agent[p] = "over"
          BY <1>1, <2>4 DEF Commit, IsPending
    <3>. QED BY <1>1, <1>2, <2>2, <2>4, <3>1 DEF Commit
  <2>5. ASSUME NEW p \in Requests, Reject(p), UNCHANGED handlers PROVE PlansWhenOver'
        BY <1>1, <1>2, <2>2, <2>5 DEF Reject
  <2>6. CASE \/ \E c \in calls : CommitCall(c) \/ RejectCall(c)
             \/ \E r \in Requests : CommitElsewhere(r) \/ RejectElsewhere(r)
        BY <1>1, <2>4, <2>5, <2>6 DEF CommitCall, RejectCall, CommitElsewhere, RejectElsewhere, Call
  <2>7. CASE \E h \in handlers : ExecuteStep(h) \/ CommitEnds(h)
        BY <1>1, <1>2, <2>7 DEF ExecuteStep, CommitEnds
  <2>8. CASE Crash
        BY <2>8 DEF Crash
  <2>9. CASE \/ NewChat \/ Remount \/ LoseReply \/ Carry \/ Rewind \/ Deliver
             \/ \E s \in Sessions : OpenPast(s)
             \/ \E t \in DOMAIN tabs : CloseTab(t)
             \/ \E t \in DOMAIN tabs : \E r \in Requests : SendMessage(t, r)
             \/ \E t \in DOMAIN tabs : \E kind \in {"commit", "reject"} : Decide(t, kind)
        BY <2>1, <2>9 DEF NewChat, Remount, LoseReply, Carry, Rewind, Deliver, OpenPast, OpenTab, CloseTab,
                          SendMessage, Decide, serverVars
  <2>10. CASE \/ \E r \in Requests : Acknowledged(r) \/ NotSent(r) \/ Accept(r) \/ Refuse(r) \/ Answer(r)
              \/ \E c \in calls : Decided(c) \/ CommitMissing(c)
        BY <2>1, <2>10 DEF Acknowledged, NotSent, Accept, Refuse, Answer, Decided, CommitMissing, serverVars
  <2>. QED BY <2>3, <2>6, <2>7, <2>8, <2>9, <2>10 DEF Acts
<1>. QED BY <1>3, <1>4

-----------------------------------------------------------------------------
(* Plans.                                                                  *)

\* What has been said stays said, and what is said of a plan is said by its
\* loop or by the reject that took it.
LEMMA WhatIsSaid ==
    ASSUME Typed, Acts, NEW p \in Requests, NEW kind \in {"plan_committed", "plan_rejected"}
    PROVE  /\ HasBeenSaid(kind, p) => HasBeenSaid(kind, p)'
           /\ HasBeenSaid(kind, p)' => \/ HasBeenSaid(kind, p)
                                       \/ /\ kind = "plan_committed"
                                          /\ \E h \in handlers : h.plan = p /\ handlers' = handlers \ {h}
                                          /\ UNCHANGED <<pending, ran>>
                                       \/ /\ kind = "plan_rejected" /\ IsPending(p)
                                          /\ pending' = Popped(pending, p) /\ UNCHANGED <<handlers, ran>>
<1>1. CASE UNCHANGED said
      BY <1>1 DEF HasBeenSaid
<1>2. ASSUME NEW r \in Requests, NEW k, Says(k, r)
      PROVE  HasBeenSaid(kind, p)' <=> HasBeenSaid(kind, p) \/ (k = kind /\ r = p)
  <2>1. /\ DOMAIN said = 1..Len(said) /\ DOMAIN said' = 1..(Len(said) + 1) /\ Len(said) \in Nat
        /\ \A n \in DOMAIN said : said'[n] = said[n]
        /\ said'[Len(said) + 1].kind = k /\ said'[Len(said) + 1].turn = r
        BY <1>2, SaidMore
  <2>2. Len(said) + 1 \in DOMAIN said' /\ \A n \in DOMAIN said' : n \in DOMAIN said \/ n = Len(said) + 1
        BY <2>1
  <2>. QED BY <2>1, <2>2 DEF HasBeenSaid
<1>3. \A h \in handlers : h.plan \in Requests
      BY DEF Typed, TypeOK
<1>. QED BY <1>1, <1>2, <1>3, ActsSayOnce DEF SaysOnce

\* Who approves a plan has decided so.
LEMMA ActsAreDecided ==
    ASSUME Typed, CommitsAreDecided, Acts PROVE CommitsAreDecided' /\ decided \subseteq decided'
<1>. USE DEF CommitsAreDecided
<1>1. ASSUME UNCHANGED <<decided, calls>> PROVE CommitsAreDecided' /\ decided \subseteq decided'
      BY <1>1
<1>2. ASSUME UNCHANGED decided, \A d \in calls' : \E c \in calls : d.kind = c.kind /\ d.plan = c.plan
      PROVE  CommitsAreDecided' /\ decided \subseteq decided'
      BY <1>2
<1>3. calls \subseteq Call
      BY DEF Typed, TypeOK
<1>4. ASSUME NEW c \in calls
      PROVE  /\ \A reply : [c EXCEPT !.reply = reply].kind = c.kind /\ [c EXCEPT !.reply = reply].plan = c.plan
             /\ [c EXCEPT !.ours = FALSE].kind = c.kind /\ [c EXCEPT !.ours = FALSE].plan = c.plan
      BY <1>3 DEF Call
<1>5. CASE \E t \in DOMAIN tabs : \E kind \in {"commit", "reject"} : Decide(t, kind)
      BY <1>5 DEF Decide
<1>6. CASE \E c \in calls : Decided(c) \/ CommitCall(c) \/ CommitMissing(c) \/ RejectCall(c)
  <2>1. UNCHANGED decided
        BY <1>6 DEF Decided, CommitCall, CommitMissing, RejectCall, uiVars
  <2>2. PICK c \in calls : \/ calls' = calls \ {c}
                           \/ \E reply : calls' = (calls \ {c}) \union {[c EXCEPT !.reply = reply]}
        BY <1>6 DEF Decided, CommitCall, CommitMissing, RejectCall
  <2>3. \A d \in calls' : \E b \in calls : d.kind = b.kind /\ d.plan = b.plan
    <3>1. ASSUME NEW d \in calls' PROVE \E b \in calls : d.kind = b.kind /\ d.plan = b.plan
      <4>1. d \in calls \/ \E reply : d = [c EXCEPT !.reply = reply]
            BY <2>2
      <4>. QED BY <1>3, <4>1 DEF Call
    <3>. QED BY <3>1
  <2>. QED BY <1>2, <2>1, <2>3
<1>7. CASE \/ LoseReply \/ Remount \/ Crash
           \/ \E h \in handlers : CommitEnds(h)
  <2>1. UNCHANGED decided
        BY <1>7 DEF LoseReply, Remount, Crash, CommitEnds
  <2>2. \A d \in calls' : \E c \in calls : d.kind = c.kind /\ d.plan = c.plan
    <3>1. CASE LoseReply
      <4>1. \/ UNCHANGED calls
            \/ \E c \in calls : calls' = (calls \ {c}) \union {[c EXCEPT !.reply = "failed"]}
            BY <3>1 DEF LoseReply
      <4>. QED BY <1>3, <4>1 DEF Call
    <3>2. CASE Remount
      <4>1. calls' = {[c EXCEPT !.ours = FALSE] : c \in calls}
            BY <3>2 DEF Remount
      <4>. QED BY <1>3, <4>1 DEF Call
    <3>3. CASE Crash
      <4>1. calls' = {IF c.reply \in {"waiting", "running"} THEN [c EXCEPT !.reply = "failed"] ELSE c : c \in calls}
            BY <3>3 DEF Crash
      <4>. QED BY <1>3, <4>1 DEF Call
    <3>4. ASSUME NEW h \in handlers, CommitEnds(h)
          PROVE  \A d \in calls' : \E c \in calls : d.kind = c.kind /\ d.plan = c.plan
      <4>1. calls' = {IF c.plan = h.plan /\ c.reply = "running" THEN [c EXCEPT !.reply = "ok"] ELSE c : c \in calls}
            BY <3>4 DEF CommitEnds
      <4>. QED BY <1>3, <4>1 DEF Call
    <3>. QED BY <1>7, <3>1, <3>2, <3>3, <3>4
  <2>. QED BY <1>2, <2>1, <2>2
<1>8. CASE \E r \in Requests : CommitElsewhere(r) \/ RejectElsewhere(r)
      BY <1>8 DEF CommitElsewhere, RejectElsewhere
<1>9. CASE \/ NewChat \/ Carry \/ Rewind \/ Deliver
           \/ \E s \in Sessions : OpenPast(s)
           \/ \E t \in DOMAIN tabs : CloseTab(t)
           \/ \E t \in DOMAIN tabs : \E r \in Requests : SendMessage(t, r)
      BY <1>1, <1>9 DEF NewChat, Carry, Rewind, Deliver, OpenPast, OpenTab, CloseTab, SendMessage, uiVars
<1>10. CASE \/ \E r \in Requests : Acknowledged(r) \/ NotSent(r) \/ Accept(r) \/ Refuse(r) \/ Answer(r) \/ Propose(r)
            \/ \E h \in handlers : ExecuteStep(h)
       BY <1>1, <1>10 DEF Acknowledged, NotSent, Accept, Refuse, Answer, Propose, ExecuteStep, uiVars
<1>. QED BY <1>5, <1>6, <1>7, <1>8, <1>9, <1>10 DEF Acts

\* What a step may do with the plans that are pending or in a loop.
PlanMoves ==
    \/ UNCHANGED <<pending, handlers, ran>>
    \/ UNCHANGED <<handlers, ran>> /\ \E r \in Requests : agent[r] = "thinking" /\ pending' = Stored(pending, r)
    \/ UNCHANGED ran /\ \E p \in Requests : Commit(p) /\ <<p, "commit">> \in decided'
    \/ UNCHANGED <<handlers, ran>> /\ \E p \in Requests : pending' = Popped(pending, p)
    \/ \E h \in handlers : ExecuteStep(h)
    \/ \E h \in handlers : h.next > PlanSteps /\ handlers' = handlers \ {h} /\ UNCHANGED <<pending, ran>>
    \/ pending' = <<>> /\ handlers' = {} /\ UNCHANGED ran

LEMMA ActsOnPlans ==
    ASSUME Typed, CommitsAreDecided, Acts PROVE PlanMoves
<1>. USE DEF PlanMoves
<1>1. /\ \A c \in calls : c.plan \in Requests
      /\ agent \in [Requests -> {"none", "thinking", "over"}]
      BY DEF Typed, TypeOK, Call
<1>2. CASE \/ \E c \in calls : CommitCall(c)
           \/ \E r \in Requests : CommitElsewhere(r)
      BY <1>1, <1>2 DEF CommitCall, CommitElsewhere, CommitsAreDecided
<1>3. CASE \/ \E c \in calls : RejectCall(c)
           \/ \E r \in Requests : RejectElsewhere(r)
      BY <1>1, <1>3 DEF RejectCall, RejectElsewhere, Reject
<1>4. CASE \/ \E r \in Requests : Propose(r)
           \/ \E h \in handlers : ExecuteStep(h) \/ CommitEnds(h)
           \/ Crash
      BY <1>4 DEF Propose, CommitEnds, Crash
<1>5. CASE \/ NewChat \/ Remount \/ LoseReply \/ Carry \/ Rewind \/ Deliver
           \/ \E s \in Sessions : OpenPast(s)
           \/ \E t \in DOMAIN tabs : CloseTab(t)
           \/ \E t \in DOMAIN tabs : \E r \in Requests : SendMessage(t, r)
           \/ \E t \in DOMAIN tabs : \E kind \in {"commit", "reject"} : Decide(t, kind)
      BY <1>5 DEF NewChat, Remount, LoseReply, Carry, Rewind, Deliver, OpenPast, OpenTab, CloseTab,
                  SendMessage, Decide, serverVars
<1>6. CASE \/ \E r \in Requests : Acknowledged(r) \/ NotSent(r) \/ Accept(r) \/ Refuse(r) \/ Answer(r)
           \/ \E c \in calls : Decided(c) \/ CommitMissing(c)
      BY <1>6 DEF Acknowledged, NotSent, Accept, Refuse, Answer, Decided, CommitMissing, serverVars
<1>. QED BY <1>2, <1>3, <1>4, <1>5, <1>6 DEF Acts

\* A loop is an old one, or that of a plan just taken.
LEMMA LoopsOfPlans ==
    ASSUME Typed, CommitsAreDecided, Acts, NEW g \in handlers'
    PROVE  \/ \E h \in handlers : g.plan = h.plan
           \/ g.plan \in Requests /\ Commit(g.plan)
<1>1. handlers \subseteq [plan : Requests, next : 1..(PlanSteps + 1)] /\ PlanMoves
      BY ActsOnPlans DEF Typed, TypeOK
<1>2. ASSUME NEW p \in Requests, Commit(p), g \notin handlers PROVE g.plan = p
      BY <1>2 DEF Commit
<1>3. ASSUME NEW h \in handlers, ExecuteStep(h), g \notin handlers PROVE g.plan = h.plan
      BY <1>1, <1>3 DEF ExecuteStep
<1>. QED BY <1>1, <1>2, <1>3 DEF PlanMoves

\* A plan that is awaited or pending has not been touched by a step.
LEMMA StaysUntouched ==
    ASSUME Typed, Plans, Acts, NEW p \in Requests, IsPending(p)' \/ agent'[p] # "over"
    PROVE  Untouched(p)'
<1>1. /\ pending \in Seq(Requests) /\ Distinct(pending) /\ Len(pending) <= MaxPlans
      /\ ran \in [Requests -> Seq(1..PlanSteps)]
      /\ handlers \subseteq [plan : Requests, next : 1..(PlanSteps + 1)]
      BY DEF Typed, TypeOK, Plans, PendingOnce, Distinct
<1>2. IsPending(p) \/ agent[p] # "over"
  <2>1. \A r \in Requests : Holds(Popped(pending, r), p) => Holds(pending, p)
        BY <1>1, PoppedHolds
  <2>2. ASSUME NEW r \in Requests, agent[r] = "thinking"
        PROVE  Holds(Stored(pending, r), p) => Holds(pending, p) \/ r = p
    <3>1. ~Holds(pending, r)
          BY <2>2 DEF Typed, PlansWhenOver, Holds
    <3>. QED BY <1>1, <3>1, StoredHolds
  <2>3. IsPending(p)' => IsPending(p) \/ agent[p] = "thinking"
    <3>1. (IsPending(p)' <=> Holds(pending', p)) /\ (IsPending(p) <=> Holds(pending, p)) /\ ~Holds(<<>>, p)
          BY DEF IsPending, Holds
    <3>. QED BY <2>1, <2>2, <3>1, ActsOnPlans DEF PlanMoves, Commit, ExecuteStep, Plans
  <2>. QED BY <2>3, AgentsGoOn
<1>3. Untouched(p)
      BY <1>2 DEF Plans, PendingUntouched
<1>4. ASSUME NEW q \in Requests, pending' = Popped(pending, q), IsPending(q) PROVE q # p
  <2>1. ~IsPending(p)' \/ q # p
    <3>1. Holds(Popped(pending, q), p) => q # p
          BY <1>1, PoppedHolds
    <3>2. IsPending(p)' <=> Holds(pending', p)
          BY DEF IsPending, Holds
    <3>. QED BY <1>4, <3>1, <3>2
  <2>2. agent[q] = "over"
        BY <1>4 DEF Typed, PlansWhenOver, IsPending
  <2>. QED BY <2>1, <2>2, AgentsGoOn
<1>5. ran'[p] = <<>>
      BY <1>1, <1>3, ActsOnPlans DEF PlanMoves, Plans, Untouched, ExecuteStep, Commit
<1>6. \A h \in handlers' : h.plan # p
  <2>1. \A h \in handlers : h.plan # p
        BY <1>3 DEF Untouched
  <2>2. ASSUME NEW q \in Requests, Commit(q) PROVE q # p
        BY <1>4, <2>2 DEF Commit
  <2>. QED BY <2>1, <2>2, LoopsOfPlans DEF Plans
<1>7. ~HasBeenSaid("plan_committed", p)' /\ ~HasBeenSaid("plan_rejected", p)'
      BY <1>3, <1>4, WhatIsSaid DEF Untouched
<1>. QED BY <1>5, <1>6, <1>7 DEF Untouched

\* The loops go on step by step, each with a plan of its own.
LEMMA LoopsStayLoops ==
    ASSUME Typed, Plans, Acts PROVE LoopsGoOn'
<1>1. /\ pending \in Seq(Requests)
      /\ ran \in [Requests -> Seq(1..PlanSteps)]
      /\ handlers \subseteq [plan : Requests, next : 1..(PlanSteps + 1)]
      /\ PlanSteps \in Nat
      BY LimitsAssumption DEF Typed, TypeOK
<1>2. decided \subseteq decided' /\ PlanMoves
      BY ActsAreDecided, ActsOnPlans DEF Plans
<1>3. ASSUME NEW h \in handlers, h \in handlers' PROVE ~HasBeenSaid("plan_committed", h.plan)'
  <2>1. h.plan \in Requests /\ ~HasBeenSaid("plan_committed", h.plan)
        BY <1>1 DEF Plans, LoopsGoOn
  <2>2. ASSUME NEW g \in handlers, g.plan = h.plan, handlers' = handlers \ {g} PROVE FALSE
        BY <1>3, <2>2 DEF Plans, LoopsGoOn
  <2>. QED BY <2>1, <2>2, WhatIsSaid
<1>4. ASSUME UNCHANGED ran, handlers' \subseteq handlers PROVE LoopsGoOn'
      BY <1>2, <1>3, <1>4 DEF Plans, LoopsGoOn
<1>5. ASSUME NEW p \in Requests, Commit(p), UNCHANGED ran, <<p, "commit">> \in decided' PROVE LoopsGoOn'
  <2>. DEFINE new == [plan |-> p, next |-> 1]
  <2>1. Untouched(p)
        BY <1>5 DEF Commit, Plans, PendingUntouched
  <2>2. ~HasBeenSaid("plan_committed", p)'
        BY <2>1, WhatIsSaid DEF Untouched
  <2>3. handlers' = handlers \union {new} /\ new.plan = p /\ new.next = 1
        BY <1>5 DEF Commit
  <2>4. Len(ran[p]) = 0 /\ \A h \in handlers : h.plan # p
        BY <2>1 DEF Untouched
  <2>. HIDE DEF new
  <2>5. ASSUME NEW g \in handlers, g \in handlers'
        PROVE  /\ g.next = Len(ran'[g.plan]) + 1
               /\ <<g.plan, "commit">> \in decided'
               /\ ~HasBeenSaid("plan_committed", g.plan)'
        BY <1>2, <1>3, <1>5, <2>5 DEF Plans, LoopsGoOn
  <2>6. ASSUME NEW f \in handlers', NEW g \in handlers', f.plan = g.plan PROVE f = g
        BY <2>3, <2>4, <2>6 DEF Plans, LoopsGoOn
  <2>7. /\ new.next = Len(ran'[new.plan]) + 1
        /\ <<new.plan, "commit">> \in decided'
        /\ ~HasBeenSaid("plan_committed", new.plan)'
        BY <1>5, <2>2, <2>3, <2>4
  <2>8. \A g \in handlers' : g = new \/ g \in handlers
        BY <2>3
  <2>. QED BY <2>5, <2>6, <2>7, <2>8 DEF LoopsGoOn
<1>6. ASSUME NEW h \in handlers, ExecuteStep(h) PROVE LoopsGoOn'
  <2>. DEFINE new == [h EXCEPT !.next = @ + 1]
  <2>1. h.plan \in Requests /\ h.next \in 1..PlanSteps /\ ran[h.plan] \in Seq(1..PlanSteps)
        BY <1>1, <1>6 DEF ExecuteStep
  <2>2. handlers' = (handlers \ {h}) \union {new} /\ new.plan = h.plan /\ new.next = h.next + 1
        BY <1>1, <1>6 DEF ExecuteStep
  <2>3. /\ ran' = [ran EXCEPT ![h.plan] = Append(@, h.next)]
        /\ Len(ran'[h.plan]) = Len(ran[h.plan]) + 1 /\ Len(ran[h.plan]) \in Nat
        BY <1>1, <1>6, <2>1 DEF ExecuteStep
  <2>4. /\ h.next = Len(ran[h.plan]) + 1 /\ <<h.plan, "commit">> \in decided
        /\ ~HasBeenSaid("plan_committed", h.plan)
        /\ \A g \in handlers : g.plan = h.plan => g = h
        BY DEF Plans, LoopsGoOn
  <2>5. ~HasBeenSaid("plan_committed", h.plan)'
    <3>1. handlers' # handlers \ {h}
          BY <2>1, <2>2, <2>4
    <3>. QED BY <2>1, <2>4, <3>1, WhatIsSaid
  <2>. HIDE DEF new
  <2>6. ASSUME NEW g \in handlers' PROVE g = new \/ (g \in handlers /\ g.plan # h.plan)
        BY <2>2, <2>4
  <2>7. ASSUME NEW g \in handlers', g # new
        PROVE  /\ g.next = Len(ran'[g.plan]) + 1
               /\ <<g.plan, "commit">> \in decided'
               /\ ~HasBeenSaid("plan_committed", g.plan)'
        BY <1>1, <1>2, <1>3, <2>3, <2>6, <2>7 DEF Plans, LoopsGoOn
  <2>8. ASSUME NEW f \in handlers', NEW g \in handlers', f.plan = g.plan PROVE f = g
        BY <2>2, <2>6, <2>8 DEF Plans, LoopsGoOn
  <2>. QED BY <1>2, <2>2, <2>3, <2>4, <2>5, <2>7, <2>8 DEF LoopsGoOn
<1>. QED BY <1>2, <1>4, <1>5, <1>6 DEF PlanMoves

\* Steps are executed by a loop, in their order, and of approved plans only.
LEMMA StepsStayOnce ==
    ASSUME Typed, Plans, Acts PROVE StepsRunOnce'
<1>1. /\ ran \in [Requests -> Seq(1..PlanSteps)]
      /\ handlers \subseteq [plan : Requests, next : 1..(PlanSteps + 1)]
      BY DEF Typed, TypeOK
<1>2. decided \subseteq decided' /\ PlanMoves
      BY ActsAreDecided, ActsOnPlans DEF Plans
<1>3. CASE UNCHANGED ran
      BY <1>2, <1>3 DEF Plans, StepsRunOnce
<1>4. ASSUME NEW h \in handlers, ExecuteStep(h) PROVE StepsRunOnce'
  <2>1. h.plan \in Requests /\ ran[h.plan] \in Seq(1..PlanSteps) /\ Len(ran[h.plan]) \in Nat
        BY <1>1
  <2>2. h.next = Len(ran[h.plan]) + 1 /\ <<h.plan, "commit">> \in decided
        BY DEF Plans, LoopsGoOn
  <2>3. ran[h.plan] = [k \in 1..Len(ran[h.plan]) |-> k]
        BY <2>1 DEF Plans, StepsRunOnce
  <2>4. ran'[h.plan] = Append(ran[h.plan], h.next)
        BY <1>1, <1>4, <2>1 DEF ExecuteStep
  <2>5. /\ Len(ran'[h.plan]) = Len(ran[h.plan]) + 1
        /\ ran'[h.plan] = [k \in 1..(Len(ran[h.plan]) + 1) |-> k]
        BY <2>1, <2>2, <2>3, <2>4
  <2>6. \A p \in Requests : p # h.plan => ran'[p] = ran[p]
        BY <1>1, <1>4 DEF ExecuteStep
  <2>. QED BY <1>2, <2>2, <2>5, <2>6 DEF Plans, StepsRunOnce
<1>. QED BY <1>2, <1>3, <1>4 DEF PlanMoves

\* A rejected plan was pending when it was taken, and nobody has it since.
LEMMA RejectedStays ==
    ASSUME Typed, Plans, Acts PROVE RejectedNeverRuns'
<1>1. /\ pending \in Seq(Requests) /\ Distinct(pending)
      /\ ran \in [Requests -> Seq(1..PlanSteps)]
      /\ handlers \subseteq [plan : Requests, next : 1..(PlanSteps + 1)]
      BY DEF Typed, TypeOK, Plans, PendingOnce, Distinct
<1>2. PlanMoves
      BY ActsOnPlans DEF Plans
<1>3. ASSUME NEW p \in Requests, HasBeenSaid("plan_rejected", p)
      PROVE  ran'[p] = <<>> /\ ~HasBeenSaid("plan_committed", p)' /\ \A h \in handlers' : h.plan # p
  <2>1. ran[p] = <<>> /\ ~HasBeenSaid("plan_committed", p) /\ \A h \in handlers : h.plan # p
        BY <1>3 DEF Plans, RejectedNeverRuns
  <2>2. ~IsPending(p)
        BY <1>3 DEF Plans, PendingUntouched, Untouched
  <2>3. ran'[p] = <<>>
        BY <1>1, <1>2, <2>1 DEF PlanMoves, ExecuteStep, Commit
  <2>4. \A h \in handlers' : h.plan # p
        BY <2>1, <2>2, LoopsOfPlans DEF Commit, Plans
  <2>5. ~HasBeenSaid("plan_committed", p)'
        BY <2>1, WhatIsSaid
  <2>. QED BY <2>3, <2>4, <2>5
<1>4. ASSUME NEW p \in Requests, ~HasBeenSaid("plan_rejected", p), HasBeenSaid("plan_rejected", p)'
      PROVE  ran'[p] = <<>> /\ ~HasBeenSaid("plan_committed", p)' /\ \A h \in handlers' : h.plan # p
  <2>1. IsPending(p) /\ UNCHANGED <<handlers, ran>>
        BY <1>4, WhatIsSaid
  <2>2. Untouched(p)
        BY <2>1 DEF Plans, PendingUntouched
  <2>3. ~HasBeenSaid("plan_committed", p)'
        BY <2>2, WhatIsSaid DEF Untouched
  <2>. QED BY <2>1, <2>2, <2>3 DEF Untouched
<1>. QED BY <1>3, <1>4 DEF RejectedNeverRuns

-----------------------------------------------------------------------------
(* The types and the plans together.                                       *)

TypedPlans == Typed /\ Plans

LEMMA TypedPlansInitially == Init => TypedPlans
<1>. SUFFICES ASSUME Init PROVE TypedPlans
     OBVIOUS
<1>. USE DEF Init, Channel!Init
<1>1. TypeOK
  <2>1. Open = {} /\ Cardinality(Open) = 0
        BY FS_EmptySet DEF Open
  <2>. QED BY <2>1, LimitsAssumption, BoundsAssumption DEF TypeOK, Channel!TypeOK, OptRequest, Open
<1>2. FeedInOrder /\ Stages /\ SaidWhenOver /\ PlansWhenOver
      BY BoundsAssumption DEF FeedInOrder, Stages, Turns, SaidWhenOver, PlansWhenOver
<1>3. Plans
      BY DEF Plans, PendingOnce, PendingUntouched, Untouched, LoopsGoOn, CommitsAreDecided, StepsRunOnce,
             RejectedNeverRuns, HasBeenSaid, IsPending
<1>. QED BY <1>1, <1>2, <1>3 DEF TypedPlans, Typed

LEMMA TypedPlansKept == TypedPlans /\ [Next]_vars => TypedPlans'
<1>. SUFFICES ASSUME TypedPlans, [Next]_vars PROVE TypedPlans'
     OBVIOUS
<1>1. CASE UNCHANGED vars
  <2>1. /\ UNCHANGED <<said, feed, taken, ask, conv, agent, pending, handlers, ran>>
        /\ UNCHANGED <<decided, tabs, pendingRequests, calls, remounts, lost, rewinds, crashes>>
        BY <1>1 DEF vars, channelVars, serverVars, uiVars, troubles
  <2>2. TypedChannel' /\ TypedServer' /\ TypedWindow' /\ TypedTabs' /\ TypedTroubles'
    <3>1. TypedChannel /\ TypedServer /\ TypedWindow /\ TypedTabs /\ TypedTroubles
          BY TypeOKInParts DEF TypedPlans, Typed
    <3>. QED BY <2>1, <3>1 DEF TypedChannel, Channel!TypeOK, FeedInOrder, TypedServer, TypedWindow, TypedTabs, Open,
                               TypedTroubles
  <2>3. Stages' /\ SaidWhenOver' /\ PlansWhenOver'
        BY <2>1 DEF TypedPlans, Typed, Stages, Turns, SaidWhenOver, PlansWhenOver
  <2>4. Plans'
        BY <2>1 DEF TypedPlans, Plans, PendingOnce, PendingUntouched, Untouched, LoopsGoOn, CommitsAreDecided,
                    StepsRunOnce, RejectedNeverRuns, HasBeenSaid, IsPending
  <2>. QED BY <2>2, <2>3, <2>4, TypeOKInPartsNext DEF TypedPlans, Typed
<1>2. CASE Next
  <2>1. Acts /\ Typed /\ Plans
        BY <1>2, NextIsActs DEF TypedPlans
  <2>2. TypedChannel /\ TypedTabs /\ TypedTroubles
        BY <2>1, TypeOKInParts DEF Typed
  <2>3. TypedChannel'
        BY <2>1, <2>2, ActsOnChannel, ChannelKept
  <2>4. TypedTabs' /\ DOMAIN tabs \subseteq DOMAIN tabs'
        BY <2>1, <2>2, ActsOnTabs, TabsKept
  <2>5. TypedTroubles'
        BY <2>1, <2>2, ActsOnTroubles, TroublesKept
  <2>6. TypedServer' /\ PendingOnce' /\ TypedWindow'
        BY <2>1, ActsOnServer, ActsOnWindow DEF Plans
  <2>7. Stages' /\ SaidWhenOver' /\ PlansWhenOver'
        BY <2>1, <2>4, ActsOnStages, ActsWhenOver DEF Plans
  <2>8. PendingUntouched'
        BY <2>1, StaysUntouched DEF PendingUntouched
  <2>9. LoopsGoOn' /\ CommitsAreDecided' /\ StepsRunOnce' /\ RejectedNeverRuns'
        BY <2>1, LoopsStayLoops, ActsAreDecided, StepsStayOnce, RejectedStays DEF Plans
  <2>. QED BY <2>3, <2>4, <2>5, <2>6, <2>7, <2>8, <2>9, TypeOKInPartsNext DEF TypedPlans, Typed, Plans
<1>. QED BY <1>1, <1>2

LEMMA AlwaysTypedPlans == Spec => []TypedPlans
<1>1. TypedPlans /\ [Next]_vars => TypedPlans'
      BY TypedPlansKept
<1>. QED BY <1>1, TypedPlansInitially, PTL DEF Spec

\* The variables have their types, no more tabs are open than MAX_CHAT_TABS and
\* _pending_plans holds no more plans than _MAX_PENDING_PLANS.
THEOREM ChatTyped == Spec => []TypeOK
<1>1. TypedPlans => TypeOK
      BY DEF TypedPlans, Typed
<1>. QED BY <1>1, AlwaysTypedPlans, PTL

\* commit_plan executes the steps of a plan once each, in their order, and of
\* no plan that nobody has approved: however many windows approve it, whatever
\* replies and messages are lost, and whenever the server dies.
THEOREM ChatStepsRunOnce == Spec => []StepsRunOnce
<1>1. TypedPlans => StepsRunOnce
      BY DEF TypedPlans, Plans
<1>. QED BY <1>1, AlwaysTypedPlans, PTL

\* A plan whose rejection reject_plan has announced never runs.
THEOREM ChatRejectedNeverRuns == Spec => []RejectedNeverRuns
<1>1. TypedPlans => RejectedNeverRuns
      BY DEF TypedPlans, Plans
<1>. QED BY <1>1, AlwaysTypedPlans, PTL

-----------------------------------------------------------------------------
(* Tabs and their sessions.                                                *)

TabsAgree == FirstTurns /\ SessionsAgree /\ TalkAgrees

\* What the lemmas below need of the types.
LEMMA TabTypes ==
    ASSUME Typed
    PROVE  /\ ask \in [Requests -> [at : {"unsent", "posted", "accepted", "failed", "over"}, tab : 0..MaxOpened]]
           /\ conv \in [Requests -> OptRequest]
           /\ agent \in [Requests -> {"none", "thinking", "over"}]
           /\ \A t \in DOMAIN tabs : tabs[t] \in ChatTab
           /\ \A t \in DOMAIN tabs : tabs[t].talk \subseteq Requests /\ tabs[t].session \in OptRequest
           /\ DOMAIN tabs = 1..Len(tabs) /\ Len(tabs) \in Nat
           /\ None \notin Requests
           /\ Stages
<1>1. tabs \in Seq(ChatTab)
      BY DEF Typed, TypeOK
<1>2. \A t \in DOMAIN tabs : tabs[t] \in ChatTab
      BY <1>1
<1>. QED BY <1>1, <1>2, NoneAssumption DEF Typed, TypeOK, ChatTab, None

\* Steps that leave turns alone, and of the tabs there are what these are about.
LEMMA TabsLeftAlone ==
    ASSUME Typed, TabsAgree, UNCHANGED <<ask, conv, agent>>,
           \A t \in DOMAIN tabs : /\ t \in DOMAIN tabs'
                                  /\ tabs'[t].session = tabs[t].session
                                  /\ tabs'[t].loading = tabs[t].loading
                                  /\ tabs'[t].talk = tabs[t].talk,
           \A t \in DOMAIN tabs' \ DOMAIN tabs : tabs'[t].talk \subseteq {tabs'[t].session}
    PROVE  TabsAgree'
<1>1. \A r \in Turns : ask[r].tab \in DOMAIN tabs
      BY TabTypes DEF Stages, Turns
<1>2. FirstTurns'
      BY <1>1, TabTypes DEF TabsAgree, FirstTurns, Turns
<1>3. SessionsAgree'
      BY <1>1, TabTypes DEF TabsAgree, SessionsAgree, Turns
<1>4. TalkAgrees'
      BY DEF TabsAgree, TalkAgrees
<1>. QED BY <1>2, <1>3, <1>4 DEF TabsAgree

\* The tabs S hear of the session s, which is theirs or that of their first turn.
OthersStay(S) ==
    \A t \in DOMAIN tabs \ S : /\ tabs'[t].session = tabs[t].session
                               /\ tabs'[t].loading = tabs[t].loading
                               /\ tabs'[t].talk = tabs[t].talk

TheseHear(S, s) ==
    \A t \in DOMAIN tabs \intersect S :
        /\ tabs'[t].session = s /\ tabs'[t].talk \subseteq tabs[t].talk \union {s}
        /\ \/ tabs[t].session = s
           \/ tabs[t].session = None /\ \E r \in Requests : ask[r].at = "accepted" /\ ask[r].tab = t /\ conv[r] = s

TurnsStay(S) ==
    \A r \in Requests :
        /\ ask'[r].tab = ask[r].tab
        /\ \/ ask'[r].at = ask[r].at
           \/ ask[r].at = "accepted" /\ ask'[r].at = "over" /\ ask[r].tab \in S

\* It is theirs from then on.
LEMMA TabsAreBound ==
    ASSUME Typed, TabsAgree, UNCHANGED <<conv, agent>>, DOMAIN tabs' = DOMAIN tabs,
           NEW S, NEW s \in Requests, OthersStay(S), TheseHear(S, s), TurnsStay(S)
    PROVE  TabsAgree'
<1>. USE DEF OthersStay, TheseHear, TurnsStay
<1>1. \A r \in Turns : ask[r].tab \in DOMAIN tabs
      BY TabTypes DEF Stages, Turns
<1>2. Turns' = Turns
      BY DEF Turns
<1>3. s # None
      BY TabTypes
<1>4. FirstTurns'
  <2>1. ASSUME NEW r \in Requests, NEW q \in Requests,
               {ask'[r].at, ask'[q].at} \subseteq {"posted", "accepted", "failed"},
               ask'[r].tab = ask'[q].tab, tabs'[ask'[r].tab].session = None
        PROVE  r = q /\ tabs'[ask'[r].tab].loading
    <3>1. {ask[r].at, ask[q].at} \subseteq {"posted", "accepted", "failed"} /\ r \in Turns
          BY <2>1 DEF Turns
    <3>2. ask[r].tab \in DOMAIN tabs /\ ask[r].tab \notin S
          BY <1>1, <1>3, <2>1, <3>1
    <3>. QED BY <2>1, <3>1, <3>2 DEF TabsAgree, FirstTurns
  <2>. QED BY <2>1 DEF FirstTurns
<1>5. SessionsAgree'
  <2>1. ASSUME NEW r \in Turns
        PROVE  LET session == tabs'[ask'[r].tab].session
               IN  /\ ask'[r].at = "posted" => conv'[r] = session
                   /\ ask'[r].at = "failed" => agent'[r] = "none"
                   /\ agent'[r] # "none" => \/ session = conv'[r]
                                            \/ session = None /\ ask'[r].at = "accepted"
    <3>. DEFINE t == ask[r].tab
    <3>1. t \in DOMAIN tabs /\ r \in Requests
          BY <1>1 DEF Turns
    <3>2. /\ ask[r].at = "posted" => conv[r] = tabs[t].session
          /\ ask[r].at = "failed" => agent[r] = "none"
          /\ agent[r] # "none" => tabs[t].session = conv[r] \/ (tabs[t].session = None /\ ask[r].at = "accepted")
          BY DEF TabsAgree, SessionsAgree
    <3>3. CASE t \notin S
          BY <3>1, <3>2, <3>3
    <3>4. CASE t \in S /\ tabs[t].session = s
          BY <1>3, <3>1, <3>2, <3>4
    <3>5. CASE t \in S /\ tabs[t].session # s
      <4>1. PICK q \in Requests : ask[q].at = "accepted" /\ ask[q].tab = t /\ conv[q] = s /\ tabs[t].session = None
            BY <3>1, <3>5
      <4>2. ask[r].at \in {"posted", "accepted", "failed"} => r = q
            BY <3>1, <4>1 DEF TabsAgree, FirstTurns
      <4>3. agent[r] # "none" => r = q
            BY <3>1, <3>2, <4>1, <4>2, TabTypes DEF Stages
      <4>4. tabs'[t].session = s /\ ask'[r].tab = t
            BY <3>1, <3>5
      <4>5. ask'[r].at = "posted" => ask[r].at = "posted"
            BY <3>1
      <4>6. ask'[r].at = "failed" => ask[r].at = "failed"
            BY <3>1
      <4>. QED BY <3>1, <3>2, <4>1, <4>2, <4>3, <4>4, <4>5, <4>6
    <3>. QED BY <3>3, <3>4, <3>5
  <2>. QED BY <1>2, <2>1 DEF SessionsAgree
<1>6. TalkAgrees'
  <2>1. ASSUME NEW t \in DOMAIN tabs PROVE tabs'[t].talk \subseteq {tabs'[t].session}
    <3>1. tabs[t].talk \subseteq {tabs[t].session}
          BY DEF TabsAgree, TalkAgrees
    <3>2. CASE t \notin S
          BY <3>1, <3>2
    <3>3. CASE t \in S /\ tabs[t].session = s
          BY <3>1, <3>3
    <3>4. CASE t \in S /\ tabs[t].session = None
      <4>1. tabs[t].talk = {}
            BY <3>1, <3>4, TabTypes
      <4>. QED BY <3>4, <4>1
    <3>. QED BY <3>2, <3>3, <3>4
  <2>. QED BY <2>1 DEF TalkAgrees
<1>. QED BY <1>4, <1>5, <1>6 DEF TabsAgree

\* A message is taken by tabs of its session, or of its turn.
LEMMA TakenByItsTabs ==
    ASSUME Typed, TabsAgree, Deliver
    PROVE  LET m == said[Head(feed)]
           IN  /\ m \in Messages /\ m.turn \in Requests /\ m.session \in Requests
               /\ m.session = conv[m.turn] /\ agent[m.turn] = "over"
               /\ \A t \in DOMAIN tabs \intersect Addressees(m) :
                    /\ \/ tabs[t].session = m.session
                       \/ tabs[t].session = None /\ ask[m.turn].at = "accepted" /\ ask[m.turn].tab = t
                    /\ tabs[t].session = None => m \in TurnMessages
<1>. DEFINE m == said[Head(feed)]
<1>1. m \in Messages /\ m.session = conv[m.turn] /\ agent[m.turn] = "over"
      BY TakenIsMessage DEF Deliver, Typed, SaidWhenOver
<1>2. m.turn \in Requests /\ m.session \in Requests
      BY <1>1 DEF Messages, TurnMessages, PlanMessages
<1>. HIDE DEF m
<1>3. ASSUME NEW t \in DOMAIN tabs, t \in Addressees(m)
      PROVE  /\ \/ tabs[t].session = m.session
                \/ tabs[t].session = None /\ ask[m.turn].at = "accepted" /\ ask[m.turn].tab = t
             /\ tabs[t].session = None => m \in TurnMessages
  <2>1. CASE m \in TurnMessages /\ m.turn \in pendingRequests
    <3>1. t = ask[m.turn].tab
          BY <1>3, <2>1 DEF Addressees
    <3>2. m.turn \in Turns
          BY <1>2, <2>1, TabTypes DEF Stages
    <3>. QED BY <1>1, <2>1, <3>1, <3>2 DEF TabsAgree, SessionsAgree
  <2>2. CASE ~(m \in TurnMessages /\ m.turn \in pendingRequests)
    <3>1. t \in FirstHolder(m.session)
          BY <1>3, <2>2 DEF Addressees
    <3>2. tabs[t].session = m.session /\ m.session # None
          BY <1>2, <3>1, TabTypes DEF FirstHolder, Holders
    <3>. QED BY <3>2
  <2>. QED BY <2>1, <2>2
<1>. QED BY <1>1, <1>2, <1>3 DEF m

LEMMA TabsStayAgreed ==
    ASSUME Typed, TabsAgree, Acts, lost' = 0 PROVE TabsAgree'
<1>1. \A r \in Turns : r \in Requests /\ ask[r].tab \in DOMAIN tabs
      BY TabTypes DEF Stages, Turns
<1>2. ASSUME UNCHANGED <<ask, conv, agent, tabs>> PROVE TabsAgree'
      BY <1>2, TabsLeftAlone
<1>3. ASSUME NEW tab \in ChatTab, OpenTab(tab), tab.talk \subseteq {tab.session} PROVE TabsAgree'
  <2>1. /\ \A t \in DOMAIN tabs : t \in DOMAIN tabs' /\ tabs'[t] = tabs[t]
        /\ \A t \in DOMAIN tabs' \ DOMAIN tabs : tabs'[t] = tab
        BY <1>3, TabTypes DEF OpenTab, Typed, TypeOK
  <2>. QED BY <1>3, <2>1, TabsLeftAlone DEF OpenTab, serverVars
<1>4. CASE NewChat \/ \E s \in Sessions : OpenPast(s)
  <2>1. \A s \in Sessions : s \in Requests
        BY TabTypes DEF Sessions, OptRequest
  <2>2. ASSUME NEW s \in Sessions, OpenPast(s) PROVE TabsAgree'
    <3>. DEFINE tab == [open |-> TRUE, session |-> s, loading |-> FALSE, plan |-> None, talk |-> {s}]
    <3>1. tab \in ChatTab /\ tab.talk \subseteq {tab.session}
          BY <2>1 DEF ChatTab, OptRequest
    <3>2. OpenTab(tab)
          BY <2>2 DEF OpenPast
    <3>. QED BY <1>3, <3>1, <3>2
  <2>3. CASE NewChat
    <3>. DEFINE tab == [open |-> TRUE, session |-> None, loading |-> FALSE, plan |-> None, talk |-> {}]
    <3>1. tab \in ChatTab /\ tab.talk \subseteq {tab.session}
          BY DEF ChatTab, OptRequest
    <3>2. OpenTab(tab)
          BY <2>3 DEF NewChat
    <3>. QED BY <1>3, <3>1, <3>2
  <2>. QED BY <1>4, <2>2, <2>3
<1>5. CASE \E t \in DOMAIN tabs : CloseTab(t)
  <2>1. UNCHANGED <<ask, conv, agent>> /\ DOMAIN tabs' = DOMAIN tabs
        BY <1>5 DEF CloseTab, serverVars
  <2>2. \A t \in DOMAIN tabs : /\ tabs'[t].session = tabs[t].session
                               /\ tabs'[t].loading = tabs[t].loading
                               /\ tabs'[t].talk = tabs[t].talk
        BY <1>5, TabTypes DEF CloseTab, ChatTab
  <2>. QED BY <2>1, <2>2, TabsLeftAlone
<1>6. CASE \E c \in calls : Decided(c)
  <2>1. PICK c \in calls : Decided(c)
        BY <1>6
  <2>2. UNCHANGED <<ask, conv, agent>> /\ (UNCHANGED tabs \/ tabs' = [tabs EXCEPT ![c.tab].plan = None])
        BY <2>1 DEF Decided, serverVars
  <2>3. CASE tabs' = [tabs EXCEPT ![c.tab].plan = None]
    <3>1. DOMAIN tabs' = DOMAIN tabs
          BY <2>3
    <3>2. \A t \in DOMAIN tabs : /\ tabs'[t].session = tabs[t].session
                                 /\ tabs'[t].loading = tabs[t].loading
                                 /\ tabs'[t].talk = tabs[t].talk
          BY <2>3, TabTypes DEF ChatTab
    <3>. QED BY <2>2, <3>1, <3>2, TabsLeftAlone
  <2>. QED BY <1>2, <2>2, <2>3
<1>7. ASSUME NEW t \in DOMAIN tabs, NEW r \in Requests, SendMessage(t, r) PROVE TabsAgree'
  <2>1. /\ ask[r].at = "unsent" /\ agent[r] = "none" /\ ~tabs[t].loading
        /\ ask' = [ask EXCEPT ![r] = [at |-> "posted", tab |-> t]]
        /\ conv' = [conv EXCEPT ![r] = tabs[t].session]
        /\ agent' = agent /\ DOMAIN tabs' = DOMAIN tabs
        BY <1>7, TabTypes DEF SendMessage, MaySend, Stages
  <2>2. \A u \in DOMAIN tabs : /\ tabs'[u].session = tabs[u].session
                               /\ tabs'[u].talk = tabs[u].talk
                               /\ tabs'[u].loading = (IF u = t THEN TRUE ELSE tabs[u].loading)
        BY <1>7, TabTypes DEF SendMessage, ChatTab
  <2>3. ASSUME NEW q \in Requests, ask[q].at \in {"posted", "accepted", "failed"}, ask[q].tab = t PROVE tabs[t].session # None
        BY <2>1, <2>3 DEF TabsAgree, FirstTurns
  <2>4. /\ ask'[r].at = "posted" /\ ask'[r].tab = t /\ conv'[r] = tabs[t].session
        /\ \A q \in Requests \ {r} : ask'[q] = ask[q] /\ conv'[q] = conv[q]
        BY <2>1, TabTypes
  <2>5. FirstTurns'
    <3>1. ASSUME NEW p \in Requests, NEW q \in Requests,
                 {ask'[p].at, ask'[q].at} \subseteq {"posted", "accepted", "failed"},
                 ask'[p].tab = ask'[q].tab, tabs'[ask'[p].tab].session = None
          PROVE  p = q /\ tabs'[ask'[p].tab].loading
      <4>1. CASE p # r /\ q # r
        <5>1. ask[p].tab \in DOMAIN tabs
              BY <1>1, <2>4, <3>1, <4>1 DEF Turns
        <5>2. tabs[ask[p].tab].session = None /\ ask[p].tab = ask[q].tab
              BY <2>2, <2>4, <3>1, <4>1, <5>1
        <5>3. p = q /\ tabs[ask[p].tab].loading
              BY <2>4, <3>1, <4>1, <5>2 DEF TabsAgree, FirstTurns
        <5>. QED BY <2>2, <2>4, <4>1, <5>1, <5>3
      <4>2. CASE p = r \/ q = r
        <5>0. ask'[p].tab = t
              BY <2>4, <3>1, <4>2
        <5>1. ask'[p].tab = t /\ tabs[t].session = None
              BY <2>2, <3>1, <5>0
        <5>2. p = r /\ q = r
              BY <2>3, <2>4, <3>1, <4>2, <5>1
        <5>. QED BY <2>2, <2>4, <5>2
      <4>. QED BY <4>1, <4>2
    <3>. QED BY <3>1 DEF FirstTurns
  <2>6. SessionsAgree'
    <3>1. ASSUME NEW q \in Turns, q # r
          PROVE  LET session == tabs'[ask'[q].tab].session
                 IN  /\ ask'[q].at = "posted" => conv'[q] = session
                     /\ ask'[q].at = "failed" => agent'[q] = "none"
                     /\ agent'[q] # "none" => \/ session = conv'[q]
                                              \/ session = None /\ ask'[q].at = "accepted"
      <4>1. /\ ask'[q] = ask[q] /\ conv'[q] = conv[q] /\ agent'[q] = agent[q]
            /\ tabs'[ask[q].tab].session = tabs[ask[q].tab].session
            BY <1>1, <2>1, <2>2, <2>4, <3>1
      <4>. QED BY <4>1 DEF TabsAgree, SessionsAgree
    <3>2. Turns' = Turns \union {r}
          BY <2>4 DEF Turns
    <3>3. ask'[r].at = "posted" /\ conv'[r] = tabs'[ask'[r].tab].session /\ agent'[r] = "none"
          BY <2>1, <2>2, <2>4
    <3>. QED BY <3>1, <3>2, <3>3 DEF SessionsAgree
  <2>7. TalkAgrees'
        BY <2>1, <2>2 DEF TabsAgree, TalkAgrees
  <2>. QED BY <2>5, <2>6, <2>7 DEF TabsAgree
<1>8. ASSUME NEW r \in Requests, Acknowledged(r) PROVE TabsAgree'
  <2>. DEFINE t == ask[r].tab
              s == conv[r]
              S == {t}
  <2>1. /\ ask[r].at = "accepted" /\ agent[r] # "none" /\ conv[r] \in Requests /\ t \in DOMAIN tabs /\ r \in Turns
        /\ ask' = [ask EXCEPT ![r].at = "over"] /\ UNCHANGED <<conv, agent>>
        /\ tabs' = [tabs EXCEPT ![t] = Bound(@, conv[r])]
        BY <1>8, TabTypes DEF Acknowledged, Stages, Turns, serverVars
  <2>2. tabs[t].session = conv[r] \/ tabs[t].session = None
        BY <2>1 DEF TabsAgree, SessionsAgree
  <2>3. tabs'[t].session = conv[r] /\ tabs'[t].talk = tabs[t].talk
        BY <2>1, <2>2, TabTypes DEF Bound, ChatTab
  <2>4. DOMAIN tabs' = DOMAIN tabs /\ \A u \in DOMAIN tabs \ {t} : tabs'[u] = tabs[u]
        BY <2>1
  <2>5. TurnsStay(S)
        BY <2>1, TabTypes DEF TurnsStay
  <2>6. OthersStay(S)
        BY <2>4 DEF OthersStay
  <2>7. TheseHear(S, s)
        BY <2>1, <2>2, <2>3 DEF TheseHear
  <2>8. s \in Requests /\ DOMAIN tabs' = DOMAIN tabs /\ UNCHANGED <<conv, agent>>
        BY <2>1, <2>4
  <2>. HIDE DEF S, s
  <2>. QED BY <2>5, <2>6, <2>7, <2>8, TabsAreBound
<1>9. CASE Deliver
  <2>. DEFINE m == said[Head(feed)]
  <2>1. /\ m \in Messages /\ m.turn \in Requests /\ m.session \in Requests
        /\ m.session = conv[m.turn]
        /\ \A t \in DOMAIN tabs \intersect Addressees(m) :
             /\ \/ tabs[t].session = m.session
                \/ tabs[t].session = None /\ ask[m.turn].at = "accepted" /\ ask[m.turn].tab = t
             /\ tabs[t].session = None => m \in TurnMessages
        BY <1>9, TakenByItsTabs
  <2>2. /\ UNCHANGED <<ask, conv, agent>>
        /\ tabs' = [t \in DOMAIN tabs |-> IF t \in Addressees(m) THEN Applied(tabs[t], m) ELSE tabs[t]]
        BY <1>9 DEF Deliver, serverVars
  <2>. HIDE DEF m
  <2>3. ASSUME NEW t \in DOMAIN tabs, t \in Addressees(m)
        PROVE  tabs'[t].session = m.session /\ tabs'[t].talk \subseteq tabs[t].talk \union {m.session}
    <3>1. tabs[t] \in ChatTab /\ tabs'[t] = Applied(tabs[t], m)
          BY <2>2, <2>3, TabTypes
    <3>2. CASE m \in TurnMessages
          BY <2>1, <2>3, <3>1, <3>2 DEF TurnMessages, Applied, Bound, ChatTab
    <3>3. CASE m \in PlanMessages
      <4>1. tabs[t].session = m.session
            BY <2>1, <2>3, <3>3 DEF TurnMessages, PlanMessages
      <4>. QED BY <3>1, <3>3, <4>1 DEF PlanMessages, Applied, ChatTab
    <3>. QED BY <2>1, <3>2, <3>3 DEF Messages
  <2>4. \A t \in DOMAIN tabs \ Addressees(m) : tabs'[t] = tabs[t]
        BY <2>2
  <2>5. \A t \in DOMAIN tabs \intersect Addressees(m) :
             \/ tabs[t].session = m.session
             \/ tabs[t].session = None /\ \E r \in Requests : ask[r].at = "accepted" /\ ask[r].tab = t /\ conv[r] = m.session
        BY <2>1
  <2>6. DOMAIN tabs' = DOMAIN tabs
        BY <2>2
  <2>7. OthersStay(Addressees(m)) /\ TheseHear(Addressees(m), m.session) /\ TurnsStay(Addressees(m))
        BY <2>1, <2>2, <2>3, <2>4, <2>5 DEF OthersStay, TheseHear, TurnsStay
  <2>. QED BY <2>1, <2>2, <2>6, <2>7, TabsAreBound
<1>10. ASSUME NEW r \in Requests, NotSent(r) PROVE TabsAgree'
  <2>. DEFINE t == ask[r].tab
  <2>1. /\ ask[r].at = "failed" /\ t \in DOMAIN tabs /\ r \in Turns /\ agent[r] = "none"
        /\ ask' = [ask EXCEPT ![r].at = "over"] /\ UNCHANGED <<conv, agent>>
        /\ tabs' = [tabs EXCEPT ![t].loading = FALSE]
        BY <1>10, TabTypes DEF NotSent, Stages, Turns, serverVars, TabsAgree, SessionsAgree
  <2>2. /\ DOMAIN tabs' = DOMAIN tabs
        /\ \A u \in DOMAIN tabs : /\ tabs'[u].session = tabs[u].session
                                  /\ tabs'[u].talk = tabs[u].talk
                                  /\ u # t => tabs'[u].loading = tabs[u].loading
        BY <2>1, TabTypes DEF ChatTab
  <2>3. /\ ask'[r].at = "over" /\ ask'[r].tab = t
        /\ \A q \in Requests \ {r} : ask'[q] = ask[q]
        BY <2>1, TabTypes
  <2>4. FirstTurns'
    <3>1. ASSUME NEW p \in Requests, NEW q \in Requests,
                 {ask'[p].at, ask'[q].at} \subseteq {"posted", "accepted", "failed"},
                 ask'[p].tab = ask'[q].tab, tabs'[ask'[p].tab].session = None
          PROVE  p = q /\ tabs'[ask'[p].tab].loading
      <4>1. p # r /\ q # r /\ ask[p].tab \in DOMAIN tabs
            BY <1>1, <2>3, <3>1 DEF Turns
      <4>2. tabs[ask[p].tab].session = None
            BY <2>2, <2>3, <3>1, <4>1
      <4>3. ask[p].tab # t
            BY <2>1, <2>3, <3>1, <4>1, <4>2 DEF TabsAgree, FirstTurns
      <4>. QED BY <2>2, <2>3, <3>1, <4>1, <4>2, <4>3 DEF TabsAgree, FirstTurns
    <3>. QED BY <3>1 DEF FirstTurns
  <2>5. SessionsAgree'
        BY <1>1, <2>1, <2>2, <2>3 DEF TabsAgree, SessionsAgree, Turns
  <2>6. TalkAgrees'
        BY <2>2 DEF TabsAgree, TalkAgrees
  <2>. QED BY <2>4, <2>5, <2>6 DEF TabsAgree
<1>11. ASSUME NEW r \in Requests, Accept(r) PROVE TabsAgree'
  <2>1. /\ ask[r].at = "posted" /\ r \in Turns /\ tabs' = tabs
        /\ ask' = [ask EXCEPT ![r].at = "accepted"]
        /\ conv' = [conv EXCEPT ![r] = IF @ = None THEN r ELSE @]
        /\ agent' = [agent EXCEPT ![r] = "thinking"]
        BY <1>11 DEF Accept, Turns
  <2>2. /\ ask'[r].at = "accepted" /\ ask'[r].tab = ask[r].tab
        /\ \A q \in Requests \ {r} : ask'[q] = ask[q] /\ conv'[q] = conv[q] /\ agent'[q] = agent[q]
        /\ conv'[r] = IF conv[r] = None THEN r ELSE conv[r]
        BY <2>1, TabTypes
  <2>3. tabs[ask[r].tab].session = conv[r]
        BY <2>1 DEF TabsAgree, SessionsAgree
  <2>4. FirstTurns'
        BY <2>1, <2>2 DEF TabsAgree, FirstTurns
  <2>5. SessionsAgree'
        BY <2>1, <2>2, <2>3 DEF TabsAgree, SessionsAgree, Turns
  <2>6. TalkAgrees'
        BY <2>1 DEF TabsAgree, TalkAgrees
  <2>. QED BY <2>4, <2>5, <2>6 DEF TabsAgree
<1>12. ASSUME NEW r \in Requests, Refuse(r) PROVE TabsAgree'
  <2>1. /\ ask[r].at = "posted" /\ agent[r] = "none" /\ r \in Turns /\ UNCHANGED <<tabs, conv, agent>>
        /\ ask' = [ask EXCEPT ![r].at = "failed"]
        BY <1>12, TabTypes DEF Refuse, Turns, Stages, serverVars
  <2>2. /\ ask'[r].at = "failed" /\ ask'[r].tab = ask[r].tab
        /\ \A q \in Requests \ {r} : ask'[q] = ask[q]
        BY <2>1, TabTypes
  <2>3. FirstTurns'
        BY <2>1, <2>2 DEF TabsAgree, FirstTurns
  <2>4. SessionsAgree'
        BY <2>1, <2>2 DEF TabsAgree, SessionsAgree, Turns
  <2>5. TalkAgrees'
        BY <2>1 DEF TabsAgree, TalkAgrees
  <2>. QED BY <2>3, <2>4, <2>5 DEF TabsAgree
<1>13. CASE \E r \in Requests : Answer(r) \/ Propose(r)
  <2>1. PICK r \in Requests : agent[r] = "thinking" /\ agent' = [agent EXCEPT ![r] = "over"] /\ UNCHANGED <<ask, conv, tabs>>
        BY <1>13 DEF Answer, Propose, uiVars
  <2>2. \A q \in Requests : agent'[q] = "none" <=> agent[q] = "none"
        BY <2>1, TabTypes
  <2>. QED BY <1>1, <2>1, <2>2 DEF TabsAgree, FirstTurns, SessionsAgree, TalkAgrees, Turns
<1>14. CASE Crash
  <2>1. /\ ask' = [r \in Requests |-> IF ask[r].at = "posted" THEN [ask[r] EXCEPT !.at = "failed"] ELSE ask[r]]
        /\ agent' = [r \in Requests |-> IF agent[r] = "thinking" THEN "over" ELSE agent[r]]
        /\ UNCHANGED <<conv, tabs>>
        BY <1>14 DEF Crash
  <2>2. \A q \in Requests : /\ agent'[q] = "none" <=> agent[q] = "none"
                            /\ ask'[q].tab = ask[q].tab
                            /\ ask'[q].at = IF ask[q].at = "posted" THEN "failed" ELSE ask[q].at
                            /\ ask[q].at = "posted" => agent[q] = "none"
        BY <2>1, TabTypes DEF Stages
  <2>3. FirstTurns'
        BY <2>1, <2>2, TabTypes DEF TabsAgree, FirstTurns
  <2>4. SessionsAgree'
        BY <2>1, <2>2 DEF TabsAgree, SessionsAgree, Turns
  <2>5. TalkAgrees'
        BY <2>1 DEF TabsAgree, TalkAgrees
  <2>. QED BY <2>3, <2>4, <2>5 DEF TabsAgree
<1>15. CASE LoseReply
       BY <1>15 DEF LoseReply, Typed, TypeOK
<1>16. CASE \/ Carry \/ Rewind \/ Remount
            \/ \E t \in DOMAIN tabs : \E kind \in {"commit", "reject"} : Decide(t, kind)
       BY <1>2, <1>16 DEF Carry, Rewind, Remount, Decide, serverVars, uiVars
<1>17. CASE \/ \E r \in Requests : CommitElsewhere(r) \/ RejectElsewhere(r)
            \/ \E c \in calls : CommitCall(c) \/ CommitMissing(c) \/ RejectCall(c)
       BY <1>2, <1>17 DEF CommitElsewhere, RejectElsewhere, CommitCall, CommitMissing, RejectCall, serverVars
<1>18. CASE \E h \in handlers : ExecuteStep(h) \/ CommitEnds(h)
       BY <1>2, <1>18 DEF ExecuteStep, CommitEnds, uiVars
<1>. QED BY <1>4, <1>5, <1>6, <1>7, <1>8, <1>9, <1>10, <1>11, <1>12, <1>13, <1>14, <1>15, <1>16, <1>17, <1>18 DEF Acts

-----------------------------------------------------------------------------
(* What a tab waits for.                                                   *)

LEMMA TurnKinds ==
    ASSUME NEW m \in Messages
    PROVE  m \in TurnMessages <=> m.kind \in {"agent_done", "plan_proposed", "error"}
BY DEF Messages, TurnMessages, PlanMessages

\* An agent has one outcome.
LEMMA OneOutcomeKept ==
    ASSUME Typed, OneOutcome, Acts PROVE OneOutcome'
<1>1. said \in Seq(Messages) /\ \A n \in DOMAIN said : said[n] \in Messages
      BY DEF Typed, TypeOK, Channel!TypeOK
<1>2. CASE UNCHANGED said
      BY <1>2 DEF OneOutcome
<1>3. ASSUME NEW r \in Requests, NEW kind, Says(kind, r),
             kind \in {"plan_committed", "plan_rejected"} \/ agent[r] = "thinking"
      PROVE  OneOutcome'
  <2>1. /\ DOMAIN said = 1..Len(said) /\ DOMAIN said' = 1..(Len(said) + 1) /\ Len(said) \in Nat
        /\ \A n \in DOMAIN said : said'[n] = said[n]
        /\ said'[Len(said) + 1].kind = kind /\ said'[Len(said) + 1].turn = r
        BY <1>3, SaidMore
  <2>2. ASSUME NEW n \in DOMAIN said, said[n] \in TurnMessages, said[n].turn = r PROVE agent[r] = "over"
        BY <2>2 DEF Typed, SaidWhenOver
  <2>3. kind \in {"plan_committed", "plan_rejected"} => said'[Len(said) + 1] \notin TurnMessages
        BY <2>1 DEF TurnMessages
  <2>4. ASSUME NEW m \in DOMAIN said', NEW n \in DOMAIN said',
               said'[m] \in TurnMessages, said'[n] \in TurnMessages, said'[m].turn = said'[n].turn
        PROVE  m = n
    <3>1. CASE m \in DOMAIN said /\ n \in DOMAIN said
          BY <2>1, <2>4, <3>1 DEF OneOutcome
    <3>2. CASE m = Len(said) + 1 \/ n = Len(said) + 1
          BY <1>3, <2>1, <2>2, <2>3, <2>4, <3>2
    <3>. QED BY <2>1, <3>1, <3>2
  <2>. QED BY <2>4 DEF OneOutcome
<1>4. /\ \A h \in handlers : h.plan \in Requests
      BY DEF Typed, TypeOK
<1>. QED BY <1>2, <1>3, <1>4, ActsSayOnce DEF SaysOnce

\* Without a rewind only a message that is taken resolves a turn.
LEMMA ActsOnTaken ==
    ASSUME Typed, Acts, rewinds' = 0
    PROVE  /\ rewinds = 0
           /\ Deliver \/ (taken' = taken /\ pendingRequests \subseteq pendingRequests')
<1>1. rewinds \in Nat
      BY DEF Typed, TypeOK
<1>2. CASE NewChat \/ Remount \/ LoseReply \/ Carry \/ Deliver
  <2>1. CASE NewChat \/ Remount \/ LoseReply
        BY <2>1 DEF NewChat, OpenTab, Remount, LoseReply, channelVars, troubles
  <2>2. CASE Carry
        BY <2>2 DEF Carry, Channel!Put, uiVars, troubles
  <2>3. CASE Deliver
    <3>1. UNCHANGED rewinds
          BY <2>3 DEF Deliver, troubles
    <3>. QED BY <2>3, <3>1
  <2>. QED BY <1>2, <2>1, <2>2, <2>3
<1>3. CASE Crash \/ Rewind
      BY <1>1, <1>3 DEF Crash, Rewind
<1>4. CASE \/ \E s \in Sessions : OpenPast(s)
           \/ \E t \in DOMAIN tabs : CloseTab(t)
           \/ \E t \in DOMAIN tabs : \E r \in Requests : SendMessage(t, r)
           \/ \E t \in DOMAIN tabs : \E kind \in {"commit", "reject"} : Decide(t, kind)
      BY <1>4 DEF OpenPast, OpenTab, CloseTab, SendMessage, Decide, channelVars, troubles
<1>5. CASE \E r \in Requests : Acknowledged(r) \/ NotSent(r) \/ Accept(r) \/ Refuse(r)
      BY <1>5 DEF Acknowledged, NotSent, Accept, Refuse, channelVars, troubles
<1>6. CASE \E r \in Requests : Answer(r) \/ Propose(r)
      BY <1>6 DEF Answer, Propose, Channel!Say, uiVars, troubles
<1>7. CASE \E r \in Requests : CommitElsewhere(r) \/ RejectElsewhere(r)
      BY <1>7 DEF CommitElsewhere, RejectElsewhere, Reject, Channel!Say, channelVars, troubles
<1>8. CASE \E c \in calls : Decided(c) \/ CommitCall(c) \/ CommitMissing(c) \/ RejectCall(c)
      BY <1>8 DEF Decided, CommitCall, CommitMissing, RejectCall, Reject, Channel!Say, channelVars, troubles
<1>9. CASE \E h \in handlers : ExecuteStep(h) \/ CommitEnds(h)
      BY <1>9 DEF ExecuteStep, CommitEnds, Channel!Say, channelVars, uiVars, troubles
<1>. QED BY <1>2, <1>3, <1>4, <1>5, <1>6, <1>7, <1>8, <1>9 DEF Acts

\* A turn is registered until its outcome is taken.
LEMMA OutcomesStayAwaited ==
    ASSUME Typed, OneOutcome, OutcomesAwaited, Acts PROVE OutcomesAwaited'
<1>. SUFFICES ASSUME rewinds' = 0, NEW n \in DOMAIN said', n > taken', said'[n] \in TurnMessages
              PROVE  said'[n].turn \in pendingRequests'
     BY DEF OutcomesAwaited
<1>1. /\ said \in Seq(Messages) /\ \A k \in DOMAIN said : said[k] \in Messages
      /\ \A h \in handlers : h.plan \in Requests
      /\ taken \in Nat
      BY DEF Typed, TypeOK, Channel!TypeOK
<1>2. rewinds = 0 /\ (Deliver \/ (taken' = taken /\ pendingRequests \subseteq pendingRequests'))
      BY ActsOnTaken
<1>3. CASE n \in DOMAIN said /\ said'[n] = said[n]
  <2>1. CASE taken' = taken /\ pendingRequests \subseteq pendingRequests'
        BY <1>2, <1>3, <2>1 DEF OutcomesAwaited
  <2>2. CASE Deliver
    <3>. DEFINE k == Head(feed)
    <3>1. k \in DOMAIN said /\ k > taken /\ said[k] \in Messages /\ taken' = k
          BY <2>2, TakenIsMessage DEF Deliver, Channel!Take
    <3>2. pendingRequests' = pendingRequests \ (IF said[k] \in TurnMessages THEN {said[k].turn} ELSE {})
          BY <2>2 DEF Deliver
    <3>3. k \in Int /\ n \in Int
          BY <1>1, <1>3, <3>1
    <3>. HIDE DEF k
    <3>4. n > taken /\ n # k
          BY <1>1, <3>1, <3>3
    <3>5. said[n].turn \in pendingRequests
          BY <1>2, <1>3, <3>4 DEF OutcomesAwaited
    <3>6. said[k] \in TurnMessages => said[k].turn # said[n].turn
          BY <1>3, <3>1, <3>4 DEF OneOutcome
    <3>. QED BY <1>3, <3>2, <3>5, <3>6
  <2>. QED BY <1>2, <2>1, <2>2
<1>4. ASSUME NEW r \in Requests, NEW kind, Says(kind, r),
             kind \in {"plan_committed", "plan_rejected"} \/ agent[r] = "thinking"
      PROVE  said'[n].turn \in pendingRequests'
  <2>1. /\ DOMAIN said = 1..Len(said) /\ DOMAIN said' = 1..(Len(said) + 1) /\ Len(said) \in Nat
        /\ \A k \in DOMAIN said : said'[k] = said[k]
        /\ said'[Len(said) + 1].kind = kind /\ said'[Len(said) + 1].turn = r
        BY <1>4, SaidMore
  <2>2. CASE n \in DOMAIN said
        BY <1>3, <2>1, <2>2
  <2>3. CASE n = Len(said) + 1
    <3>1. agent[r] = "thinking"
          BY <1>4, <2>1, <2>3 DEF TurnMessages
    <3>2. r \in pendingRequests
          BY <3>1 DEF Typed, Stages, Turns
    <3>3. ~Deliver
      <4>1. said' # said
            BY <2>1
      <4>. QED BY <4>1 DEF Deliver, Channel!Take
    <3>. QED BY <1>2, <2>1, <2>3, <3>2, <3>3
  <2>. QED BY <2>1, <2>2, <2>3
<1>. QED BY <1>1, <1>3, <1>4, ActsSayOnce DEF SaysOnce

\* Steps after which as many turns are awaited as before, in the tabs there are.
LEMMA AwaitedLeftAlone ==
    ASSUME Typed, LoadingAwaits, pendingRequests' = pendingRequests,
           \A r \in Turns : /\ ask'[r].tab = ask[r].tab
                            /\ ask'[r].at # "over" \/ agent'[r] # "none" <=> ask[r].at # "over" \/ agent[r] # "none",
           \A t \in DOMAIN tabs : t \in DOMAIN tabs' /\ tabs'[t].loading = tabs[t].loading,
           \A t \in DOMAIN tabs' \ DOMAIN tabs : ~tabs'[t].loading
    PROVE  LoadingAwaits'
<1>1. \A r \in pendingRequests : r \in Turns /\ ask[r].tab \in DOMAIN tabs
      BY DEF Typed, Stages, Turns, TypeOK
<1>2. \A t : Awaited(t)' = Awaited(t)
      BY <1>1 DEF Awaited
<1>3. \A t \in DOMAIN tabs' \ DOMAIN tabs : Awaited(t) = {}
      BY <1>1 DEF Awaited
<1>4. \A t \in DOMAIN tabs : (tabs[t].loading <=> Awaited(t) # {}) /\ \A r, q \in Awaited(t) : r = q
      BY DEF LoadingAwaits
<1>5. \A t \in DOMAIN tabs' \ DOMAIN tabs : tabs'[t].loading <=> Awaited(t)' # {}
      BY <1>2, <1>3
<1>6. ASSUME NEW t \in DOMAIN tabs'
      PROVE  (tabs'[t].loading <=> Awaited(t)' # {}) /\ \A r, q \in Awaited(t)' : r = q
      BY <1>2, <1>3, <1>4, <1>5
<1>. QED BY <1>6 DEF LoadingAwaits

\* A turn is resolved in its tab.
LEMMA AwaitedResolved ==
    ASSUME Typed, LoadingAwaits, DOMAIN tabs' = DOMAIN tabs,
           NEW r \in Requests, NEW t \in DOMAIN tabs, r \in Awaited(t),
           \A u \in DOMAIN tabs : tabs'[u].loading = (u # t /\ tabs[u].loading),
           \A u \in DOMAIN tabs : Awaited(u)' = Awaited(u) \ {r}
    PROVE  LoadingAwaits'
<1>1. \A u \in DOMAIN tabs : (tabs[u].loading <=> Awaited(u) # {}) /\ \A p, q \in Awaited(u) : p = q
      BY DEF LoadingAwaits
<1>2. Awaited(t)' = {}
      BY <1>1
<1>3. \A u \in DOMAIN tabs \ {t} : r \notin Awaited(u)
      BY DEF Awaited
<1>4. ASSUME NEW u \in DOMAIN tabs
      PROVE  (tabs'[u].loading <=> Awaited(u)' # {}) /\ \A p, q \in Awaited(u)' : p = q
  <2>1. CASE u = t
        BY <1>2, <2>1
  <2>2. CASE u # t
    <3>1. Awaited(u)' = Awaited(u) /\ (tabs'[u].loading <=> tabs[u].loading)
          BY <1>3, <2>2
    <3>. QED BY <1>1, <3>1
  <2>. QED BY <2>1, <2>2
<1>. QED BY <1>4 DEF LoadingAwaits

\* Tabs wait for what they await, whatever happens.
LEMMA LoadingStays ==
    ASSUME Typed, TabsAgree, OutcomesAwaited, LoadingAwaits, Acts, lost' = 0, rewinds' = 0
    PROVE  LoadingAwaits'
<1>1. /\ pendingRequests \subseteq Requests /\ pendingRequests \subseteq Turns
      /\ \A r \in Turns : r \in Requests /\ ask[r].tab \in DOMAIN tabs
      BY TabTypes DEF Typed, TypeOK, Stages, Turns
<1>2. ASSUME UNCHANGED <<ask, agent, pendingRequests>>,
             \A t \in DOMAIN tabs : t \in DOMAIN tabs' /\ tabs'[t].loading = tabs[t].loading,
             \A t \in DOMAIN tabs' \ DOMAIN tabs : ~tabs'[t].loading
      PROVE  LoadingAwaits'
      BY <1>2, AwaitedLeftAlone
<1>3. ASSUME UNCHANGED <<ask, agent, pendingRequests, tabs>> PROVE LoadingAwaits'
      BY <1>2, <1>3
<1>4. ASSUME NEW tab, OpenTab(tab), ~tab.loading PROVE LoadingAwaits'
  <2>1. /\ \A t \in DOMAIN tabs : t \in DOMAIN tabs' /\ tabs'[t] = tabs[t]
        /\ \A t \in DOMAIN tabs' \ DOMAIN tabs : tabs'[t] = tab
        BY <1>4, TabTypes DEF OpenTab, Typed, TypeOK
  <2>2. UNCHANGED <<ask, agent, pendingRequests>>
        BY <1>4 DEF OpenTab, serverVars
  <2>. QED BY <1>2, <1>4, <2>1, <2>2
<1>5. CASE NewChat \/ \E s \in Sessions : OpenPast(s)
      BY <1>4, <1>5 DEF NewChat, OpenPast
<1>6. CASE \E t \in DOMAIN tabs : CloseTab(t)
  <2>1. UNCHANGED <<ask, agent, pendingRequests>> /\ DOMAIN tabs' = DOMAIN tabs
        BY <1>6 DEF CloseTab, serverVars
  <2>2. \A t \in DOMAIN tabs : tabs'[t].loading = tabs[t].loading
        BY <1>6, TabTypes DEF CloseTab, ChatTab
  <2>. QED BY <1>2, <2>1, <2>2
<1>7. CASE \E c \in calls : Decided(c)
  <2>1. PICK c \in calls : Decided(c)
        BY <1>7
  <2>2. /\ UNCHANGED <<ask, agent, pendingRequests>>
        /\ UNCHANGED tabs \/ tabs' = [tabs EXCEPT ![c.tab].plan = None]
        BY <2>1 DEF Decided, serverVars
  <2>3. CASE tabs' = [tabs EXCEPT ![c.tab].plan = None]
    <3>1. DOMAIN tabs' = DOMAIN tabs
          BY <2>3
    <3>2. \A t \in DOMAIN tabs : tabs'[t].loading = tabs[t].loading
          BY <2>3, TabTypes DEF ChatTab
    <3>. QED BY <1>2, <2>2, <3>1, <3>2
  <2>. QED BY <1>3, <2>2, <2>3
<1>8. ASSUME NEW t \in DOMAIN tabs, NEW r \in Requests, SendMessage(t, r) PROVE LoadingAwaits'
  <2>1. /\ ask[r].at = "unsent" /\ ~tabs[t].loading /\ r \notin pendingRequests
        /\ ask' = [ask EXCEPT ![r] = [at |-> "posted", tab |-> t]]
        /\ pendingRequests' = pendingRequests \union {r}
        /\ agent' = agent /\ DOMAIN tabs' = DOMAIN tabs
        BY <1>1, <1>8 DEF SendMessage, MaySend, Turns
  <2>2. \A u \in DOMAIN tabs : tabs'[u].loading = (IF u = t THEN TRUE ELSE tabs[u].loading)
        BY <1>8, TabTypes DEF SendMessage, ChatTab
  <2>3. /\ ask'[r].at = "posted" /\ ask'[r].tab = t
        /\ \A q \in Requests \ {r} : ask'[q] = ask[q]
        BY <2>1, TabTypes
  <2>4. \A u \in DOMAIN tabs : Awaited(u)' = IF u = t THEN Awaited(u) \union {r} ELSE Awaited(u)
        BY <1>1, <2>1, <2>3 DEF Awaited
  <2>5. Awaited(t) = {}
        BY <2>1 DEF LoadingAwaits
  <2>6. \A u \in DOMAIN tabs : (tabs[u].loading <=> Awaited(u) # {}) /\ \A p, q \in Awaited(u) : p = q
        BY DEF LoadingAwaits
  <2>7. ASSUME NEW u \in DOMAIN tabs
        PROVE  (tabs'[u].loading <=> Awaited(u)' # {}) /\ \A p, q \in Awaited(u)' : p = q
    <3>1. CASE u = t
          BY <2>2, <2>4, <2>5, <3>1
    <3>2. CASE u # t
      <4>1. Awaited(u)' = Awaited(u) /\ (tabs'[u].loading <=> tabs[u].loading)
            BY <2>2, <2>4, <3>2
      <4>. QED BY <2>6, <4>1
    <3>. QED BY <3>1, <3>2
  <2>. QED BY <2>1, <2>7 DEF LoadingAwaits
<1>9. ASSUME NEW r \in Requests, Acknowledged(r) PROVE LoadingAwaits'
  <2>1. /\ agent[r] # "none" /\ ask[r].at = "accepted"
        /\ ask' = [ask EXCEPT ![r].at = "over"] /\ UNCHANGED <<agent, pendingRequests>>
        /\ tabs' = [tabs EXCEPT ![ask[r].tab] = Bound(@, conv[r])]
        BY <1>9, TabTypes DEF Acknowledged, Stages, serverVars
  <2>2. DOMAIN tabs' = DOMAIN tabs /\ \A t \in DOMAIN tabs : tabs'[t].loading = tabs[t].loading
        BY <2>1, TabTypes DEF Bound, ChatTab
  <2>3. \A q \in Turns : /\ ask'[q].tab = ask[q].tab
                         /\ ask'[q].at # "over" \/ agent'[q] # "none" <=> ask[q].at # "over" \/ agent[q] # "none"
        BY <1>1, <2>1, TabTypes
  <2>. QED BY <2>1, <2>2, <2>3, AwaitedLeftAlone
<1>10. ASSUME NEW r \in Requests, NotSent(r) PROVE LoadingAwaits'
  <2>. DEFINE t == ask[r].tab
  <2>1. /\ ask[r].at = "failed" /\ t \in DOMAIN tabs /\ r \in Turns /\ agent[r] = "none" /\ r \in pendingRequests
        /\ ask' = [ask EXCEPT ![r].at = "over"] /\ UNCHANGED <<agent, pendingRequests>>
        /\ tabs' = [tabs EXCEPT ![t].loading = FALSE]
        BY <1>10, TabTypes DEF NotSent, Stages, Turns, serverVars, TabsAgree, SessionsAgree
  <2>2. DOMAIN tabs' = DOMAIN tabs /\ \A u \in DOMAIN tabs : tabs'[u].loading = (u # t /\ tabs[u].loading)
        BY <2>1, TabTypes DEF ChatTab
  <2>3. /\ ask'[r].at = "over"
        /\ \A q \in Requests \ {r} : ask'[q] = ask[q]
        BY <2>1, TabTypes
  <2>4. \A u \in DOMAIN tabs : Awaited(u)' = Awaited(u) \ {r}
        BY <1>1, <2>1, <2>3 DEF Awaited
  <2>5. r \in Awaited(t)
        BY <2>1 DEF Awaited
  <2>. QED BY <2>1, <2>2, <2>4, <2>5, AwaitedResolved
<1>11. CASE \E r \in Requests : Accept(r) \/ Refuse(r)
  <2>1. PICK r \in Requests : Accept(r) \/ Refuse(r)
        BY <1>11
  <2>2. /\ ask[r].at = "posted" /\ UNCHANGED <<tabs, pendingRequests>>
        /\ ask' = [ask EXCEPT ![r].at = "accepted"] \/ ask' = [ask EXCEPT ![r].at = "failed"]
        /\ agent' = [agent EXCEPT ![r] = "thinking"] \/ agent' = agent
        BY <2>1 DEF Accept, Refuse, serverVars
  <2>3. \A q \in Turns : /\ ask'[q].tab = ask[q].tab
                         /\ ask'[q].at # "over" \/ agent'[q] # "none" <=> ask[q].at # "over" \/ agent[q] # "none"
    <3>1. /\ ask'[r].tab = ask[r].tab /\ ask'[r].at # "over" /\ ask[r].at # "over"
          /\ \A q \in Requests \ {r} : ask'[q] = ask[q]
          BY <2>2, TabTypes
    <3>2. \A q \in Requests \ {r} : agent'[q] = agent[q]
          BY <2>2, TabTypes
    <3>. QED BY <1>1, <3>1, <3>2
  <2>. QED BY <2>2, <2>3, AwaitedLeftAlone
<1>12. CASE \E r \in Requests : Answer(r) \/ Propose(r)
  <2>1. PICK r \in Requests : /\ agent[r] = "thinking" /\ agent' = [agent EXCEPT ![r] = "over"]
                              /\ UNCHANGED <<ask, tabs, pendingRequests>>
        BY <1>12 DEF Answer, Propose, uiVars
  <2>2. \A q \in Turns : /\ ask'[q].tab = ask[q].tab
                         /\ ask'[q].at # "over" \/ agent'[q] # "none" <=> ask[q].at # "over" \/ agent[q] # "none"
        BY <1>1, <2>1, TabTypes
  <2>. QED BY <2>1, <2>2, AwaitedLeftAlone
<1>13. CASE Crash
  <2>1. /\ ask' = [r \in Requests |-> IF ask[r].at = "posted" THEN [ask[r] EXCEPT !.at = "failed"] ELSE ask[r]]
        /\ agent' = [r \in Requests |-> IF agent[r] = "thinking" THEN "over" ELSE agent[r]]
        /\ UNCHANGED <<tabs, pendingRequests>>
        BY <1>13 DEF Crash
  <2>2. \A q \in Turns : /\ ask'[q].tab = ask[q].tab
                         /\ ask'[q].at # "over" \/ agent'[q] # "none" <=> ask[q].at # "over" \/ agent[q] # "none"
        BY <1>1, <2>1, TabTypes
  <2>. QED BY <2>1, <2>2, AwaitedLeftAlone
<1>14. CASE Deliver
  <2>. DEFINE m == said[Head(feed)]
  <2>1. /\ m \in Messages /\ m.turn \in Requests /\ agent[m.turn] = "over"
        BY <1>14, TakenByItsTabs
  <2>2. m \in TurnMessages => m.turn \in pendingRequests
        BY <1>14, TakenIsMessage, ActsOnTaken DEF Deliver, OutcomesAwaited
  <2>3. /\ UNCHANGED <<ask, agent>>
        /\ tabs' = [t \in DOMAIN tabs |-> IF t \in Addressees(m) THEN Applied(tabs[t], m) ELSE tabs[t]]
        /\ pendingRequests' = pendingRequests \ (IF m \in TurnMessages THEN {m.turn} ELSE {})
        BY <1>14 DEF Deliver, serverVars
  <2>. HIDE DEF m
  <2>4. CASE m \in TurnMessages
    <3>. DEFINE r == m.turn
                t == ask[r].tab
    <3>1. Addressees(m) = {t} /\ t \in DOMAIN tabs /\ r \in Awaited(t)
          BY <1>1, <2>1, <2>2, <2>4 DEF Addressees, Awaited
    <3>2. DOMAIN tabs' = DOMAIN tabs /\ \A u \in DOMAIN tabs : tabs'[u].loading = (u # t /\ tabs[u].loading)
      <4>1. ASSUME NEW u \in DOMAIN tabs PROVE tabs'[u].loading = (u # t /\ tabs[u].loading)
        <5>1. tabs[u] \in ChatTab /\ tabs'[u] = IF u = t THEN Applied(tabs[u], m) ELSE tabs[u]
              BY <2>3, <3>1, TabTypes
        <5>2. CASE u # t
              BY <5>1, <5>2 DEF ChatTab
        <5>3. CASE u = t
          <6>1. Bound(tabs[u], m.session) \in ChatTab
                BY <2>4, <5>1, TabChanged DEF TurnMessages
          <6>2. Applied(tabs[u], m).loading = FALSE
                BY <2>4, <6>1 DEF TurnMessages, Applied, ChatTab
          <6>. QED BY <5>1, <5>3, <6>2
        <5>. QED BY <5>2, <5>3
      <4>. QED BY <2>3, <4>1
    <3>3. pendingRequests' = pendingRequests \ {r} /\ UNCHANGED <<ask, agent>>
          BY <2>3, <2>4
    <3>4. \A u \in DOMAIN tabs : Awaited(u)' = Awaited(u) \ {r}
          BY <3>3 DEF Awaited
    <3>. QED BY <2>1, <3>1, <3>2, <3>4, AwaitedResolved
  <2>5. CASE m \notin TurnMessages
    <3>1. m \in PlanMessages
          BY <2>1, <2>5 DEF Messages
    <3>2. \A t \in DOMAIN tabs : Applied(tabs[t], m).loading = tabs[t].loading
          BY <3>1, TabTypes DEF PlanMessages, Applied, ChatTab
    <3>3. DOMAIN tabs' = DOMAIN tabs /\ \A t \in DOMAIN tabs : tabs'[t].loading = tabs[t].loading
          BY <2>3, <3>2
    <3>4. pendingRequests' = pendingRequests
          BY <2>3, <2>5
    <3>. QED BY <1>2, <2>3, <3>3, <3>4
  <2>. QED BY <2>4, <2>5
<1>15. CASE LoseReply
       BY <1>15 DEF LoseReply, Typed, TypeOK
<1>16. CASE \/ Carry \/ Rewind \/ Remount
            \/ \E t \in DOMAIN tabs : \E kind \in {"commit", "reject"} : Decide(t, kind)
       BY <1>3, <1>16 DEF Carry, Rewind, Remount, Decide, serverVars, uiVars
<1>17. CASE \/ \E r \in Requests : CommitElsewhere(r) \/ RejectElsewhere(r)
            \/ \E c \in calls : CommitCall(c) \/ CommitMissing(c) \/ RejectCall(c)
       BY <1>3, <1>17 DEF CommitElsewhere, RejectElsewhere, CommitCall, CommitMissing, RejectCall, serverVars
<1>18. CASE \E h \in handlers : ExecuteStep(h) \/ CommitEnds(h)
       BY <1>3, <1>18 DEF ExecuteStep, CommitEnds, uiVars
<1>. QED BY <1>5, <1>6, <1>7, <1>8, <1>9, <1>10, <1>11, <1>12, <1>13, <1>14, <1>15, <1>16, <1>17, <1>18 DEF Acts

-----------------------------------------------------------------------------
(* All of it together.                                                     *)

WindowInv == TypedPlans /\ Tabs /\ OneOutcome /\ OutcomesAwaited /\ Loading

LEMMA WindowInitially == Init => WindowInv
<1>. SUFFICES ASSUME Init PROVE WindowInv
     OBVIOUS
<1>1. TypedPlans
      BY TypedPlansInitially
<1>. USE DEF Init, Channel!Init
<1>2. Tabs
      BY DEF Tabs, FirstTurns, SessionsAgree, TalkAgrees, Turns
<1>3. OneOutcome /\ OutcomesAwaited /\ Loading
      BY DEF OneOutcome, OutcomesAwaited, Loading, LoadingAwaits
<1>. QED BY <1>1, <1>2, <1>3 DEF WindowInv

LEMMA WindowKept == WindowInv /\ [Next]_vars => WindowInv'
<1>. SUFFICES ASSUME WindowInv, [Next]_vars PROVE WindowInv'
     OBVIOUS
<1>1. TypedPlans'
      BY TypedPlansKept DEF WindowInv
<1>2. CASE UNCHANGED vars
  <2>1. /\ UNCHANGED <<said, feed, taken, ask, conv, agent>>
        /\ UNCHANGED <<tabs, pendingRequests, lost, rewinds>>
        BY <1>2 DEF vars, channelVars, serverVars, uiVars, troubles
  <2>. QED BY <1>1, <2>1 DEF WindowInv, Tabs, FirstTurns, SessionsAgree, TalkAgrees, Turns, OneOutcome, OutcomesAwaited,
                             Loading, LoadingAwaits, Awaited
<1>3. CASE Next
  <2>1. Acts /\ Typed
        BY <1>3, NextIsActs DEF WindowInv, TypedPlans
  <2>2. OneOutcome' /\ OutcomesAwaited'
        BY <2>1, OneOutcomeKept, OutcomesStayAwaited DEF WindowInv
  <2>3. /\ lost' = 0 => lost = 0
        /\ rewinds' = 0 => rewinds = 0
        BY <2>1, ActsOnTroubles DEF TroubleSteps, troubles, Typed, TypeOK
  <2>4. Tabs'
        BY <2>1, <2>3, TabsStayAgreed DEF WindowInv, Tabs, TabsAgree
  <2>5. Loading'
        BY <2>1, <2>3, LoadingStays DEF WindowInv, Tabs, TabsAgree, Loading
  <2>. QED BY <1>1, <2>2, <2>4, <2>5 DEF WindowInv
<1>. QED BY <1>2, <1>3

LEMMA AlwaysWindowInv == Spec => []WindowInv
<1>1. WindowInv /\ [Next]_vars => WindowInv'
      BY WindowKept
<1>. QED BY <1>1, WindowInitially, PTL DEF Spec

\* The messages that a tab shows are of the session it sends to, in whatever
\* order tabs are closed and sessions opened again, and answers and
\* acknowledgements arrive, as long as no reply to a POST is lost.
THEOREM ChatOneConversationPerTab == Spec => []OneConversationPerTab
<1>1. WindowInv => OneConversationPerTab
      BY DEF WindowInv, Tabs, TalkAgrees, OneConversationPerTab, Open
<1>. QED BY <1>1, AlwaysWindowInv, PTL

\* The input of a tab is disabled exactly while one turn of it is unresolved, as
\* long as no reply is lost and no message comes twice.
THEOREM ChatLoadingIsOneTurn == Spec => []LoadingIsOneTurn
<1>1. ASSUME WindowInv PROVE LoadingIsOneTurn
  <2>1. SUFFICES ASSUME lost = 0, rewinds = 0, NEW t \in Open
                 PROVE  Cardinality(Awaited(t)) = (IF tabs[t].loading THEN 1 ELSE 0)
        BY DEF LoadingIsOneTurn, Awaited
  <2>2. (tabs[t].loading <=> Awaited(t) # {}) /\ \A r, q \in Awaited(t) : r = q
        BY <1>1, <2>1 DEF WindowInv, Loading, LoadingAwaits, Open
  <2>3. CASE Awaited(t) = {}
        BY <2>2, <2>3, FS_EmptySet
  <2>4. CASE Awaited(t) # {}
    <3>1. PICK r \in Awaited(t) : Awaited(t) = {r}
          BY <2>2, <2>4
    <3>. QED BY <2>2, <3>1, FS_Singleton
  <2>. QED BY <2>3, <2>4
<1>. QED BY <1>1, AlwaysWindowInv, PTL

\* To the chat the push channel is the lossy feed in order of UserFeed, which
\* WsChannel implements for every window: no action of the chat, not even the
\* death of the server, asks more of it.
THEOREM ChatUsesTheFeed == Spec => Channel!Spec
<1>1. Init => Channel!Init
      BY DEF Init
<1>2. TypedPlans /\ [Next]_vars => [Channel!Next]_(Channel!vars)
  <2>. SUFFICES ASSUME TypedPlans, [Next]_vars PROVE Channel!Next \/ UNCHANGED Channel!vars
       OBVIOUS
  <2>1. CASE UNCHANGED vars
        BY <2>1 DEF vars, channelVars, Channel!vars
  <2>2. CASE Next
    <3>1. ChannelSteps
          BY <2>2, NextIsActs, ActsOnChannel DEF TypedPlans
    <3>. QED BY <3>1 DEF ChannelSteps, channelVars, Channel!vars, Channel!Next, Channel!Lose
  <2>. QED BY <2>1, <2>2
<1>. QED BY <1>1, <1>2, AlwaysTypedPlans, PTL DEF Spec, Channel!Spec
=============================================================================
