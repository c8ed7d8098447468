-------------------------------- MODULE AgentChat --------------------------------
(***************************************************************************)
(* The chat with the AI agent and the approval of what it wants to write:  *)
(*                                                                         *)
(*   api/app/routers/ai.py                chat_via_ws, commit_plan,        *)
(*                                        reject_plan, _pending_plans      *)
(*   ui/src/components/layout/RightPanel.tsx   the panel of chat tabs      *)
(*   ui/src/store/index.ts, ui/src/hooks/useWebSocket.ts   its state       *)
(*                                                                         *)
(* A turn is a POST /ai/chat/ws that starts an agent run; the outcome      *)
(* comes over the push channel (UserFeed) as an answer, as an error or as  *)
(* a plan: writes that are executed once the user approves them.  One      *)
(* window is modelled in full.  What the user does with a plan in another  *)
(* window that was shown it is "elsewhere".                                *)
(*                                                                         *)
(* A turn is named by its request_id, a chat session by the turn that      *)
(* created it and a plan by the turn that proposed it.                     *)
(***************************************************************************)
EXTENDS Integers, Sequences, FiniteSets

CONSTANTS
    Requests,       \* turns the window may ask for
    MaxTabs,        \* MAX_CHAT_TABS
    MaxPlans,       \* _MAX_PENDING_PLANS
    PlanSteps,      \* steps of a plan
    MaxOpened,      \* bound: tabs opened
    MaxSaid,        \* bound: messages sent
    MaxTroubles     \* bound: remounts, lost replies, rewinds and crashes in all

ASSUME LimitsAssumption == {MaxTabs, MaxPlans, PlanSteps} \subseteq Nat \ {0}
ASSUME BoundsAssumption == {MaxOpened, MaxSaid, MaxTroubles} \subseteq Nat
ASSUME NoneAssumption == "none" \notin Requests

VARIABLES
    said, feed, taken,      \* the channel (UserFeed)
    ask,                    \* the POST /ai/chat/ws of each turn, and the tab it is for
    conv,                   \* the session_id of each turn
    agent,                  \* run_agent of each turn
    pending,                \* _pending_plans, oldest first
    handlers,               \* commit_plan in its loop, and the step it executes next
    ran,                    \* the steps executed of each plan, in order
    decided,                \* what the user has clicked for a plan, in any window
    tabs,                   \* chatTabs, in the order opened; a closed one is not "open"
    pendingRequests,        \* the turns registered and not yet resolved
    calls,                  \* commits and rejects this window waits for
    remounts,               \* times the panel was closed and opened
    lost,                   \* HTTP replies that never reached the window
    rewinds,                \* reconnections that may bring back messages already taken
    crashes                 \* deaths of the server process

None == "none"
OptRequest == Requests \union {None}

TurnMessages == [kind : {"agent_done", "plan_proposed", "error"}, turn : Requests, session : Requests]
PlanMessages == [kind : {"plan_committed", "plan_rejected"}, turn : Requests, session : Requests]
Messages == TurnMessages \union PlanMessages

Channel == INSTANCE UserFeed

channelVars == <<said, feed, taken>>
serverVars == <<conv, agent, pending, handlers, ran>>
uiVars == <<ask, decided, tabs, pendingRequests, calls>>
troubles == <<remounts, lost, rewinds, crashes>>
vars == <<channelVars, serverVars, uiVars, troubles>>

-----------------------------------------------------------------------------
\* ChatTab.  "talk": the sessions whose messages it shows.
ChatTab == [open : BOOLEAN, session : OptRequest, loading : BOOLEAN, plan : OptRequest,
            talk : SUBSET Requests]

\* A commit or a reject.  "ours": made since the panel was last opened, so
\* that its planBusy knows of it.
Call == [kind : {"commit", "reject"}, plan : Requests, tab : 1..MaxOpened, ours : BOOLEAN,
         reply : {"waiting", "running", "ok", "failed"}]

\* The types, and the limits of chatTabs and _pending_plans.
TypeOK ==
    /\ Channel!TypeOK
    /\ ask \in [Requests -> [at : {"unsent", "posted", "accepted", "failed", "over"}, tab : 0..MaxOpened]]
    /\ conv \in [Requests -> OptRequest]
    /\ agent \in [Requests -> {"none", "thinking", "over"}]
    /\ pending \in Seq(Requests) /\ Len(pending) <= MaxPlans
    /\ handlers \subseteq [plan : Requests, next : 1..(PlanSteps + 1)]
    /\ ran \in [Requests -> Seq(1..PlanSteps)]
    /\ decided \subseteq Requests \X {"commit", "reject"}
    /\ tabs \in Seq(ChatTab) /\ Len(tabs) <= MaxOpened
    /\ Cardinality({t \in DOMAIN tabs : tabs[t].open}) <= MaxTabs
    /\ pendingRequests \subseteq Requests
    /\ calls \subseteq Call
    /\ {remounts, lost, rewinds, crashes} \subseteq Nat
    /\ remounts + lost + rewinds + crashes <= MaxTroubles

Init ==
    /\ Channel!Init
    /\ ask = [r \in Requests |-> [at |-> "unsent", tab |-> 0]]
    /\ conv = [r \in Requests |-> None]
    /\ agent = [r \in Requests |-> "none"]
    /\ pending = <<>> /\ handlers = {}
    /\ ran = [r \in Requests |-> <<>>]
    /\ decided = {} /\ calls = {}
    /\ tabs = <<>> /\ pendingRequests = {}
    /\ remounts = 0 /\ lost = 0 /\ rewinds = 0 /\ crashes = 0

-----------------------------------------------------------------------------
(* The panel.                                                              *)

Open == {t \in DOMAIN tabs : tabs[t].open}
Sessions == {conv[r] : r \in Requests} \ {None}

OpenTab(tab) ==
    /\ Cardinality(Open) < MaxTabs
    /\ Len(tabs) < MaxOpened
    /\ tabs' = Append(tabs, tab)
    /\ UNCHANGED <<channelVars, serverVars, ask, decided, pendingRequests, calls, troubles>>

\* handleNewTab
NewChat ==
    OpenTab([open |-> TRUE, session |-> None, loading |-> FALSE, plan |-> None, talk |-> {}])

\* openPastSession: a session that some tab holds is not opened again.
OpenPast(s) ==
    /\ \A t \in Open : tabs[t].session # s
    /\ OpenTab([open |-> TRUE, session |-> s, loading |-> FALSE, plan |-> None, talk |-> {s}])

\* closeChatTab: pendingRequests keeps what it says of the tab.
CloseTab(t) ==
    /\ t \in Open
    /\ tabs' = [tabs EXCEPT ![t].open = FALSE]
    /\ UNCHANGED <<channelVars, serverVars, ask, decided, pendingRequests, calls, troubles>>

\* Mutated form of MaySend: the input is not disabled while a turn is under way.
MaySendAlways(t) == t \in Open

MaySend(t) == t \in Open /\ ~tabs[t].loading

SendMessage(t, r) ==
    /\ MaySend(t)
    /\ ask[r].at = "unsent"
    /\ ask' = [ask EXCEPT ![r] = [at |-> "posted", tab |-> t]]
    /\ conv' = [conv EXCEPT ![r] = tabs[t].session]
    /\ tabs' = [tabs EXCEPT ![t].loading = TRUE]
    /\ pendingRequests' = pendingRequests \union {r}
    /\ UNCHANGED <<channelVars, agent, pending, handlers, ran, decided, calls, troubles>>

\* bindTabSession: the first session a tab hears of is its session.
Bound(tab, s) == [tab EXCEPT !.session = IF tab.session = None THEN s ELSE @]

\* The rest of sendMessage: the acknowledgement, or its failure.
Acknowledged(r) ==
    /\ ask[r].at = "accepted"
    /\ ask' = [ask EXCEPT ![r].at = "over"]
    /\ tabs' = [tabs EXCEPT ![ask[r].tab] = Bound(@, conv[r])]
    /\ UNCHANGED <<channelVars, serverVars, decided, pendingRequests, calls, troubles>>

NotSent(r) ==
    /\ ask[r].at = "failed"
    /\ ask' = [ask EXCEPT ![r].at = "over"]
    /\ tabs' = [tabs EXCEPT ![ask[r].tab].loading = FALSE]
    /\ UNCHANGED <<channelVars, serverVars, decided, pendingRequests, calls, troubles>>

\* The card of a proposed plan.
Card(t) == t \in Open /\ tabs[t].plan # None

\* planBusy disables the buttons of every tab's card.
PlanBusy == \E c \in calls : c.ours

\* approvePlan and rejectPlan, to their await.
Decide(t, kind) ==
    /\ Card(t) /\ ~PlanBusy
    /\ calls' = calls \union
                  {[kind |-> kind, plan |-> tabs[t].plan, tab |-> t, ours |-> TRUE, reply |-> "waiting"]}
    /\ decided' = decided \union {<<tabs[t].plan, kind>>}
    /\ UNCHANGED <<channelVars, serverVars, ask, tabs, pendingRequests, troubles>>

\* Their rest: a reject, or a commit that failed, takes down the card,
\* whatever plan it now shows.
Decided(c) ==
    /\ c.reply \in {"ok", "failed"}
    /\ calls' = calls \ {c}
    /\ tabs' = IF c.kind = "reject" \/ c.reply = "failed"
                 THEN [tabs EXCEPT ![c.tab].plan = None] ELSE tabs
    /\ UNCHANGED <<channelVars, serverVars, ask, decided, pendingRequests, troubles>>

Troubled == remounts + lost + rewinds + crashes < MaxTroubles

\* The panel is closed and opened again: planBusy starts as FALSE.
Remount ==
    /\ Troubled
    /\ remounts' = remounts + 1
    /\ calls' = {[c EXCEPT !.ours = FALSE] : c \in calls}
    /\ UNCHANGED <<channelVars, serverVars, ask, decided, tabs, pendingRequests, lost, rewinds, crashes>>

-----------------------------------------------------------------------------
(* The server.                                                             *)

\* chat_via_ws, to the start of the agent.
Accept(r) ==
    /\ ask[r].at = "posted"
    /\ ask' = [ask EXCEPT ![r].at = "accepted"]
    /\ conv' = [conv EXCEPT ![r] = IF @ = None THEN r ELSE @]
    /\ agent' = [agent EXCEPT ![r] = "thinking"]
    /\ UNCHANGED <<channelVars, pending, handlers, ran, decided, tabs, pendingRequests, calls, troubles>>

\* No API key, no such connection or session: nothing is started.
Refuse(r) ==
    /\ ask[r].at = "posted"
    /\ ask' = [ask EXCEPT ![r].at = "failed"]
    /\ UNCHANGED <<channelVars, serverVars, decided, tabs, pendingRequests, calls, troubles>>

About(kind, r) == [kind |-> kind, turn |-> r, session |-> conv[r]]

\* run_agent ends with an answer, or with an error.
Answer(r) ==
    /\ agent[r] = "thinking"
    /\ agent' = [agent EXCEPT ![r] = "over"]
    /\ \E kind \in {"agent_done", "error"} : Channel!Say(About(kind, r))
    /\ UNCHANGED <<conv, pending, handlers, ran, uiVars, troubles>>

\* Mutated form of Stored: the limit is checked before the plan is added.
StoredThenOver(plans, p) ==
    Append(IF Len(plans) > MaxPlans THEN Tail(plans) ELSE plans, p)

\* _store_plan: over the limit, the oldest go first.
Stored(plans, p) ==
    LET all == Append(plans, p)
    IN  IF Len(all) > MaxPlans THEN Tail(all) ELSE all

Propose(r) ==
    /\ agent[r] = "thinking"
    /\ agent' = [agent EXCEPT ![r] = "over"]
    /\ pending' = Stored(pending, r)
    /\ Channel!Say(About("plan_proposed", r))
    /\ UNCHANGED <<conv, handlers, ran, uiVars, troubles>>

IsPending(p) == \E k \in DOMAIN pending : pending[k] = p

\* Mutated form of Popped: a plan that is being committed stays where it is.
Kept(plans, p) == plans

\* _pending_plans.pop(plan_id): a dictionary, it holds a plan once or not.
Popped(plans, p) ==
    LET at == {k \in DOMAIN plans : plans[k] = p}
    IN  IF at = {} THEN plans
        ELSE [k \in 1..(Len(plans) - 1) |->
                plans[IF \E j \in at : j <= k THEN k + 1 ELSE k]]

\* commit_plan, to its loop; and its 404.
Commit(p) ==
    /\ IsPending(p)
    /\ pending' = Popped(pending, p)
    /\ handlers' = handlers \union {[plan |-> p, next |-> 1]}

CommitCall(c) ==
    /\ c.kind = "commit" /\ c.reply = "waiting"
    /\ Commit(c.plan)
    /\ calls' = (calls \ {c}) \union {[c EXCEPT !.reply = "running"]}
    /\ UNCHANGED <<channelVars, conv, agent, ran, ask, decided, tabs, pendingRequests, troubles>>

CommitMissing(c) ==
    /\ c.kind = "commit" /\ c.reply = "waiting"
    /\ ~IsPending(c.plan)
    /\ calls' = (calls \ {c}) \union {[c EXCEPT !.reply = "failed"]}
    /\ UNCHANGED <<channelVars, serverVars, ask, decided, tabs, pendingRequests, troubles>>

\* _execute_plan_step.  A step that fails is recorded and the next one follows.
ExecuteStep(h) ==
    /\ h.next <= PlanSteps
    /\ ran' = [ran EXCEPT ![h.plan] = Append(@, h.next)]
    /\ handlers' = (handlers \ {h}) \union {[h EXCEPT !.next = @ + 1]}
    /\ UNCHANGED <<channelVars, conv, agent, pending, uiVars, troubles>>

CommitEnds(h) ==
    /\ h.next > PlanSteps
    /\ handlers' = handlers \ {h}
    /\ Channel!Say(About("plan_committed", h.plan))
    /\ calls' = {IF c.plan = h.plan /\ c.reply = "running" THEN [c EXCEPT !.reply = "ok"] ELSE c : c \in calls}
    /\ UNCHANGED <<conv, agent, pending, ran, ask, decided, tabs, pendingRequests, troubles>>

\* Mutated form of Tells: a plan that is not there is rejected all the same.
TellsAlways(p) == TRUE

\* reject_plan announces the rejection of a plan that was there.
Tells(p) == IsPending(p)

Reject(p) ==
    /\ pending' = Popped(pending, p)
    /\ IF Tells(p) THEN Channel!Say(About("plan_rejected", p)) ELSE UNCHANGED channelVars

RejectCall(c) ==
    /\ c.kind = "reject" /\ c.reply = "waiting"
    /\ Reject(c.plan)
    /\ calls' = (calls \ {c}) \union {[c EXCEPT !.reply = "ok"]}
    /\ UNCHANGED <<conv, agent, handlers, ran, ask, decided, tabs, pendingRequests, troubles>>

\* The user approves or rejects a plan in another window that was shown it.
ShownElsewhere(p) == About("plan_proposed", p) \in {said[n] : n \in DOMAIN said}

CommitElsewhere(p) ==
    /\ ShownElsewhere(p)
    /\ Commit(p)
    /\ decided' = decided \union {<<p, "commit">>}
    /\ UNCHANGED <<channelVars, conv, agent, ran, ask, tabs, pendingRequests, calls, troubles>>

RejectElsewhere(p) ==
    /\ ShownElsewhere(p)
    /\ IsPending(p)
    /\ Reject(p)
    /\ decided' = decided \union {<<p, "reject">>}
    /\ UNCHANGED <<conv, agent, handlers, ran, ask, tabs, pendingRequests, calls, troubles>>

-----------------------------------------------------------------------------
(* What is between them.                                                   *)

\* A reply is lost on its way; the server does what it was asked all the same.
LoseReply ==
    /\ Troubled
    /\ lost' = lost + 1
    /\ \/ \E r \in Requests :
            /\ ask[r].at = "accepted"
            /\ ask' = [ask EXCEPT ![r].at = "failed"]
            /\ UNCHANGED calls
       \/ \E c \in calls :
            /\ c.reply \in {"running", "ok"}
            /\ calls' = (calls \ {c}) \union {[c EXCEPT !.reply = "failed"]}
            /\ UNCHANGED ask
    /\ UNCHANGED <<channelVars, serverVars, decided, tabs, pendingRequests, remounts, rewinds, crashes>>

\* The server process dies: everything it holds is in memory, except the
\* chat sessions.
Crash ==
    /\ Troubled
    /\ crashes' = crashes + 1
    /\ agent' = [r \in Requests |-> IF agent[r] = "thinking" THEN "over" ELSE agent[r]]
    /\ pending' = <<>> /\ handlers' = {}
    /\ ask' = [r \in Requests |-> IF ask[r].at = "posted" THEN [ask[r] EXCEPT !.at = "failed"] ELSE ask[r]]
    /\ calls' = {IF c.reply \in {"waiting", "running"} THEN [c EXCEPT !.reply = "failed"] ELSE c : c \in calls}
    /\ Channel!Lose /\ taken' = taken
    /\ UNCHANGED <<conv, ran, decided, tabs, pendingRequests, remounts, lost, rewinds>>

Carry ==
    /\ \/ Channel!Lose /\ taken' = taken
       \/ \E n \in DOMAIN said : Channel!Put(n)
    /\ UNCHANGED <<serverVars, uiVars, troubles>>

\* A reconnection after which the window may be sent again what it has taken: with
\* another window of the user about, coroutines may have been held up there.
Rewind ==
    /\ Troubled
    /\ rewinds' = rewinds + 1
    /\ Channel!Lose /\ taken' < taken
    /\ UNCHANGED <<serverVars, uiVars, remounts, lost, crashes>>

\* The first tab that holds a session; none holds it if the set is empty.
Holders(s) == {t \in Open : tabs[t].session = s}
FirstHolder(s) == {t \in Holders(s) : \A u \in Holders(s) : t <= u}

\* Mutated form of Addressees: the session is looked at before the request.
AddresseesBySession(m) ==
    IF Holders(m.session) # {} THEN FirstHolder(m.session)
    ELSE IF m \in TurnMessages /\ m.turn \in pendingRequests THEN {ask[m.turn].tab} ELSE {}

\* resolveTabForRequest: the tab that asked, open or not; for a turn already
\* resolved and for what has no request_id, a tab that holds the session.
Addressees(m) ==
    IF m \in TurnMessages /\ m.turn \in pendingRequests
      THEN {ask[m.turn].tab}
      ELSE FirstHolder(m.session)

\* What onmessage makes of a tab that a message is for.
Applied(tab, m) ==
    CASE m.kind \in {"agent_done", "error"} ->
           [Bound(tab, m.session) EXCEPT !.loading = FALSE, !.talk = @ \union {m.session}]
      [] m.kind = "plan_proposed" ->
           [Bound(tab, m.session) EXCEPT !.loading = FALSE, !.plan = m.turn, !.talk = @ \union {m.session}]
      [] m.kind = "plan_committed" -> [tab EXCEPT !.plan = None, !.talk = @ \union {m.session}]
      [] m.kind = "plan_rejected" -> [tab EXCEPT !.plan = None]

Deliver ==
    /\ Channel!Take
    /\ LET m == said[Head(feed)]
       IN  /\ tabs' = [t \in DOMAIN tabs |-> IF t \in Addressees(m) THEN Applied(tabs[t], m) ELSE tabs[t]]
           /\ pendingRequests' = pendingRequests \ (IF m \in TurnMessages THEN {m.turn} ELSE {})
    /\ UNCHANGED <<serverVars, ask, decided, calls, troubles>>

-----------------------------------------------------------------------------
Next ==
    \/ NewChat
    \/ \E s \in Sessions : OpenPast(s)
    \/ \E t \in DOMAIN tabs :
         \/ CloseTab(t)
         \/ \E r \in Requests : SendMessage(t, r)
         \/ \E kind \in {"commit", "reject"} : Decide(t, kind)
    \/ \E r \in Requests : Acknowledged(r) \/ NotSent(r) \/ Accept(r) \/ Refuse(r)
    \/ \E r \in Requests : Answer(r) \/ Propose(r) \/ CommitElsewhere(r) \/ RejectElsewhere(r)
    \/ \E c \in calls : Decided(c) \/ CommitCall(c) \/ CommitMissing(c) \/ RejectCall(c)
    \/ \E h \in handlers : ExecuteStep(h) \/ CommitEnds(h)
    \/ Remount
    \/ LoseReply
    \/ Crash
    \/ Carry
    \/ Rewind
    \/ Deliver

Spec == Init /\ [][Next]_vars

-----------------------------------------------------------------------------
HasBeenSaid(kind, p) == \E n \in DOMAIN said : said[n].kind = kind /\ said[n].turn = p

\* "Nothing touches the table until you click Approve & commit", and then
\* each step runs once and in its order: however often, and in however many
\* windows, the plan is approved, and whatever replies or messages are lost.
StepsRunOnce ==
    \A p \in Requests :
        /\ ran[p] = [k \in 1..Len(ran[p]) |-> k]
        /\ ran[p] # <<>> => <<p, "commit">> \in decided

\* A plan of which the windows are told that it was rejected has not run and
\* will not: commits and rejects of one plan, in several windows at once, are
\* settled by whoever takes it out of _pending_plans.
RejectedNeverRuns ==
    \A p \in Requests : HasBeenSaid("plan_rejected", p) =>
        /\ ran[p] = <<>>
        /\ ~HasBeenSaid("plan_committed", p)
        /\ \A h \in handlers : h.plan # p

\* The messages a tab shows are all of the session it sends its next turn to,
\* although tabs are closed with turns under way, their sessions opened in
\* other tabs, and answers overtake acknowledgements.  (Not if the reply of
\* the first POST of a tab is lost: the next one then starts a second session.)
OneConversationPerTab ==
    lost = 0 => \A t \in Open : tabs[t].talk \subseteq {tabs[t].session}

\* The input of a tab is disabled for exactly as long as one turn of it is
\* unresolved, so that no second turn overtakes it.  (Unless the reply of a POST
\* was lost, which ends the waiting for a turn that goes on, or a message came
\* twice: the second time it is routed by its session.)
LoadingIsOneTurn ==
    lost = 0 /\ rewinds = 0 => \A t \in Open :
        LET turns == {r \in pendingRequests :
                        ask[r].tab = t /\ (ask[r].at # "over" \/ agent[r] # "none")}
        IN  Cardinality(turns) = (IF tabs[t].loading THEN 1 ELSE 0)

\* Writes are "surfaced to the user as a plan requiring explicit approval": a
\* card is only taken down once the user has decided on the plan it shows.  It
\* does not hold: plan_committed, plan_rejected and the replies take down the
\* card of a tab without looking at what plan it shows.
CardStaysUntilDecided ==
    [][\A t \in DOMAIN tabs :
          tabs[t].open /\ tabs[t].plan # None /\ tabs'[t].plan = None
            => \E kind \in {"commit", "reject"} : <<tabs[t].plan, kind>> \in decided]_vars
=============================================================================
