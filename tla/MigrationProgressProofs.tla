------------------------ MODULE MigrationProgressProofs ------------------------
(***************************************************************************)
(* Theorems about MigrationProgress, for every value of its constants.     *)
(*                                                                         *)
(* The composition uses its two components as they are specified: every    *)
(* step is one of MigrationJob and one of WsChannel, or leaves them alone. *)
(* What holds of the components then holds here, and that a tab is never   *)
(* ahead of its job follows from what the messages say: each is true when  *)
(* it is sent and stays so, however late, often or seldom it is delivered. *)
(***************************************************************************)
EXTENDS MigrationProgress, SequenceTheorems, TLAPS

W == INSTANCE WsChannelProofs
P == INSTANCE MigrationJobProofs

-----------------------------------------------------------------------------
(* The components.                                                         *)

\* Submit is MigrationJob's: a build is one choice of actions for every object.
LEMMA BuildsAreBuilds == Builds \subseteq [Objects -> SUBSET Job!Actions]
BY BuildsAssumption DEF Job!Actions

LEMMA JobInits == Init => P!Init
BY DEF Init, Job!Init, P!Init, Job!NoSteps, P!NoSteps, Job!Actions, P!Actions

LEMMA SameJob == Job!Next => P!Next
BY DEF Job!Next, P!Next, Job!Submit, P!Submit, Job!Begin, P!Begin, Job!End, P!End,
       Job!Finish, P!Finish, Job!Abort, P!Abort, Job!Crash, P!Crash, Job!Ready, P!Ready,
       Job!Settled, P!Settled, Job!Failed, P!Failed, Job!Outcome, P!Outcome,
       Job!Rank, P!Rank, Job!Actions, P!Actions

LEMMA JobOrNothing == [Next]_vars => Job!Next \/ UNCHANGED jobVars
<1> SUFFICES ASSUME [Next]_vars PROVE Job!Next \/ UNCHANGED jobVars
  OBVIOUS
<1>1. ASSUME NEW w \in Windows, NEW j \in Jobs, RunMigration(w, j) PROVE UNCHANGED jobVars
  BY <1>1 DEF RunMigration
<1>2. ASSUME NEW w \in Windows, Remount(w) \/ CloseTab(w) \/ Deliver(w) \/ Disconnected(w)
      PROVE  UNCHANGED jobVars
  BY <1>2 DEF Remount, CloseTab, Deliver, Disconnected
<1>3. ASSUME NEW j \in Jobs, Execute(j) PROVE Job!Next
  BY <1>3, BuildsAreBuilds DEF Execute, Job!Next
<1>4. ASSUME NEW j \in Jobs, Refuse(j) \/ Answered(j) \/ Failed(j) PROVE UNCHANGED jobVars
  BY <1>4 DEF Refuse, Answered, Failed
<1>5. ASSUME NEW j \in Jobs, Work(j) PROVE Job!Next
  BY <1>5 DEF Work, Begin, End, Finish, Abort, Job!Next
<1>6. ASSUME NEW j \in Jobs, NEW o \in Objects, Tick(j, o) PROVE UNCHANGED jobVars
  BY <1>6 DEF Tick
<1>7. CASE Channel
  BY <1>7 DEF Channel
<1>8. CASE Crash
  BY <1>8 DEF Crash, Job!Next
<1>9. CASE UNCHANGED vars
  BY <1>9 DEF vars
<1> QED
  BY <1>1, <1>2, <1>3, <1>4, <1>5, <1>6, <1>7, <1>8, <1>9 DEF Next

LEMMA JobSteps == [Next]_vars => [P!Next]_(P!vars)
BY SameJob, JobOrNothing DEF jobVars, P!vars

LEMMA ChannelInits == Init => W!Init
BY DEF Init, Ws!Init, W!Init, Ws!Sockets, W!Sockets

LEMMA SameSize == \A S : Ws!Cardinality(S) = W!Cardinality(S)
BY DEF Ws!Cardinality, W!Cardinality

LEMMA SameChannel == Ws!Next => W!Next
<1>1. Ws!Sockets = W!Sockets /\ Ws!Used = W!Used /\ Ws!Nowhere = W!Nowhere
  BY DEF Ws!Sockets, W!Sockets, Ws!Used, W!Used, Ws!Nowhere, W!Nowhere
<1>2. \A q : Ws!Listed(q) = W!Listed(q)
  BY DEF Ws!Listed, W!Listed
<1>3. \A t : Ws!Started(t) = W!Started(t) /\ Ws!Exhausted(t) = W!Exhausted(t)
  BY <1>2 DEF Ws!Started, W!Started, Ws!Exhausted, W!Exhausted
<1>4. \A i : Ws!InTurn(i) <=> W!InTurn(i)
  BY DEF Ws!InTurn, W!InTurn
<1>5. \A gone : Ws!Remaining(gone) = W!Remaining(gone)
  BY DEF Ws!Remaining, W!Remaining, Ws!Cardinality, W!Cardinality
<1>6. \A t, gone : Ws!Shifted(t, gone) = W!Shifted(t, gone)
  BY <1>2, SameSize DEF Ws!Shifted, W!Shifted
<1>7. \A q, i : Ws!Without(q, i) = W!Without(q, i)
  BY DEF Ws!Without, W!Without
<1>8. \A t : Ws!Through(t) <=> W!Through(t)
  BY <1>1 DEF Ws!Through, W!Through
<1>9. \A w : /\ Ws!Current(w) = W!Current(w)
             /\ Ws!Connected(w) <=> W!Connected(w)
             /\ Ws!Unread(w) = W!Unread(w)
  BY DEF Ws!Current, W!Current, Ws!Connected, W!Connected, Ws!Unread, W!Unread
<1>10. \A m : Ws!Schedule(m) => W!Schedule(m)
  BY <1>1 DEF Ws!Schedule, W!Schedule
<1>11. \A i : Ws!Write(i) => W!Write(i)
  BY <1>3, <1>4 DEF Ws!Write, W!Write
<1>12. \A i : Ws!EndSend(i) => W!EndSend(i)
  BY <1>3, <1>4, <1>5, <1>6, <1>7 DEF Ws!EndSend, W!EndSend
<1>13. \A s : Ws!Register(s) => W!Register(s)
  BY <1>8 DEF Ws!Register, W!Register
<1>14. \A s : Ws!Notice(s) => W!Notice(s)
  BY <1>5, <1>6 DEF Ws!Notice, W!Notice
<1>15. \A w : Ws!Connect(w) => W!Connect(w)
  BY <1>1, <1>9, SameSize DEF Ws!Connect, W!Connect
<1>16. \A w : (Ws!Drop(w) => W!Drop(w)) /\ (Ws!Take(w) => W!Take(w))
  BY <1>9 DEF Ws!Drop, W!Drop, Ws!Take, W!Take
<1>17. Ws!Stop => W!Stop
  BY <1>1 DEF Ws!Stop, W!Stop
<1> QED
  BY <1>1, <1>10, <1>11, <1>12, <1>13, <1>14, <1>15, <1>16, <1>17 DEF Ws!Next, W!Next

\* All that is said is a message.
LEMMA MessagesAreSaid ==
    ASSUME NEW j \in Jobs
    PROVE  /\ \A o \in Objects, a \in Job!Actions, v \in {"running", "done", "error"} :
                 StepMessage(j, o, a, v) \in Messages
           /\ \A k \in {"migration_done", "migration_error"}, v \in {"done", "error"} :
                 VerdictMessage(j, k, v) \in Messages
BY DEF StepMessage, VerdictMessage, Messages, Job!Actions

LEMMA WorkSays ==
    ASSUME NEW j \in Jobs,
           Work(j) \/ \E o \in Objects : Tick(j, o)
    PROVE  \E m \in Messages : Ws!Schedule(m)
<1>1. ASSUME NEW o \in Objects, NEW a \in Job!Actions, Begin(j, o, a)
      PROVE  \E m \in Messages : Ws!Schedule(m)
  BY <1>1, MessagesAreSaid DEF Begin, Says
<1>2. ASSUME NEW o \in Objects, NEW a \in Job!Actions, NEW v \in {"done", "error"},
             End(j, o, a, v)
      PROVE  \E m \in Messages : Ws!Schedule(m)
  BY <1>2, MessagesAreSaid DEF End, Says
<1>3. ASSUME NEW o \in Objects, Tick(j, o)
      PROVE  \E m \in Messages : Ws!Schedule(m)
  BY <1>3, MessagesAreSaid DEF Tick, Says, Job!Actions
<1>4. ASSUME Finish(j) PROVE \E m \in Messages : Ws!Schedule(m)
  <2>1. Job!Outcome(steps[j]) \in {"done", "error"}
    BY DEF Job!Outcome
  <2> QED
    BY <1>4, <2>1, MessagesAreSaid DEF Finish, Says
<1>5. ASSUME Abort(j) PROVE \E m \in Messages : Ws!Schedule(m)
  BY <1>5, MessagesAreSaid DEF Abort, Says
<1> QED
  BY <1>1, <1>2, <1>3, <1>4, <1>5 DEF Work

LEMMA ChannelSteps == [Next]_vars => [W!Next]_(W!vars)
<1> SUFFICES ASSUME [Next]_vars PROVE Ws!Next \/ UNCHANGED wsVars
  BY SameChannel DEF wsVars, W!vars
<1>1. ASSUME NEW w \in Windows, NEW j \in Jobs, RunMigration(w, j) PROVE UNCHANGED wsVars
  BY <1>1 DEF RunMigration
<1>2. ASSUME NEW w \in Windows, Remount(w) \/ CloseTab(w) PROVE UNCHANGED wsVars
  BY <1>2 DEF Remount, CloseTab
<1>3. ASSUME NEW w \in Windows, Deliver(w) \/ Disconnected(w) PROVE Ws!Next
  BY <1>3 DEF Deliver, Disconnected, Ws!Next
<1>4. ASSUME NEW j \in Jobs, Execute(j) \/ Refuse(j) \/ Answered(j) \/ Failed(j)
      PROVE  UNCHANGED wsVars
  BY <1>4 DEF Execute, Refuse, Answered, Failed
<1>5. ASSUME NEW j \in Jobs, Work(j) \/ \E o \in Objects : Tick(j, o) PROVE Ws!Next
  BY <1>5, WorkSays DEF Ws!Next
<1>6. CASE Channel
  BY <1>6 DEF Channel, Ws!Next
<1>7. CASE Crash
  BY <1>7 DEF Crash, Ws!Next
<1>8. CASE UNCHANGED vars
  BY <1>8 DEF vars
<1> QED
  BY <1>1, <1>2, <1>3, <1>4, <1>5, <1>6, <1>7, <1>8 DEF Next

\* The composition runs its jobs by the protocol of MigrationJob and its channel by
\* WsChannel: what the two promise holds of a migration that is watched.
THEOREM ProgressComposes == Spec => P!Spec /\ W!Spec
BY JobInits, JobSteps, ChannelInits, ChannelSteps, PTL DEF Spec, P!Spec, W!Spec

-----------------------------------------------------------------------------
(* What the messages say.                                                  *)

\* Outcomes, verdicts and the choice of steps are final, and what has begun is not
\* pending again.
GoesOn(j) ==
    status[j] # "absent" =>
        /\ status'[j] # "absent"
        /\ status[j] \in {"done", "error"} => status'[j] = status[j]
        /\ \A o \in Objects, a \in Job!Actions :
              /\ steps[j][o][a] = "none" <=> steps'[j][o][a] = "none"
              /\ steps[j][o][a] \in {"done", "error"} => steps'[j][o][a] = steps[j][o][a]
              /\ steps[j][o][a] # "pending" => steps'[j][o][a] # "pending"

LEMMA JobsGoOn ==
    ASSUME Job!TypeOK, [Next]_vars
    PROVE  \A j \in Jobs : GoesOn(j)
<1> SUFFICES ASSUME NEW j \in Jobs, status[j] # "absent" PROVE GoesOn(j)
  BY DEF GoesOn
<1>1. Job!Next \/ UNCHANGED jobVars
  BY JobOrNothing
<1>2. ASSUME NEW i \in Jobs, NEW built, Job!Submit(i, built) PROVE GoesOn(j)
  <2>1. i # j
    BY <1>2 DEF Job!Submit
  <2> QED
    BY <1>2, <2>1 DEF Job!Submit, GoesOn, Job!TypeOK
<1>3. ASSUME NEW i \in Jobs, NEW o \in Objects, NEW a \in Job!Actions, Job!Begin(i, o, a)
      PROVE  GoesOn(j)
  <2>1. steps[i][o][a] = "pending" /\ status' = status
        /\ steps' = [steps EXCEPT ![i][o][a] = "running"]
    BY <1>3 DEF Job!Begin, Job!Ready
  <2> QED
    BY <2>1 DEF GoesOn, Job!TypeOK, Job!Plan
<1>4. ASSUME NEW i \in Jobs, NEW o \in Objects, NEW a \in Job!Actions,
             NEW v \in {"done", "error"}, Job!End(i, o, a, v)
      PROVE  GoesOn(j)
  <2>1. steps[i][o][a] = "running" /\ status' = status
        /\ steps' = [steps EXCEPT ![i][o][a] = v]
    BY <1>4 DEF Job!End
  <2> QED
    BY <2>1 DEF GoesOn, Job!TypeOK, Job!Plan
<1>5. ASSUME NEW i \in Jobs, Job!Finish(i) \/ Job!Abort(i) PROVE GoesOn(j)
  BY <1>5 DEF Job!Finish, Job!Abort, Job!Outcome, GoesOn, Job!TypeOK
<1>6. ASSUME Job!Crash PROVE GoesOn(j)
  BY <1>6 DEF Job!Crash, GoesOn, Job!TypeOK
<1>7. ASSUME UNCHANGED jobVars PROVE GoesOn(j)
  BY <1>7 DEF jobVars, GoesOn
<1> QED
  BY <1>1, <1>2, <1>3, <1>4, <1>5, <1>6, <1>7 DEF Job!Next

\* What a message says of its job is so.
IsStep(m) == m.kind \in {"migration_progress", "migration_step_done"}

Truth(m) ==
    /\ status[m.job] # "absent"
    /\ IF IsStep(m)
       THEN /\ steps[m.job][m.object][m.action] \notin {"none", "pending"}
            /\ m.value \in {"done", "error"} => steps[m.job][m.object][m.action] = m.value
       ELSE status[m.job] = m.value /\ m.value \in {"done", "error"}

SaidIsTrue == \A n \in DOMAIN said : said[n] \in Messages /\ Truth(said[n])

\* What a tab shows of its job is so: NeverAhead, and that there is such a job.
TabIsTrue(w) ==
    tab[w].job # NoJob =>
        LET j == tab[w].job IN
        /\ status[j] # "absent"
        /\ tab[w].verdict \in {"done", "error"} => status[j] = tab[w].verdict
        /\ \A o \in Objects, a \in Job!Actions :
              /\ (tab[w].shown[o][a] = "none") <=> (steps[j][o][a] = "none")
              /\ tab[w].shown[o][a] \in {"done", "error"} => steps[j][o][a] = tab[w].shown[o][a]
              /\ tab[w].shown[o][a] = "running" => steps[j][o][a] # "pending"

Typed ==
    /\ Job!TypeOK
    /\ tab \in [Windows -> Tab]
    /\ asker \in [Jobs -> Windows \union {NoWindow}]

AcceptedIsThere == \A j \in Jobs : posts[j] = "accepted" => status[j] # "absent"

IInv ==
    /\ Typed /\ P!IInv /\ W!Ordered
    /\ SaidIsTrue /\ AcceptedIsThere /\ \A w \in Windows : TabIsTrue(w)

LEMMA StepsAreMessages ==
    ASSUME NEW m \in Messages, IsStep(m)
    PROVE  m.job \in Jobs /\ m.object \in Objects /\ m.action \in Job!Actions
           /\ m.value \in {"running", "done", "error"}
BY DEF Messages, IsStep, Job!Actions

LEMMA TruthStays ==
    ASSUME \A j \in Jobs : GoesOn(j), NEW m \in Messages, Truth(m)
    PROVE  Truth(m)'
<1>1. m.job \in Jobs
  BY DEF Messages
<1>2. CASE IsStep(m)
  BY <1>1, <1>2, StepsAreMessages DEF Truth, GoesOn, IsStep
<1>3. CASE ~IsStep(m)
  BY <1>1, <1>3 DEF Truth, GoesOn, IsStep
<1> QED
  BY <1>2, <1>3

\* A message is true when it is sent.
LEMMA SpeaksTheTruth ==
    ASSUME Typed, NEW j \in Jobs, Work(j) \/ \E o \in Objects : Tick(j, o)
    PROVE  \E m \in Messages : Ws!Schedule(m) /\ Truth(m)'
<1>1. ASSUME NEW o \in Objects, NEW a \in Job!Actions, Begin(j, o, a)
      PROVE  \E m \in Messages : Ws!Schedule(m) /\ Truth(m)'
  <2> DEFINE m == StepMessage(j, o, a, "running")
  <2>1. m \in Messages /\ Ws!Schedule(m)
    BY <1>1, MessagesAreSaid DEF Begin, Says
  <2>2. steps'[j][o][a] = "running" /\ status'[j] # "absent"
    BY <1>1 DEF Begin, Job!Begin, Typed, Job!TypeOK, Job!Plan
  <2>3. /\ m.job = j /\ m.object = o /\ m.action = a /\ m.value = "running" /\ IsStep(m)
    BY DEF StepMessage, IsStep
  <2> HIDE DEF m
  <2>4. Truth(m)'
    BY <2>2, <2>3 DEF Truth, IsStep
  <2> QED
    BY <2>1, <2>4
<1>2. ASSUME NEW o \in Objects, NEW a \in Job!Actions, NEW v \in {"done", "error"},
             End(j, o, a, v)
      PROVE  \E m \in Messages : Ws!Schedule(m) /\ Truth(m)'
  <2> DEFINE m == StepMessage(j, o, a, v)
  <2>1. m \in Messages /\ Ws!Schedule(m)
    BY <1>2, MessagesAreSaid DEF End, Says
  <2>2. steps'[j][o][a] = v /\ status'[j] # "absent"
    BY <1>2 DEF End, Job!End, Typed, Job!TypeOK, Job!Plan
  <2>3. /\ m.job = j /\ m.object = o /\ m.action = a /\ m.value = v /\ IsStep(m)
    BY DEF StepMessage, IsStep
  <2> HIDE DEF m
  <2>4. Truth(m)'
    BY <2>2, <2>3 DEF Truth, IsStep
  <2> QED
    BY <2>1, <2>4
<1>3. ASSUME NEW o \in Objects, Tick(j, o)
      PROVE  \E m \in Messages : Ws!Schedule(m) /\ Truth(m)'
  <2> DEFINE m == StepMessage(j, o, "copy", "running")
  <2>1. m \in Messages /\ Ws!Schedule(m)
    BY <1>3, MessagesAreSaid DEF Tick, Says, Job!Actions
  <2>2. steps'[j][o]["copy"] = "running" /\ status'[j] # "absent"
    BY <1>3 DEF Tick, jobVars
  <2>3. /\ m.job = j /\ m.object = o /\ m.action = "copy" /\ m.value = "running" /\ IsStep(m)
    BY DEF StepMessage, IsStep
  <2> HIDE DEF m
  <2>4. Truth(m)'
    BY <2>2, <2>3 DEF Truth, IsStep
  <2> QED
    BY <2>1, <2>4
<1>4. ASSUME NEW k \in {"migration_done", "migration_error"}, NEW v \in {"done", "error"},
             Ws!Schedule(VerdictMessage(j, k, v)), status'[j] = v
      PROVE  \E m \in Messages : Ws!Schedule(m) /\ Truth(m)'
  <2> DEFINE m == VerdictMessage(j, k, v)
  <2>1. m \in Messages /\ Ws!Schedule(m)
    BY <1>4, MessagesAreSaid
  <2>2. /\ m.job = j /\ m.value = v /\ ~IsStep(m)
    BY DEF VerdictMessage, IsStep
  <2> HIDE DEF m
  <2>3. Truth(m)'
    BY <1>4, <2>2 DEF Truth, IsStep
  <2> QED
    BY <2>1, <2>3
<1>5. ASSUME Finish(j)
      PROVE  \E m \in Messages : Ws!Schedule(m) /\ Truth(m)'
  <2>1. Job!Outcome(steps[j]) \in {"done", "error"}
    BY DEF Job!Outcome
  <2>2. status'[j] = Job!Outcome(steps[j])
    BY <1>5 DEF Finish, Job!Finish, Typed, Job!TypeOK
  <2> QED
    BY <1>4, <1>5, <2>1, <2>2 DEF Finish, Says
<1>6. ASSUME Abort(j)
      PROVE  \E m \in Messages : Ws!Schedule(m) /\ Truth(m)'
  <2>1. status'[j] = "error"
    BY <1>6 DEF Abort, Job!Abort, Typed, Job!TypeOK
  <2> QED
    BY <1>4, <1>6, <2>1 DEF Abort, Says
<1> QED
  BY <1>1, <1>2, <1>3, <1>5, <1>6 DEF Work

\* Nothing else is ever said.
LEMMA SaidStays ==
    ASSUME [Next]_vars
    PROVE  \/ said' = said
           \/ \E j \in Jobs : Work(j) \/ \E o \in Objects : Tick(j, o)
<1>1. ASSUME NEW w \in Windows, Deliver(w) \/ Disconnected(w) PROVE said' = said
  BY <1>1 DEF Deliver, Disconnected, Ws!Take, Ws!Drop
<1>2. CASE Channel
  <2>1. \A i : Ws!Write(i) \/ Ws!EndSend(i) => said' = said
    BY DEF Ws!Write, Ws!EndSend
  <2>2. \A s : Ws!Register(s) \/ Ws!Notice(s) => said' = said
    BY DEF Ws!Register, Ws!Notice
  <2>3. \A w : Ws!Connect(w) => said' = said
    BY DEF Ws!Connect
  <2> QED
    BY <1>2, <2>1, <2>2, <2>3 DEF Channel
<1>3. CASE Crash
  BY <1>3 DEF Crash, Ws!Stop
<1>4. ASSUME NEW w \in Windows, Remount(w) \/ CloseTab(w) \/ \E j \in Jobs : RunMigration(w, j)
      PROVE  said' = said
  BY <1>4 DEF Remount, CloseTab, RunMigration, wsVars
<1>5. ASSUME NEW j \in Jobs, Execute(j) \/ Refuse(j) \/ Answered(j) \/ Failed(j)
      PROVE  said' = said
  BY <1>5 DEF Execute, Refuse, Answered, Failed, wsVars
<1>6. CASE UNCHANGED vars
  BY <1>6 DEF vars, wsVars
<1> QED
  BY <1>1, <1>2, <1>3, <1>4, <1>5, <1>6 DEF Next

LEMMA SaidNext ==
    ASSUME IInv, [Next]_vars
    PROVE  SaidIsTrue'
<1>1. \A j \in Jobs : GoesOn(j)
  BY JobsGoOn DEF IInv, Typed
<1>2. CASE said' = said
  <2>1. ASSUME NEW n \in DOMAIN said'
        PROVE  (said[n] \in Messages /\ Truth(said[n]))'
    <3>1. PICK k \in Messages : k = said[n] /\ Truth(k)
      BY <1>2, <2>1 DEF IInv, SaidIsTrue
    <3>2. Truth(k)'
      BY <1>1, <3>1, TruthStays
    <3> QED
      BY <1>2, <3>1, <3>2 DEF Truth, IsStep
  <2> QED
    BY <2>1 DEF SaidIsTrue
<1>3. ASSUME NEW j \in Jobs, Work(j) \/ \E o \in Objects : Tick(j, o)
      PROVE  SaidIsTrue'
  <2>1. PICK m \in Messages : Ws!Schedule(m) /\ Truth(m)'
    BY <1>3, SpeaksTheTruth DEF IInv
  <2>2. said \in Seq(Messages) /\ said' = Append(said, m)
    BY <2>1 DEF Ws!Schedule, IInv, W!Ordered, W!TypeOK
  <2>3. ASSUME NEW n \in DOMAIN said'
        PROVE  (said[n] \in Messages /\ Truth(said[n]))'
    <3>1. CASE n = Len(said) + 1
      <4>1. said'[n] = m
        BY <2>2, <3>1
      <4> QED
        BY <2>1, <4>1 DEF Truth, IsStep
    <3>2. CASE n # Len(said) + 1
      <4>1. n \in DOMAIN said /\ said'[n] = said[n]
        BY <2>2, <2>3, <3>2
      <4>2. PICK k \in Messages : k = said[n] /\ Truth(k)
        BY <4>1 DEF IInv, SaidIsTrue
      <4>3. Truth(k)'
        BY <1>1, <4>2, TruthStays
      <4> QED
        BY <4>1, <4>2, <4>3 DEF Truth, IsStep
    <3> QED
      BY <3>1, <3>2
  <2> QED
    BY <2>3 DEF SaidIsTrue
<1> QED
  BY <1>2, <1>3, SaidStays

-----------------------------------------------------------------------------
(* The tabs.                                                               *)

LEMMA JobTyped == P!TypeOK <=> Job!TypeOK
BY DEF P!TypeOK, Job!TypeOK, P!JobStatus, Job!JobStatus, P!Plan, Job!Plan, P!Actions,
       Job!Actions, P!StepStatus, Job!StepStatus

LEMMA PlansAreFull ==
    /\ Job!NoSteps \in Job!Plan
    /\ FreshTab \in Tab
    /\ FreshTab.job = NoJob
BY DEF FreshTab, Tab, Job!NoSteps, Job!Plan, Job!StepStatus

\* The server answers with the steps it has built.
LEMMA BuiltIs ==
    ASSUME Job!TypeOK, NEW j \in Jobs
    PROVE  /\ Built(j) \in Job!Plan
           /\ \A o \in Objects, a \in Job!Actions :
                 Built(j)[o][a] = IF steps[j][o][a] = "none" THEN "none" ELSE "pending"
BY DEF Built, Job!Plan, Job!StepStatus

\* What the channel assumes of its constants.
LEMMA ChannelAssumptions ==
    W!IsFiniteSet(Windows) /\ MaxSockets \in Nat /\ MaxSaid \in Nat /\ MaxSends \in Nat
<1>1. W!IsFiniteSet(Windows) <=> IsFiniteSet(Windows)
  BY DEF W!IsFiniteSet, IsFiniteSet
<1> QED
  BY <1>1, ChannelAssumption

\* What a window takes has been said.
LEMMA TakenWasSaid ==
    ASSUME W!Ordered, NEW w \in Windows, Ws!Take(w)
    PROVE  Head(Ws!Unread(w)) \in DOMAIN said
<1> DEFINE s == W!Current(w)
<1>1. /\ Ws!Current(w) = s /\ Ws!Unread(w) = W!Unread(w)
      /\ W!Take(w)
  BY DEF Ws!Take, W!Take, Ws!Current, W!Current, Ws!Connected, W!Connected, Ws!Unread, W!Unread
<1>2. /\ W!TypeOK /\ W!Numbered
  BY DEF W!Ordered
<1>3. /\ s \in W!Sockets /\ read[s] + 1 <= Len(frames[s])
      /\ W!Connected(w)
  BY <1>1, <1>2, ChannelAssumptions, W!TakeIs DEF W!Connected
<1>4. /\ frames[s] \in Seq(1..MaxSaid) /\ read[s] \in Nat /\ said \in Seq(Messages)
      /\ Len(said) \in Nat
  BY <1>2, <1>3, LenProperties DEF W!TypeOK
<1> HIDE DEF s
<1>5. read[s] + 1 \in DOMAIN frames[s] /\ read[s] + 1 \in 1..Len(frames[s])
  BY <1>3, <1>4, LenProperties
<1>6. frames[s][read[s] + 1] \in 1..Len(said)
  <2>1. frames[s][read[s] + 1] <= Len(said)
    BY <1>2, <1>3, <1>5 DEF W!Numbered
  <2>2. frames[s][read[s] + 1] \in 1..MaxSaid
    BY <1>4, <1>5, ElementOfSeq
  <2> QED
    BY <1>4, <2>1, <2>2
<1>7. Ws!Unread(w) = SubSeq(frames[s], read[s] + 1, Len(frames[s]))
  BY <1>1, <1>3 DEF W!Unread, s
<1>8. Head(SubSeq(frames[s], read[s] + 1, Len(frames[s]))) = frames[s][read[s] + 1]
  BY <1>3, <1>4
<1>9. DOMAIN said = 1..Len(said)
  BY <1>4, LenProperties
<1> QED
  BY <1>6, <1>7, <1>8, <1>9

\* A message changes one step of what the tab shows, or its verdict.
LEMMA AppliedIs ==
    ASSUME NEW t \in Tab, NEW m \in Messages
    PROVE  /\ Applied(t, m) \in Tab
           /\ Applied(t, m).job = t.job
           /\ IsStep(m) =>
                 /\ Applied(t, m).verdict = t.verdict
                 /\ \A o \in Objects, a \in Job!Actions :
                       Applied(t, m).shown[o][a] = IF o = m.object /\ a = m.action
                                                   THEN m.value ELSE t.shown[o][a]
           /\ ~IsStep(m) =>
                 Applied(t, m).verdict = m.value /\ Applied(t, m).shown = t.shown
<1>1. CASE IsStep(m)
  <2>1. /\ m.object \in Objects /\ m.action \in Job!Actions
        /\ m.value \in Job!StepStatus
    BY <1>1, StepsAreMessages DEF Job!StepStatus
  <2>2. t.shown \in [Objects -> [Job!Actions -> Job!StepStatus]]
    BY DEF Tab, Job!Plan
  <2>3. Applied(t, m) = [t EXCEPT !.shown[m.object][m.action] = m.value]
    BY <1>1 DEF Applied, IsStep
  <2> DEFINE p == [t.shown EXCEPT ![m.object][m.action] = m.value]
  <2>4. /\ p \in [Objects -> [Job!Actions -> Job!StepStatus]]
        /\ \A o \in Objects, a \in Job!Actions :
              p[o][a] = IF o = m.object /\ a = m.action THEN m.value ELSE t.shown[o][a]
    BY <2>1, <2>2
  <2>5. Applied(t, m) = [t EXCEPT !.shown = p]
    BY <2>3 DEF Tab
  <2> HIDE DEF p
  <2>6. /\ Applied(t, m) \in Tab /\ Applied(t, m).job = t.job
        /\ Applied(t, m).verdict = t.verdict /\ Applied(t, m).shown = p
    BY <2>4, <2>5 DEF Tab, Job!Plan
  <2> QED
    BY <1>1, <2>4, <2>6
<1>2. CASE ~IsStep(m)
  <2>1. m.value \in {"done", "error"}
    BY <1>2 DEF IsStep, Messages
  <2>2. Applied(t, m) = [t EXCEPT !.verdict = m.value]
    BY <1>2 DEF Applied, IsStep
  <2> QED
    BY <1>2, <2>1, <2>2 DEF Tab
<1> QED
  BY <1>1, <1>2

-----------------------------------------------------------------------------
(* Every step keeps the invariant.                                         *)

LEMMA IInvBegins == Init => IInv
<1> SUFFICES ASSUME Init PROVE IInv
  OBVIOUS
<1>1. P!IInv
  BY JobInits, P!JobInit
<1>2. W!Ordered
  BY ChannelInits, ChannelAssumptions, W!Begin
<1>3. Typed
  BY <1>1, JobTyped, PlansAreFull DEF Init, Typed, P!IInv
<1>4. SaidIsTrue
  BY DEF Init, Ws!Init, SaidIsTrue
<1>5. AcceptedIsThere
  BY DEF Init, AcceptedIsThere
<1>6. \A w \in Windows : TabIsTrue(w)
  BY PlansAreFull DEF Init, TabIsTrue
<1> QED
  BY <1>1, <1>2, <1>3, <1>4, <1>5, <1>6 DEF IInv

LEMMA TypedNext ==
    ASSUME IInv, [Next]_vars
    PROVE  Typed' /\ P!IInv' /\ W!Ordered'
<1>1. P!IInv'
  BY JobSteps, P!JobNext DEF IInv
<1>2. W!Ordered'
  BY ChannelSteps, ChannelAssumptions, W!OrderedStep DEF IInv
<1>3. Job!TypeOK'
  <2>1. P!TypeOK'
    BY <1>1 DEF P!IInv
  <2> QED
    BY <2>1 DEF P!TypeOK, Job!TypeOK, P!JobStatus, Job!JobStatus, P!Plan, Job!Plan,
                P!Actions, Job!Actions, P!StepStatus, Job!StepStatus
<1>4. tab' \in [Windows -> Tab] /\ asker' \in [Jobs -> Windows \union {NoWindow}]
  <2> USE DEF IInv, Typed
  <2>1. ASSUME NEW w \in Windows, NEW j \in Jobs, RunMigration(w, j)
        PROVE  tab' \in [Windows -> Tab] /\ asker' \in [Jobs -> Windows \union {NoWindow}]
    <3>1. [tab[w] EXCEPT !.running = j] \in Tab
      BY DEF Tab
    <3>2. tab' = [tab EXCEPT ![w] = [tab[w] EXCEPT !.running = j]]
      BY <2>1 DEF RunMigration
    <3> QED
      BY <2>1, <3>1, <3>2 DEF RunMigration
  <2>2. ASSUME NEW w \in Windows, Remount(w)
        PROVE  tab' \in [Windows -> Tab] /\ asker' = asker
    <3>1. [tab[w] EXCEPT !.running = NoJob] \in Tab
      BY DEF Tab
    <3>2. tab' = [tab EXCEPT ![w] = [tab[w] EXCEPT !.running = NoJob]]
      BY <2>2 DEF Remount
    <3> QED
      BY <2>2, <3>1, <3>2 DEF Remount
  <2>3. ASSUME NEW w \in Windows, CloseTab(w)
        PROVE  tab' \in [Windows -> Tab] /\ asker' \in [Jobs -> Windows \union {NoWindow}]
    BY <2>3, PlansAreFull DEF CloseTab
  <2>4. ASSUME NEW w \in Windows, Deliver(w)
        PROVE  tab' \in [Windows -> Tab] /\ asker' = asker
    <3>1. PICK n \in DOMAIN said : n = Head(Ws!Unread(w))
      BY <2>4, TakenWasSaid DEF Deliver
    <3>2. said[n] \in Messages
      BY DEF SaidIsTrue
    <3>3. Applied(tab[w], said[n]) \in Tab
      BY <3>2, AppliedIs
    <3>4. tab' = tab \/ tab' = [tab EXCEPT ![w] = Applied(tab[w], said[n])]
      BY <2>4, <3>1 DEF Deliver
    <3> QED
      BY <2>4, <3>3, <3>4 DEF Deliver
  <2>5. ASSUME NEW j \in Jobs, Execute(j) \/ Refuse(j) \/ Work(j) \/ \E o \in Objects : Tick(j, o)
        PROVE  tab' = tab /\ asker' = asker
    BY <2>5 DEF Execute, Refuse, Work, Begin, End, Finish, Abort, Tick, uiVars
  <2>6. ASSUME NEW j \in Jobs, Answered(j)
        PROVE  tab' \in [Windows -> Tab] /\ asker' = asker
    <3>1. [step |-> "running", running |-> NoJob, job |-> j,
           shown |-> Built(j), verdict |-> "running"] \in Tab
      BY BuiltIs DEF Tab
    <3> QED
      BY <2>6, <3>1 DEF Answered
  <2>7. ASSUME NEW j \in Jobs, Failed(j)
        PROVE  tab' \in [Windows -> Tab] /\ asker' = asker
    <3>1. \A w \in Windows : [tab[w] EXCEPT !.running = NoJob] \in Tab
      BY DEF Tab
    <3> QED
      BY <2>7, <3>1 DEF Failed
  <2>8. ASSUME Channel \/ Crash \/ \E w \in Windows : Disconnected(w)
        PROVE  tab' = tab /\ asker' = asker
    BY <2>8 DEF Channel, Crash, Disconnected, uiVars
  <2>9. CASE UNCHANGED vars
    BY <2>9 DEF vars, uiVars
  <2> QED
    BY <2>1, <2>2, <2>3, <2>4, <2>5, <2>6, <2>7, <2>8, <2>9 DEF Next
<1> QED
  BY <1>1, <1>2, <1>3, <1>4 DEF Typed

LEMMA AcceptedNext ==
    ASSUME IInv, [Next]_vars
    PROVE  AcceptedIsThere'
<1>1. \A j \in Jobs : GoesOn(j)
  BY JobsGoOn DEF IInv, Typed
<1> SUFFICES ASSUME NEW j \in Jobs, posts'[j] = "accepted" PROVE status'[j] # "absent"
  BY DEF AcceptedIsThere
<1>2. CASE posts[j] = "accepted"
  BY <1>1, <1>2 DEF IInv, AcceptedIsThere, GoesOn
<1>3. CASE posts[j] # "accepted"
  <2>1. Execute(j)
    <3>1. ASSUME NEW i \in Jobs, Refuse(i) \/ Answered(i) \/ Failed(i)
                 \/ (\E w \in Windows : RunMigration(w, i))
          PROVE  posts'[j] = posts[j] \/ posts'[j] # "accepted"
      <4>1. \E v \in {"sent", "refused", "over"} : posts' = [posts EXCEPT ![i] = v]
        BY <3>1 DEF Refuse, Answered, Failed, RunMigration
      <4>2. PICK v \in {"sent", "refused", "over"} : posts' = [posts EXCEPT ![i] = v]
        BY <4>1
      <4>3. CASE i = j /\ j \in DOMAIN posts
        BY <4>2, <4>3
      <4>4. CASE i # j \/ j \notin DOMAIN posts
        BY <4>2, <4>4
      <4> QED
        BY <4>3, <4>4
    <3>2. ASSUME NEW w \in Windows, Remount(w) \/ CloseTab(w) \/ Deliver(w) \/ Disconnected(w)
          PROVE  posts' = posts
      BY <3>2 DEF Remount, CloseTab, Deliver, Disconnected, uiVars
    <3>3. ASSUME NEW i \in Jobs, Work(i) \/ \E o \in Objects : Tick(i, o)
          PROVE  posts' = posts
      BY <3>3 DEF Work, Begin, End, Finish, Abort, Tick, uiVars
    <3>4. Channel \/ UNCHANGED vars => posts' = posts
      BY DEF Channel, vars, uiVars
    <3>5. Crash => posts'[j] = posts[j] \/ posts'[j] = "refused"
      BY DEF Crash
    <3>6. ASSUME NEW i \in Jobs, Execute(i), i # j PROVE posts'[j] = posts[j]
      BY <3>6 DEF Execute
    <3> QED
      BY <1>3, <3>1, <3>2, <3>3, <3>4, <3>5, <3>6 DEF Next
  <2> QED
    BY <2>1 DEF Execute, Job!Submit, IInv, Typed, Job!TypeOK
<1> QED
  BY <1>2, <1>3

\* What a tab shows stays true while the jobs go on.
LEMMA TabWaits ==
    ASSUME IInv, \A j \in Jobs : GoesOn(j), NEW w \in Windows, TabIsTrue(w),
           tab'[w].job = tab[w].job, tab'[w].verdict = tab[w].verdict,
           tab'[w].shown = tab[w].shown
    PROVE  TabIsTrue(w)'
<1> SUFFICES ASSUME tab'[w].job # NoJob PROVE TabIsTrue(w)'
  BY DEF TabIsTrue
<1>1. tab[w].job \in Jobs /\ tab[w].job # NoJob
  BY DEF IInv, Typed, Tab
<1> QED
  BY <1>1 DEF TabIsTrue, GoesOn

\* A message is shown by the tab of its job, and is true of it.
LEMMA TabHears ==
    ASSUME IInv, \A j \in Jobs : GoesOn(j), NEW w \in Windows, TabIsTrue(w),
           NEW m \in Messages, Truth(m), Concerns(w, m),
           tab'[w] = Applied(tab[w], m), UNCHANGED jobVars
    PROVE  TabIsTrue(w)'
<1> DEFINE j == tab[w].job
<1>1. tab[w] \in Tab /\ j = m.job /\ j \in Jobs
  BY DEF IInv, Typed, Concerns, Messages
<1>2. j # NoJob
  BY <1>1, NoJobAssumption DEF NoJob
<1>3. tab'[w].job = j
  BY <1>1, AppliedIs
<1>4. /\ status[j] # "absent"
      /\ tab[w].verdict \in {"done", "error"} => status[j] = tab[w].verdict
      /\ \A o \in Objects, a \in Job!Actions :
            /\ (tab[w].shown[o][a] = "none") <=> (steps[j][o][a] = "none")
            /\ tab[w].shown[o][a] \in {"done", "error"} => steps[j][o][a] = tab[w].shown[o][a]
            /\ tab[w].shown[o][a] = "running" => steps[j][o][a] # "pending"
  BY <1>2 DEF TabIsTrue
<1> HIDE DEF j
<1>5. CASE IsStep(m)
  <2>1. /\ tab'[w].verdict = tab[w].verdict
        /\ \A o \in Objects, a \in Job!Actions :
              tab'[w].shown[o][a] = IF o = m.object /\ a = m.action
                                    THEN m.value ELSE tab[w].shown[o][a]
    BY <1>1, <1>5, AppliedIs
  <2>2. /\ m.value \in {"running", "done", "error"}
        /\ steps[j][m.object][m.action] \notin {"none", "pending"}
        /\ m.value \in {"done", "error"} => steps[j][m.object][m.action] = m.value
    BY <1>1, <1>5, StepsAreMessages DEF Truth
  <2>3. ASSUME NEW o \in Objects, NEW a \in Job!Actions
        PROVE  /\ (tab'[w].shown[o][a] = "none") <=> (steps[j][o][a] = "none")
               /\ tab'[w].shown[o][a] \in {"done", "error"} =>
                      steps[j][o][a] = tab'[w].shown[o][a]
               /\ tab'[w].shown[o][a] = "running" => steps[j][o][a] # "pending"
    <3>1. CASE o = m.object /\ a = m.action
      BY <2>1, <2>2, <3>1
    <3>2. CASE ~(o = m.object /\ a = m.action)
      BY <1>4, <2>1, <3>2
    <3> QED
      BY <3>1, <3>2
  <2> QED
    BY <1>3, <1>4, <2>1, <2>3 DEF TabIsTrue, jobVars
<1>6. CASE ~IsStep(m)
  <2>1. tab'[w].verdict = m.value /\ tab'[w].shown = tab[w].shown
    BY <1>1, <1>6, AppliedIs
  <2>2. status[j] = m.value
    BY <1>1, <1>6 DEF Truth
  <2> QED
    BY <1>3, <1>4, <2>1, <2>2 DEF TabIsTrue, jobVars
<1> QED
  BY <1>5, <1>6

\* The answer shows the steps as they were built.
LEMMA TabIsAnswered ==
    ASSUME IInv, NEW j \in Jobs, Answered(j), NEW w \in Windows, TabIsTrue(w)
    PROVE  TabIsTrue(w)'
<1>1. tab \in [Windows -> Tab] /\ Job!TypeOK /\ UNCHANGED jobVars
  BY DEF IInv, Typed, Answered
<1>2. CASE asker[j] = w /\ asker[j] # NoWindow
  <2>1. tab'[w] = [step |-> "running", running |-> NoJob, job |-> j,
                   shown |-> Built(j), verdict |-> "running"]
    BY <1>1, <1>2 DEF Answered
  <2>2. tab'[w].job = j /\ tab'[w].verdict = "running" /\ tab'[w].shown = Built(j)
    BY <2>1
  <2>3. status[j] # "absent"
    BY DEF IInv, AcceptedIsThere, Answered
  <2>4. \A o \in Objects, a \in Job!Actions :
           Built(j)[o][a] = IF steps[j][o][a] = "none" THEN "none" ELSE "pending"
    BY <1>1, BuiltIs
  <2>5. \A o \in Objects, a \in Job!Actions :
           tab'[w].shown[o][a] = IF steps[j][o][a] = "none" THEN "none" ELSE "pending"
    BY <2>2, <2>4
  <2> QED
    BY <1>1, <2>2, <2>3, <2>5 DEF TabIsTrue, jobVars
<1>3. CASE ~(asker[j] = w /\ asker[j] # NoWindow)
  <2>1. tab'[w] = tab[w]
    BY <1>1, <1>3 DEF Answered
  <2> QED
    BY <1>1, <2>1 DEF TabIsTrue, jobVars
<1> QED
  BY <1>2, <1>3

LEMMA TabNext ==
    ASSUME IInv, [Next]_vars, NEW w \in Windows
    PROVE  TabIsTrue(w)'
<1> USE DEF IInv, Typed
<1>1. \A j \in Jobs : GoesOn(j)
  BY JobsGoOn
<1>2. TabIsTrue(w)
  OBVIOUS
<1>3. ASSUME tab' = tab PROVE TabIsTrue(w)'
  BY <1>1, <1>2, <1>3, TabWaits
<1>4. ASSUME NEW v \in Windows, NEW j \in Jobs, RunMigration(v, j) PROVE TabIsTrue(w)'
  <2>1. /\ tab'[w].job = tab[w].job /\ tab'[w].verdict = tab[w].verdict
        /\ tab'[w].shown = tab[w].shown
    BY <1>4 DEF RunMigration, Tab
  <2> QED
    BY <1>1, <1>2, <2>1, TabWaits
<1>5. ASSUME NEW v \in Windows, Remount(v) PROVE TabIsTrue(w)'
  <2>1. /\ tab'[w].job = tab[w].job /\ tab'[w].verdict = tab[w].verdict
        /\ tab'[w].shown = tab[w].shown
    BY <1>5 DEF Remount, Tab
  <2> QED
    BY <1>1, <1>2, <2>1, TabWaits
<1>6. ASSUME NEW v \in Windows, CloseTab(v) PROVE TabIsTrue(w)'
  <2>1. CASE v = w
    BY <1>6, <2>1, PlansAreFull DEF CloseTab, TabIsTrue
  <2>2. CASE v # w
    <3>1. tab'[w] = tab[w]
      BY <1>6, <2>2 DEF CloseTab
    <3> QED
      BY <1>1, <1>2, <3>1, TabWaits
  <2> QED
    BY <2>1, <2>2
<1>7. ASSUME NEW v \in Windows, Deliver(v) PROVE TabIsTrue(w)'
  <2>1. PICK n \in DOMAIN said : n = Head(Ws!Unread(v))
    BY <1>7, TakenWasSaid DEF Deliver
  <2>2. said[n] \in Messages /\ Truth(said[n])
    BY DEF SaidIsTrue
  <2>3. PICK m \in Messages : m = said[n] /\ Truth(m)
    BY <2>2
  <2>4. CASE v = w /\ Concerns(w, m)
    <3>1. tab'[w] = Applied(tab[w], m) /\ UNCHANGED jobVars
      BY <1>7, <2>1, <2>3, <2>4 DEF Deliver
    <3> QED
      BY <1>1, <1>2, <2>3, <2>4, <3>1, TabHears
  <2>5. CASE ~(v = w /\ Concerns(w, m))
    <3>1. tab'[w] = tab[w]
      BY <1>7, <2>1, <2>3, <2>5 DEF Deliver
    <3> QED
      BY <1>1, <1>2, <3>1, TabWaits
  <2> QED
    BY <2>4, <2>5
<1>8. ASSUME NEW j \in Jobs, Answered(j) PROVE TabIsTrue(w)'
  BY <1>2, <1>8, TabIsAnswered
<1>9. ASSUME NEW j \in Jobs, Failed(j) PROVE TabIsTrue(w)'
  <2>1. /\ tab'[w].job = tab[w].job /\ tab'[w].verdict = tab[w].verdict
        /\ tab'[w].shown = tab[w].shown
    BY <1>9 DEF Failed, Tab
  <2> QED
    BY <1>1, <1>2, <2>1, TabWaits
<1>10. ASSUME NEW j \in Jobs, Execute(j) \/ Refuse(j) \/ Work(j) \/ \E o \in Objects : Tick(j, o)
       PROVE  tab' = tab
  BY <1>10 DEF Execute, Refuse, Work, Begin, End, Finish, Abort, Tick, uiVars
<1>11. ASSUME Channel \/ Crash \/ \E v \in Windows : Disconnected(v)
       PROVE  tab' = tab
  BY <1>11 DEF Channel, Crash, Disconnected, uiVars
<1>12. CASE UNCHANGED vars
  BY <1>3, <1>12 DEF vars, uiVars
<1> QED
  BY <1>3, <1>4, <1>5, <1>6, <1>7, <1>8, <1>9, <1>10, <1>11, <1>12 DEF Next

LEMMA AlwaysTrue == Spec => []IInv
<1>1. IInv /\ [Next]_vars => IInv'
  <2> SUFFICES ASSUME IInv, [Next]_vars PROVE IInv'
    OBVIOUS
  <2>1. \A w \in Windows : TabIsTrue(w)'
    BY TabNext
  <2> QED
    BY <2>1, TypedNext, SaidNext, AcceptedNext DEF IInv
<1> QED
  BY <1>1, IInvBegins, PTL DEF Spec

-----------------------------------------------------------------------------
(* The theorems.                                                           *)

\* Whatever the channel loses, holds up or brings twice, however many windows and
\* jobs there are, and wherever the server dies: a migration tab shows no step and
\* no verdict that its own job has not come to.
THEOREM TabsAreNeverAhead == Spec => []NeverAhead
<1>1. IInv => NeverAhead
  BY DEF IInv, TabIsTrue, NeverAhead
<1> QED
  BY <1>1, AlwaysTrue, PTL

\* A tab that says a migration is done is right about all of it: every step of its
\* job is done, none failed, was left out or still runs, those included whose
\* messages never reached the tab.
DoneIsDone ==
    \A w \in Windows : tab[w].job # NoJob /\ tab[w].verdict = "done" =>
        \A o \in Objects, a \in Job!Actions : steps[tab[w].job][o][a] \in {"none", "done"}

THEOREM DoneTabsAreRight == Spec => []DoneIsDone
<1>1. ASSUME IInv, NEW w \in Windows, tab[w].job # NoJob, tab[w].verdict = "done"
      PROVE  \A o \in Objects, a \in Job!Actions : steps[tab[w].job][o][a] \in {"none", "done"}
  <2>1. tab[w].job \in Jobs
    BY <1>1 DEF IInv, Typed, Tab
  <2>2. status[tab[w].job] = "done"
    BY <1>1 DEF IInv, TabIsTrue
  <2> QED
    BY <1>1, <2>1, <2>2 DEF IInv, P!IInv, P!DoneIsComplete, P!Actions, Job!Actions
<1>2. IInv => DoneIsDone
  BY <1>1 DEF DoneIsDone
<1> QED
  BY <1>2, AlwaysTrue, PTL

=============================================================================
