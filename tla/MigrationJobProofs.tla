--------------------------- MODULE MigrationJobProofs ---------------------------
(***************************************************************************)
(* Theorems about the step protocol MigrationJob, for any set of jobs and  *)
(* of objects.  The invariant IInv is inductive as the conjunction of what *)
(* TLC checks and of AbsentIsEmpty: a step that ends must find the steps   *)
(* before it done, which only StepsInOrder of the state before can say.    *)
(***************************************************************************)
EXTENDS MigrationJob, TLAPS

\* A job that was not submitted has no steps.
AbsentIsEmpty == \A j \in Jobs : status[j] = "absent" => steps[j] = NoSteps

IInv == TypeOK /\ AbsentIsEmpty /\ StepsInOrder /\ DoneIsComplete /\ FailureIsIsolated

LEMMA StatusesDiffer ==
    /\ NoSteps \in Plan
    /\ \A o \in Objects, a \in Actions : NoSteps[o][a] = "none"
BY DEF NoSteps, Plan, StepStatus

LEMMA JobInit == Init => IInv
BY StatusesDiffer DEF Init, IInv, TypeOK, AbsentIsEmpty, StepsInOrder, DoneIsComplete,
                      FailureIsIsolated, JobStatus

\* How one step's status changes its object: an object already left stays left.
LEMMA OneStepMoves ==
    ASSUME NEW p \in Plan, NEW o \in Objects, NEW a \in Actions, NEW s \in StepStatus,
           p[o][a] \in {"pending", "running"}
    PROVE  LET r == [p EXCEPT ![o][a] = s]
           IN  /\ r \in Plan
               /\ r[o][a] = s
               /\ \A q \in Objects, b \in Actions :
                     (q = o /\ b = a) \/ r[q][b] = p[q][b]
               /\ \A q \in Objects : Settled(p, q) => Settled(r, q)
<1> DEFINE r == [p EXCEPT ![o][a] = s]
<1>1. /\ r \in Plan
      /\ r[o][a] = s
      /\ \A q \in Objects, b \in Actions : (q = o /\ b = a) \/ r[q][b] = p[q][b]
  BY DEF Plan
<1>2. ASSUME NEW q \in Objects, Settled(p, q)
      PROVE  Settled(r, q)
  <2>1. CASE q = o
    <3>1. PICK c \in Actions : p[o][c] = "error"
      BY <1>2, <2>1 DEF Settled, Failed
    <3>2. r[o][c] = "error"
      BY <1>1, <3>1
    <3> QED
      BY <2>1, <3>2 DEF Settled, Failed
  <2>2. CASE q # o
    BY <1>1, <1>2, <2>2 DEF Settled, Failed
  <2> QED
    BY <2>1, <2>2
<1> QED
  BY <1>1, <1>2

\* Changing a step that is waiting or running keeps the order of the steps, when
\* the steps and objects before it are through.
LEMMA OrderKept ==
    ASSUME IInv, NEW j \in Jobs, NEW o \in Objects, NEW a \in Actions,
           NEW s \in StepStatus,
           steps[j][o][a] \in {"pending", "running"},
           \A b \in Actions : Rank[b] < Rank[a] => steps[j][o][b] \in {"none", "done"},
           \A q \in Objects : q < o => Settled(steps[j], q),
           steps' = [steps EXCEPT ![j][o][a] = s]
    PROVE  /\ steps' \in [Jobs -> Plan]
           /\ \A i \in Jobs : i # j => steps'[i] = steps[i]
           /\ StepsInOrder'
<1>1. steps[j] \in Plan
  BY DEF IInv, TypeOK
<1>2. /\ steps'[j] = [steps[j] EXCEPT ![o][a] = s]
      /\ \A i \in Jobs : i # j => steps'[i] = steps[i]
  BY DEF IInv, TypeOK
<1>3. /\ steps'[j] \in Plan
      /\ \A q \in Objects, b \in Actions :
            (q = o /\ b = a) \/ steps'[j][q][b] = steps[j][q][b]
      /\ \A q \in Objects : Settled(steps[j], q) => Settled(steps'[j], q)
  BY <1>1, <1>2, OneStepMoves
<1>4. steps' \in [Jobs -> Plan]
  BY <1>2, <1>3 DEF IInv, TypeOK
<1>5. ASSUME NEW i \in Jobs, NEW p \in Objects, NEW c \in Actions,
             steps'[i][p][c] \in {"running", "done", "error"}
      PROVE  /\ \A b \in Actions : Rank[b] < Rank[c] => steps'[i][p][b] \in {"none", "done"}
             /\ \A q \in Objects : q < p => Settled(steps'[i], q)
  <2>1. CASE i # j
    BY <1>2, <1>5, <2>1 DEF IInv, StepsInOrder
  <2>2. CASE i = j /\ p = o /\ c = a
    <3>1. \A b \in Actions : Rank[b] < Rank[a] => b # a
      BY DEF Rank, Actions
    <3> QED
      BY <1>3, <2>2, <3>1
  <2>3. CASE i = j /\ ~(p = o /\ c = a)
    <3>1. steps[j][p][c] \in {"running", "done", "error"}
      BY <1>3, <1>5, <2>3
    <3>2. /\ \A b \in Actions : Rank[b] < Rank[c] => steps[j][p][b] \in {"none", "done"}
          /\ \A q \in Objects : q < p => Settled(steps[j], q)
      BY <3>1 DEF IInv, StepsInOrder
    <3> QED
      BY <1>3, <2>3, <3>2
  <2> QED
    BY <2>1, <2>2, <2>3
<1> QED
  BY <1>2, <1>4, <1>5 DEF StepsInOrder

-----------------------------------------------------------------------------
LEMMA SubmitKeeps ==
    ASSUME IInv, NEW j \in Jobs, NEW built \in [Objects -> SUBSET Actions], Submit(j, built)
    PROVE  IInv'
<1>1. /\ status[j] = "absent" /\ status'[j] = "running"
      /\ \A i \in Jobs : i # j => status'[i] = status[i] /\ steps'[i] = steps[i]
      /\ status' \in [Jobs -> JobStatus]
      /\ steps' \in [Jobs -> Plan]
      /\ \A o \in Objects, a \in Actions : steps'[j][o][a] \in {"none", "pending"}
  BY DEF Submit, IInv, TypeOK, JobStatus, Plan, StepStatus
<1> QED
  BY <1>1 DEF IInv, TypeOK, AbsentIsEmpty, StepsInOrder, DoneIsComplete, FailureIsIsolated

LEMMA MoveKeeps ==
    ASSUME IInv, NEW j \in Jobs, NEW o \in Objects, NEW a \in Actions,
           \/ Begin(j, o, a)
           \/ \E outcome \in {"done", "error"} : End(j, o, a, outcome)
    PROVE  IInv'
<1>1. PICK s \in StepStatus :
        /\ status[j] = "running" /\ UNCHANGED status
        /\ steps[j][o][a] \in {"pending", "running"}
        /\ \A b \in Actions : Rank[b] < Rank[a] => steps[j][o][b] \in {"none", "done"}
        /\ \A q \in Objects : q < o => Settled(steps[j], q)
        /\ steps' = [steps EXCEPT ![j][o][a] = s]
  BY DEF Begin, End, Ready, StepStatus, IInv, StepsInOrder
<1>2. /\ steps' \in [Jobs -> Plan]
      /\ \A i \in Jobs : i # j => steps'[i] = steps[i]
      /\ StepsInOrder'
  BY <1>1, OrderKept
<1> QED
  BY <1>1, <1>2 DEF IInv, TypeOK, AbsentIsEmpty, DoneIsComplete, FailureIsIsolated

LEMMA VerdictKeeps ==
    ASSUME IInv, NEW j \in Jobs, Finish(j) \/ Abort(j)
    PROVE  IInv'
<1>1. /\ UNCHANGED steps
      /\ status[j] = "running" /\ status'[j] \in {"done", "error"}
      /\ \A i \in Jobs : i # j => status'[i] = status[i]
      /\ status' \in [Jobs -> JobStatus]
      /\ status'[j] = "done" => \A o \in Objects : Settled(steps[j], o) /\ ~Failed(steps[j], o)
      /\ status'[j] = "error" =>
            \/ \A o \in Objects, a \in Actions : steps[j][o][a] \in {"none", "pending"}
            \/ \A o \in Objects : Settled(steps[j], o)
  BY DEF Finish, Abort, Outcome, IInv, TypeOK, JobStatus
<1> QED
  BY <1>1 DEF IInv, TypeOK, AbsentIsEmpty, StepsInOrder, DoneIsComplete, FailureIsIsolated,
              Settled

LEMMA CrashKeeps ==
    ASSUME IInv, Crash
    PROVE  IInv'
<1>1. /\ UNCHANGED steps
      /\ status' \in [Jobs -> JobStatus]
      /\ \A j \in Jobs : status'[j] = status[j] \/ status'[j] = "lost"
  BY DEF Crash, IInv, TypeOK, JobStatus
<1> QED
  BY <1>1 DEF IInv, TypeOK, AbsentIsEmpty, StepsInOrder, DoneIsComplete, FailureIsIsolated

LEMMA JobNext == IInv /\ [Next]_vars => IInv'
<1> SUFFICES ASSUME IInv, [Next]_vars PROVE IInv'
  OBVIOUS
<1>1. CASE UNCHANGED vars
  BY <1>1 DEF vars, IInv, TypeOK, AbsentIsEmpty, StepsInOrder, DoneIsComplete, FailureIsIsolated
<1> QED
  BY <1>1, SubmitKeeps, MoveKeeps, VerdictKeeps, CrashKeeps DEF Next

\* Whatever the jobs and the objects are: steps run one by one and in order, a
\* job that says "done" did all of them, and a failure stays with its object.
THEOREM ProtocolCorrect ==
    Spec => [](TypeOK /\ StepsInOrder /\ DoneIsComplete /\ FailureIsIsolated)
<1>1. IInv => TypeOK /\ StepsInOrder /\ DoneIsComplete /\ FailureIsIsolated
  BY DEF IInv
<1> QED
  BY <1>1, JobInit, JobNext, PTL DEF Spec

\* No verdict and no outcome is ever taken back.
THEOREM ProtocolFinal == Spec => OutcomesAreFinal
<1>1. ASSUME IInv, [Next]_vars, NEW j \in Jobs
      PROVE  /\ status[j] \in {"done", "error", "lost"} =>
                   status'[j] = status[j] /\ steps'[j] = steps[j]
             /\ \A o \in Objects, a \in Actions :
                   steps[j][o][a] \in {"done", "error"} =>
                       steps'[j][o][a] = steps[j][o][a]
  <2>1. ASSUME NEW i \in Jobs, NEW built \in [Objects -> SUBSET Actions], Submit(i, built)
        PROVE  /\ status[i] = "absent" /\ steps[i] = NoSteps
               /\ \A k \in Jobs : k # i => status'[k] = status[k] /\ steps'[k] = steps[k]
    BY <1>1, <2>1 DEF Submit, IInv, TypeOK, AbsentIsEmpty
  <2>2. ASSUME NEW i \in Jobs, NEW p \in Objects, NEW b \in Actions,
               \/ Begin(i, p, b)
               \/ \E outcome \in {"done", "error"} : End(i, p, b, outcome)
        PROVE  /\ status[i] = "running" /\ UNCHANGED status
               /\ \A k \in Jobs : k # i => steps'[k] = steps[k]
               /\ \A o \in Objects, a \in Actions :
                     steps[i][o][a] \in {"done", "error"} =>
                         steps'[i][o][a] = steps[i][o][a]
    <3>1. PICK s \in StepStatus :
            /\ status[i] = "running" /\ UNCHANGED status
            /\ steps[i][p][b] \in {"pending", "running"}
            /\ steps' = [steps EXCEPT ![i][p][b] = s]
      BY <2>2 DEF Begin, End, Ready, StepStatus
    <3>2. steps[i] \in Plan /\ steps'[i] = [steps[i] EXCEPT ![p][b] = s]
      BY <1>1, <3>1 DEF IInv, TypeOK
    <3>3. \A q \in Objects, c \in Actions :
             (q = p /\ c = b) \/ steps'[i][q][c] = steps[i][q][c]
      BY <3>1, <3>2, OneStepMoves
    <3> QED
      BY <1>1, <3>1, <3>3 DEF IInv, TypeOK
  <2>3. ASSUME NEW i \in Jobs, Finish(i) \/ Abort(i)
        PROVE  /\ status[i] = "running" /\ UNCHANGED steps
               /\ \A k \in Jobs : k # i => status'[k] = status[k]
    BY <1>1, <2>3 DEF Finish, Abort, IInv, TypeOK
  <2>4. CASE Crash
    BY <2>4 DEF Crash
  <2>5. CASE UNCHANGED vars
    BY <2>5 DEF vars
  <2> QED
    BY <1>1, <2>1, <2>2, <2>3, <2>4, <2>5, StatusesDiffer DEF Next
<1>2. IInv /\ [Next]_vars =>
        [\A j \in Jobs :
            /\ status[j] \in {"done", "error", "lost"} =>
                  status'[j] = status[j] /\ steps'[j] = steps[j]
            /\ \A o \in Objects, a \in Actions :
                  steps[j][o][a] \in {"done", "error"} =>
                      steps'[j][o][a] = steps[j][o][a]]_vars
  BY <1>1
<1> QED
  BY <1>2, JobInit, JobNext, PTL DEF Spec, OutcomesAreFinal
=============================================================================
