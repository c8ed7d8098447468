--------------------------- MODULE DesktopShellProofs ---------------------------
(***************************************************************************)
(* Proof that the desktop shell runs one backend at a time (OneBackend),   *)
(* restarts it no oftener than it may (RestartsBounded) and leaves nothing *)
(* behind (QuitLeavesNothing), whatever crashes, picks and quits, for any  *)
(* number of processes.                                                    *)
(*                                                                         *)
(* The shell is one thread, so the proofs follow its calls: what Start,    *)
(* Stop, Quit and the handler of "exit" make of a sound state of the       *)
(* shell, then the actions that make those calls.                          *)
(***************************************************************************)
EXTENDS DesktopShell, FiniteSetTheorems, TLAPS

ShellType == [procs : [Procs -> Proc],
              sidecar : [proc : Ports, port : Ports, stopping : BOOLEAN,
                         restarts : SUBSET Exits],
              owned : BOOLEAN, phase : {"up", "quitting", "closing", "gone"}, mcp : Ports,
              autos : SUBSET Exits, hurried : BOOLEAN]

\* The only process alive is either the one in proc, which nobody has stopped, or one
\* that was stopped and is waited for.
Sound(s) ==
    /\ \A p, q \in Live(s.procs) : p = q
    /\ \A p \in Live(s.procs) :
          IF s.procs[p].waiter = "nobody"
          THEN p = s.sidecar.proc
          ELSE s.sidecar.proc = 0 /\ s.sidecar.stopping
    /\ s.sidecar.proc # 0 => ~s.sidecar.stopping
    /\ s.sidecar.proc # 0 /\ s.phase # "gone" => s.sidecar.proc \in Live(s.procs)

Kept(s) == s \in ShellType /\ (s.hurried \/ Sound(s))

IInv == Kept(Shell) /\ now \in 0..MaxTime

-----------------------------------------------------------------------------
(* The functions.                                                          *)

LEMMA ZeroIsPort == 0 \in Ports
  BY ShellAssumption DEF Ports

\* start, called when no process is alive.
LEMMA StartKept ==
    ASSUME NEW s \in ShellType, NEW port \in Ports, s.phase # "gone",
           \E p \in Procs : s.procs[p].state = "unborn",
           s.hurried \/ Live(s.procs) = {}
    PROVE  /\ Kept(Start(s, port))
           /\ Start(s, port).phase = s.phase
           /\ Start(s, port).hurried = s.hurried
           /\ Room(s) => \E p \in Procs : Start(s, port).procs[p].state = "unborn"
<1> DEFINE n == NextProc(s)
           t == Start(s, port)
<1>1. n \in Procs /\ s.procs[n].state = "unborn"
  BY DEF NextProc
<1>2. [Unborn EXCEPT !.state = "starting", !.asks = port] \in Proc
  <2>1. Unborn \in Proc
    BY ZeroIsPort DEF Unborn, Proc
  <2> QED
    BY <2>1 DEF Proc
<1>3. /\ t.procs = [s.procs EXCEPT ![n] = [Unborn EXCEPT !.state = "starting", !.asks = port]]
      /\ t.sidecar.proc = n /\ t.sidecar.port = 0 /\ t.sidecar.stopping = FALSE
      /\ t.sidecar.restarts = s.sidecar.restarts
      /\ t.owned = s.owned /\ t.phase = s.phase /\ t.mcp = s.mcp /\ t.autos = s.autos
      /\ t.hurried = s.hurried
  BY DEF Start, ShellType
<1>4. t \in ShellType
  <2>1. n \in Ports /\ 0 \in Ports
    BY <1>1, ShellAssumption DEF Procs, Ports
  <2>2. t.procs \in [Procs -> Proc]
    BY <1>1, <1>2, <1>3 DEF ShellType
  <2>3. t = [s EXCEPT !.procs = t.procs, !.sidecar = t.sidecar]
    BY DEF Start, ShellType
  <2>4. t.sidecar = [s.sidecar EXCEPT !.proc = n, !.port = 0, !.stopping = FALSE]
    BY DEF Start, ShellType
  <2>5. t.sidecar \in [proc : Ports, port : Ports, stopping : BOOLEAN,
                        restarts : SUBSET Exits]
    BY <2>1, <2>4 DEF ShellType
  <2> HIDE DEF t
  <2> QED
    BY <2>2, <2>3, <2>5 DEF ShellType
<1>5. ASSUME Live(s.procs) = {}  PROVE  Sound(t)
  <2>1. t.procs[n].waiter = "nobody" /\ t.procs[n].state = "starting"
    BY <1>1, <1>2, <1>3 DEF ShellType, Unborn
  <2>2. \A p \in Procs : p # n => t.procs[p] = s.procs[p]
    BY <1>1, <1>3 DEF ShellType
  <2>3. Live(t.procs) = {n}
    BY <1>1, <1>5, <2>1, <2>2 DEF Live
  <2> QED
    BY <1>3, <2>1, <2>3 DEF Sound
<1>6. ASSUME Room(s)  PROVE  \E p \in Procs : t.procs[p].state = "unborn"
  BY <1>1, <1>3, <1>6 DEF Room, ShellType
<1> QED
  BY <1>3, <1>4, <1>5, <1>6 DEF Kept

\* The second app.quit().
LEMMA CloseKept ==
    ASSUME NEW s, Kept(s), s.phase # "gone"
    PROVE  LET t == [s EXCEPT !.mcp = 0, !.phase = "closing"]
           IN  Kept(t) /\ t.phase # "gone" /\ t.hurried = s.hurried /\ t.procs = s.procs
<1> DEFINE t == [s EXCEPT !.mcp = 0, !.phase = "closing"]
<1>1. /\ t.procs = s.procs /\ t.sidecar = s.sidecar /\ t.phase = "closing"
      /\ t.hurried = s.hurried
  BY DEF Kept, ShellType
<1>2. t \in ShellType
  BY ZeroIsPort DEF Kept, ShellType
<1>3. Sound(s) => Sound(t)
  BY <1>1 DEF Sound
<1> QED
  BY <1>1, <1>2, <1>3 DEF Kept

\* What follows an exit that was waited for: no process is alive.
LEMMA ResumeKept ==
    ASSUME NEW s, Kept(s), s.phase # "gone", s.hurried \/ Live(s.procs) = {},
           NEW who \in {"restart", "quit"}, NEW back \in Ports,
           who = "restart" => \E p \in Procs : s.procs[p].state = "unborn"
    PROVE  /\ Kept(Resume(s, who, back)) /\ Resume(s, who, back).phase # "gone"
           /\ Resume(s, who, back).hurried = s.hurried
           /\ who = "quit" => Resume(s, who, back).procs = s.procs
<1>1. CASE who = "restart"
  BY <1>1, StartKept DEF Resume, Kept
<1>2. CASE who = "quit"
  BY <1>2, CloseKept DEF Resume
<1> QED
  BY <1>1, <1>2

\* stop, called when nobody waits for an exit yet.
LEMMA StopKept ==
    ASSUME NEW s, Kept(s), s.phase # "gone", s.hurried \/ Awaited(s) = {},
           NEW who \in {"restart", "quit"}, NEW back \in Ports,
           who = "restart" => \E p \in Procs : s.procs[p].state = "unborn"
    PROVE  /\ Kept(Stop(s, who, back)) /\ Stop(s, who, back).phase # "gone"
           /\ Stop(s, who, back).hurried = s.hurried
           /\ who = "quit" /\ Room(s) => Room(Stop(s, who, back))
<1> DEFINE n == s.sidecar.proc
           t == Stop(s, who, back)
<1> USE DEF Kept
<1>1. CASE n = 0
  <2>1. ASSUME ~s.hurried, NEW p \in Live(s.procs)  PROVE  FALSE
    <3>1. s.procs[p].waiter = "nobody" /\ p \in Procs
      BY <2>1 DEF Awaited, Live
    <3>2. p = 0
      BY <1>1, <2>1, <3>1 DEF Sound
    <3> QED
      BY <3>1, <3>2 DEF Procs
  <2> QED
    BY <1>1, <2>1, ResumeKept DEF Stop, Room
<1>2. CASE n # 0
  <2>1. n \in Procs
    BY <1>2, ShellAssumption DEF ShellType, Ports, Procs
  <2> DEFINE w == Told(s.procs[n], who, back)
             z == [s.sidecar EXCEPT !.stopping = TRUE, !.proc = 0]
  <2>2. t = [s EXCEPT !.sidecar = z, !.procs = [s.procs EXCEPT ![n] = w]]
    BY <1>2 DEF Stop
  <2>3. w \in Proc /\ w.waiter = who /\ w.state = s.procs[n].state
    <3>1. s.procs[n] \in Proc
      BY <2>1 DEF ShellType
    <3> QED
      BY <3>1 DEF Told, Proc
  <2>4. /\ z \in [proc : Ports, port : Ports, stopping : BOOLEAN, restarts : SUBSET Exits]
        /\ z.proc = 0 /\ z.stopping
    BY ZeroIsPort DEF ShellType
  <2> HIDE DEF w, z, t
  <2>6. /\ t.procs = [s.procs EXCEPT ![n] = w] /\ t.sidecar = z
        /\ t.phase = s.phase /\ t.hurried = s.hurried /\ t \in ShellType
    BY <2>1, <2>2, <2>3, <2>4 DEF ShellType
  <2>5. ASSUME ~s.hurried  PROVE  Sound(t)
    <3>1. Sound(s) /\ n \in Live(s.procs)
      BY <1>2, <2>5 DEF Sound
    <3>2. t.procs[n].waiter = who
      BY <2>1, <2>3, <2>6 DEF ShellType
    <3>3. Live(t.procs) = Live(s.procs)
      BY <2>1, <2>3, <2>6 DEF Live, ShellType
    <3>4. \A p \in Live(t.procs) : p = n
      BY <3>1, <3>3 DEF Sound
    <3> QED
      BY <2>4, <2>6, <3>2, <3>4 DEF Sound
  <2>7. Room(s) => Room(t)
    BY <2>1, <2>3, <2>6 DEF Room, ShellType
  <2> QED
    BY <2>5, <2>6, <2>7 DEF t
<1> QED
  BY <1>1, <1>2

\* app.quit() in any state of the shell.
LEMMA QuitKept ==
    ASSUME NEW s, Kept(s), s.phase # "gone"
    PROVE  /\ Kept(Quit(s)) /\ Quit(s).phase # "gone"
           /\ s.hurried => Quit(s).hurried
           /\ Room(s) => Room(Quit(s))
<1> DEFINE t == [s EXCEPT !.mcp = 0, !.hurried = @ \/ Awaited(s) # {}]
           u == [t EXCEPT !.owned = FALSE, !.phase = "quitting"]
<1>1. /\ t.procs = s.procs /\ t.sidecar = s.sidecar /\ t.phase = s.phase
      /\ t.hurried = (s.hurried \/ Awaited(s) # {}) /\ t.owned = s.owned
  BY DEF Kept, ShellType
<1>2. t \in ShellType
  BY ZeroIsPort DEF Kept, ShellType
<1>3. Kept(t)
  BY <1>1, <1>2 DEF Kept, Sound
<1>4. t.hurried \/ Awaited(t) = {}
  BY <1>1 DEF Awaited
<1> HIDE DEF t
<1>5. CASE t.owned
  <2>1. /\ u.procs = t.procs /\ u.sidecar = t.sidecar /\ u.phase = "quitting"
        /\ u.hurried = t.hurried
    BY <1>2 DEF ShellType
  <2>2. u \in ShellType
    BY <1>2 DEF ShellType
  <2>3. Kept(u)
    BY <1>1, <1>3, <2>1, <2>2 DEF Kept, Sound
  <2>4. u.hurried \/ Awaited(u) = {}
    BY <1>4, <2>1 DEF Awaited
  <2>5. 0 \in Ports
    BY ShellAssumption DEF Ports
  <2>6. Quit(s) = Stop(u, "quit", 0)
    BY <1>5 DEF Quit, t
  <2> HIDE DEF u
  <2>7. /\ Kept(Stop(u, "quit", 0)) /\ Stop(u, "quit", 0).phase # "gone"
        /\ Stop(u, "quit", 0).hurried = u.hurried
        /\ Room(u) => Room(Stop(u, "quit", 0))
    BY <2>1, <2>3, <2>4, <2>5, StopKept
  <2>8. Room(s) => Room(u)
    BY <1>1, <2>1 DEF Room
  <2> QED
    BY <1>1, <2>1, <2>6, <2>7, <2>8
<1>6. CASE ~t.owned
  <2> DEFINE v == [t EXCEPT !.phase = "closing"]
  <2>1. Quit(s) = v
    BY <1>6 DEF Quit, t
  <2>2. /\ v.procs = t.procs /\ v.sidecar = t.sidecar /\ v.phase = "closing"
        /\ v.hurried = t.hurried /\ v \in ShellType
    BY <1>2 DEF ShellType
  <2>3. Kept(v)
    BY <1>1, <1>3, <2>2 DEF Kept, Sound
  <2>4. Room(s) => Room(v)
    BY <1>1, <2>2 DEF Room
  <2> QED
    BY <1>1, <2>1, <2>2, <2>3, <2>4
<1> QED
  BY <1>5, <1>6

-----------------------------------------------------------------------------
(* The handler of "exit", and what was waiting for it.                     *)

LEMMA ExitedKept ==
    ASSUME IInv, NEW p \in Live(procs), Running, Room(Shell)
    PROVE  LET e == Exited(Shell, p)
           IN  /\ Kept(e) /\ e.phase # "gone"
               /\ procs[p].waiter # "nobody" =>
                     /\ e.hurried \/ Live(e.procs) = {}
                     /\ \E q \in Procs : e.procs[q].state = "unborn"
<1> DEFINE s == Shell
           recent == Recent \union {<<p, now>>}
           t == [s EXCEPT !.procs = [s.procs EXCEPT ![p] = [s.procs[p] EXCEPT !.state = "dead"]],
                          !.sidecar = [s.sidecar EXCEPT !.proc = 0, !.port = 0]]
           u == [t EXCEPT !.sidecar = [t.sidecar EXCEPT !.restarts = recent]]
           v == [u EXCEPT !.autos = @ \union {<<p, now>>}]
           e == Exited(s, p)
<1>1. /\ s \in ShellType
      /\ s.hurried \/ Sound(s)
      /\ s.procs = procs /\ s.sidecar = sidecar /\ s.phase # "gone"
      /\ p \in Procs /\ procs[p] \in Proc /\ now \in 0..MaxTime /\ Room(s)
  <2>1. s.procs = procs /\ s.sidecar = sidecar /\ s.phase = phase
    BY DEF Shell
  <2>2. p \in Procs
    BY DEF Live
  <2>3. s \in ShellType /\ (s.hurried \/ Sound(s)) /\ now \in 0..MaxTime
    BY DEF IInv, Kept
  <2>4. procs[p] \in Proc
    BY <2>1, <2>2, <2>3 DEF ShellType
  <2> QED
    BY <2>1, <2>2, <2>3, <2>4 DEF Running
<1>2. recent \in SUBSET Exits
  <2>1. sidecar.restarts \in SUBSET Exits
    BY <1>1 DEF ShellType
  <2> QED
    BY <1>1, <2>1 DEF Recent, Exits
<1> HIDE DEF s
<1>3. /\ t \in ShellType /\ t.phase = s.phase /\ t.hurried = s.hurried
      /\ t.sidecar.proc = 0
      /\ t.procs = [s.procs EXCEPT ![p] = [s.procs[p] EXCEPT !.state = "dead"]]
  <2>1. [s.procs[p] EXCEPT !.state = "dead"] \in Proc
    BY <1>1 DEF Proc
  <2>2. [s.procs EXCEPT ![p] = [s.procs[p] EXCEPT !.state = "dead"]] \in [Procs -> Proc]
    BY <1>1, <2>1 DEF ShellType
  <2>3. [s.sidecar EXCEPT !.proc = 0, !.port = 0]
           \in [proc : Ports, port : Ports, stopping : BOOLEAN, restarts : SUBSET Exits]
    BY <1>1, ZeroIsPort DEF ShellType
  <2>4. [s.sidecar EXCEPT !.proc = 0, !.port = 0].proc = 0
    BY <1>1 DEF ShellType
  <2> QED
    BY <1>1, <2>2, <2>3, <2>4 DEF ShellType
<1> HIDE DEF t
<1>4. s.hurried \/ Live(t.procs) = {}
  <2> SUFFICES ASSUME ~s.hurried  PROVE  Live(t.procs) = {}
    OBVIOUS
  <2>1. \A q \in Live(s.procs) : q = p
    BY <1>1 DEF Sound
  <2>2. \A q \in Procs : q # p => t.procs[q] = s.procs[q]
    BY <1>1, <1>3 DEF ShellType
  <2>3. t.procs[p].state = "dead"
    BY <1>1, <1>3 DEF ShellType, Proc
  <2> QED
    BY <2>1, <2>2, <2>3 DEF Live
<1>5. /\ u \in ShellType /\ u.phase = s.phase /\ u.hurried = s.hurried
      /\ u.sidecar.proc = 0 /\ u.procs = t.procs
  BY <1>2, <1>3 DEF ShellType
<1> HIDE DEF u
<1>6. /\ v \in ShellType /\ v.phase = s.phase /\ v.hurried = s.hurried
      /\ v.sidecar.proc = 0 /\ v.procs = t.procs
  BY <1>1, <1>5 DEF ShellType, Exits
<1> HIDE DEF v
<1>7. Kept(t) /\ Kept(u)
  BY <1>3, <1>4, <1>5 DEF Kept, Sound
<1>8. Room(t) /\ Room(u) /\ Room(v)
  BY <1>1, <1>3, <1>5, <1>6 DEF Room, ShellType, Live
<1>9. procs[p].waiter = "nobody" \/ s.hurried \/ s.sidecar.stopping
  BY <1>1 DEF Sound
<1>10. /\ Kept(e) /\ e.phase # "gone"
       /\ procs[p].waiter # "nobody" =>
             /\ e.hurried \/ Live(e.procs) = {}
             /\ \E q \in Procs : e.procs[q].state = "unborn"
  <2>1. CASE s.sidecar.stopping
    <3>1. e = t
      BY <2>1 DEF Exited, t
    <3> QED
      BY <1>1, <1>3, <1>4, <1>7, <1>8, <3>1 DEF Room
  <2>2. CASE ~s.sidecar.stopping /\ Cardinality(recent) > MaxRestarts
    <3>1. e = Quit(u)
      BY <2>2 DEF Exited, t, u
    <3> QED
      BY <1>1, <1>5, <1>7, <1>8, <1>9, <2>2, <3>1, QuitKept DEF Room
  <2>3. CASE ~s.sidecar.stopping /\ ~(Cardinality(recent) > MaxRestarts)
    <3>1. e = Start(v, 0)
      BY <2>3 DEF Exited, t, u, v
    <3>2. \E q \in Procs : v.procs[q].state = "unborn"
      BY <1>8 DEF Room
    <3>3. v.hurried \/ Live(v.procs) = {}
      BY <1>4, <1>6
    <3> QED
      BY <1>1, <1>6, <1>8, <1>9, <2>3, <3>1, <3>2, <3>3, ZeroIsPort, StartKept
  <2> QED
    BY <2>1, <2>2, <2>3
<1> QED
  BY <1>10 DEF s, e

LEMMA HandledKept ==
    ASSUME IInv, NEW p \in Live(procs), Running, Room(Shell)
    PROVE  Kept(Handled(p))
<1> DEFINE e == Exited(Shell, p)
<1>1. /\ Kept(e) /\ e.phase # "gone"
      /\ procs[p].waiter # "nobody" =>
            /\ e.hurried \/ Live(e.procs) = {}
            /\ \E q \in Procs : e.procs[q].state = "unborn"
  BY ExitedKept
<1>2. procs[p] \in Proc
  BY DEF IInv, Kept, Shell, ShellType, Live
<1> HIDE DEF e
<1>3. CASE procs[p].waiter = "nobody"
  BY <1>1, <1>3 DEF Handled, e
<1>4. CASE procs[p].waiter # "nobody"
  <2>1. procs[p].waiter \in {"restart", "quit"} /\ procs[p].back \in Ports
    BY <1>2, <1>4 DEF Proc
  <2>2. Kept(Resume(e, procs[p].waiter, procs[p].back))
    BY <1>1, <1>4, <2>1, ResumeKept
  <2> QED
    BY <1>4, <2>2 DEF Handled, e
<1> QED
  BY <1>3, <1>4

-----------------------------------------------------------------------------
(* The actions.                                                            *)

LEMMA InitKept == Init => IInv
<1> SUFFICES ASSUME Init  PROVE  IInv
  OBVIOUS
<1>1. 1 \in Procs /\ 0 \in 0..MaxTime
  BY ShellAssumption DEF Procs
<1>2. Unborn \in Proc /\ [Unborn EXCEPT !.state = "starting"] \in Proc
      /\ Unborn.state = "unborn"
      /\ [Unborn EXCEPT !.state = "starting"].waiter = "nobody"
  BY ZeroIsPort DEF Unborn, Proc
<1>3. procs \in [Procs -> Proc] /\ Live(procs) \subseteq {1}
      /\ (1 \in Procs => procs[1].state = "starting" /\ procs[1].waiter = "nobody")
  BY <1>2 DEF Init, Live, Unborn
<1>4. 1 \in Live(procs)
  BY <1>1, <1>3 DEF Live
<1>5. Shell \in ShellType
  <2>1. 1 \in Ports
    BY <1>1, ZeroIsPort DEF Procs, Ports
  <2>2. sidecar \in [proc : Ports, port : Ports, stopping : BOOLEAN, restarts : SUBSET Exits]
    BY <2>1, ZeroIsPort DEF Init
  <2> QED
    BY <1>3, <2>2, ZeroIsPort DEF Init, Shell, ShellType
<1>6. Sound(Shell)
  BY <1>1, <1>3, <1>4 DEF Init, Sound, Shell
<1> QED
  BY <1>1, <1>5, <1>6 DEF IInv, Kept, Init

LEMMA BecomesShell == ASSUME NEW s \in ShellType, Becomes(s)  PROVE  Shell' = s
  BY DEF Becomes, Shell, ShellType

\* A step that leaves the fields of the shell alone, except for what a process has
\* announced and the MCP file.
LEMMA QuietKept ==
    ASSUME IInv, now' = now, procs' \in [Procs -> Proc], mcp' \in Ports,
           sidecar' \in [proc : Ports, port : Ports, stopping : BOOLEAN, restarts : SUBSET Exits],
           \A p \in Procs : /\ p \in Live(procs') <=> p \in Live(procs)
                           /\ procs'[p].waiter = procs[p].waiter,
           sidecar'.proc = sidecar.proc, sidecar'.stopping = sidecar.stopping,
           UNCHANGED <<owned, phase, autos, hurried>>
    PROVE  IInv'
<1>1. Shell'.hurried = Shell.hurried
  BY DEF Shell
<1>2. Shell' \in ShellType
  BY DEF IInv, Kept, Shell, ShellType
<1>3. Live(Shell'.procs) = Live(Shell.procs)
  BY DEF Live, Shell
<1>4. Sound(Shell) => Sound(Shell')
  BY <1>3 DEF Sound, Shell, Live
<1> QED
  BY <1>1, <1>2, <1>4 DEF IInv, Kept

LEMMA QuitStepKept == ASSUME IInv, Running, Becomes(Quit(Shell)), now' = now  PROVE  IInv'
<1>1. Kept(Shell) /\ Shell.phase # "gone"
  BY DEF IInv, Shell, Running
<1>2. Kept(Quit(Shell))
  BY <1>1, QuitKept
<1>3. Shell' = Quit(Shell)
  BY <1>2, BecomesShell DEF Kept
<1> QED
  BY <1>2, <1>3 DEF IInv

LEMMA StillKept == ASSUME IInv, UNCHANGED <<procs, shellVars>>, now' \in 0..MaxTime  PROVE  IInv'
  BY DEF IInv, Shell, shellVars

LEMMA ExitKept == ASSUME IInv, NEW p \in Procs, Exit(p)  PROVE  IInv'
<1>1. p \in Live(procs) /\ now' = now
  BY DEF Exit
<1>2. CASE Running
  <2>1. Room(Shell) /\ Becomes(Handled(p))
    BY <1>2 DEF Exit
  <2>2. Kept(Handled(p))
    BY <1>1, <1>2, <2>1, HandledKept
  <2>3. Shell' = Handled(p)
    BY <2>1, <2>2, BecomesShell DEF Kept
  <2> QED
    BY <1>1, <2>2, <2>3 DEF IInv
<1>3. CASE ~Running
  <2>1. /\ procs' = [procs EXCEPT ![p].state = "dead"]
        /\ UNCHANGED <<sidecar, owned, phase, mcp, autos, hurried>>
    BY <1>3 DEF Exit, shellVars
  <2>2. procs \in [Procs -> Proc] /\ Shell \in ShellType /\ Shell.procs = procs
    BY DEF IInv, Kept, ShellType, Shell
  <2>3. procs' \in [Procs -> Proc]
    BY <2>1, <2>2 DEF Proc
  <2>4. Shell' \in ShellType
    BY <2>1, <2>2, <2>3 DEF Shell, ShellType
  <2>5. \A q \in Live(procs') : q \in Live(procs) /\ procs'[q].waiter = procs[q].waiter
    <3>1. p \in Procs /\ procs'[p].state = "dead"
      BY <1>1, <2>1, <2>2 DEF Live, Proc
    <3>2. \A q \in Procs : q # p => procs'[q] = procs[q]
      BY <2>1, <2>2
    <3> QED
      BY <3>1, <3>2 DEF Live
  <2>6. Sound(Shell) => Sound(Shell')
    <3>1. /\ Shell.procs = procs /\ Shell.sidecar = sidecar /\ Shell.phase = "gone"
          /\ Shell'.procs = procs' /\ Shell'.sidecar = sidecar /\ Shell'.phase = "gone"
      BY <1>3, <2>1 DEF Shell, Running
    <3> HIDE DEF Shell
    <3> QED
      BY <2>5, <3>1 DEF Sound
  <2> QED
    BY <1>1, <2>1, <2>4, <2>6 DEF IInv, Kept, Shell
<1> QED
  BY <1>2, <1>3

LEMMA CallbackKept == ASSUME IInv, NEW p \in Procs, Callback(p)  PROVE  IInv'
<1> USE DEF boundVars
<1>1. /\ procs \in [Procs -> Proc] /\ mcp \in Ports /\ now \in 0..MaxTime
      /\ sidecar \in [proc : Ports, port : Ports, stopping : BOOLEAN, restarts : SUBSET Exits]
  BY DEF IInv, Kept, Shell, ShellType
<1>2. procs[p].port \in Ports
  BY <1>1 DEF Proc
<1>3. CASE Data(p)
  <2>1. procs' = [procs EXCEPT ![p].piped = FALSE]
    BY <1>3 DEF Data
  <2>2. /\ procs' \in [Procs -> Proc]
        /\ \A q \in Procs : /\ q \in Live(procs') <=> q \in Live(procs)
                            /\ procs'[q].waiter = procs[q].waiter
    <3>1. [procs[p] EXCEPT !.piped = FALSE] \in Proc
      BY <1>1 DEF Proc
    <3>2. procs' \in [Procs -> Proc]
      BY <1>1, <2>1, <3>1
    <3>3. \A q \in Procs : procs'[q].state = procs[q].state /\ procs'[q].waiter = procs[q].waiter
      BY <1>1, <2>1 DEF Proc
    <3> QED
      BY <3>2, <3>3 DEF Live
  <2>3. /\ sidecar' \in [proc : Ports, port : Ports, stopping : BOOLEAN,
                          restarts : SUBSET Exits]
        /\ sidecar'.proc = sidecar.proc /\ sidecar'.stopping = sidecar.stopping
    BY <1>1, <1>2, <1>3 DEF Data
  <2> QED
    BY <1>1, <1>3, <2>2, <2>3, QuietKept DEF Data
<1>4. CASE Healthy(p)
  BY <1>1, <1>2, <1>4, QuietKept DEF Healthy
<1>5. CASE TimesOut(p)
  BY <1>5, QuitStepKept DEF TimesOut, GiveUp
<1>6. CASE CookieSet(p)
  <2>1. UNCHANGED <<procs, shellVars>> \/ Becomes(Quit(Shell))
    BY <1>6 DEF CookieSet, Shows, GiveUp
  <2> QED
    BY <1>1, <1>6, <2>1, QuitStepKept, StillKept DEF CookieSet
<1>7. CASE Loaded(p)
  BY <1>1, <1>7, StillKept DEF Loaded
<1>8. CASE LoadFails(p)
  BY <1>8, QuitStepKept DEF LoadFails, GiveUp
<1> QED
  BY <1>3, <1>4, <1>5, <1>6, <1>7, <1>8 DEF Callback

LEMMA UserKept == ASSUME IInv, Pick \/ QuitMenu \/ CloseWindow  PROVE  IInv'
<1> USE DEF boundVars
<1>1. CASE Pick
  <2> DEFINE s == [Shell EXCEPT !.hurried = @ \/ Awaited(Shell) # {}]
  <2>1. /\ Kept(Shell) /\ Shell.phase # "gone" /\ sidecar.port \in Ports /\ Room(Shell)
    BY <1>1 DEF Pick, IInv, Kept, ShellType, Shell
  <2>2. /\ s.procs = Shell.procs /\ s.sidecar = Shell.sidecar /\ s.phase = Shell.phase
        /\ s.hurried = (Shell.hurried \/ Awaited(Shell) # {})
        /\ s \in ShellType
    BY <2>1 DEF Kept, ShellType
  <2>3. Kept(s) /\ (s.hurried \/ Awaited(s) = {}) /\ Room(s)
    BY <2>1, <2>2 DEF Kept, Sound, Awaited, Room
  <2>4. Becomes(Stop(s, "restart", sidecar.port)) /\ now' = now
    BY <1>1 DEF Pick
  <2> HIDE DEF s
  <2>5. Kept(Stop(s, "restart", sidecar.port))
    BY <2>1, <2>2, <2>3, StopKept DEF Room
  <2>6. Shell' = Stop(s, "restart", sidecar.port)
    BY <2>4, <2>5, BecomesShell DEF Kept
  <2> QED
    BY <2>4, <2>5, <2>6 DEF IInv
<1>2. CASE QuitMenu
  BY <1>2, QuitStepKept DEF QuitMenu, UserQuits, Running
<1>3. CASE CloseWindow
  <2>1. UNCHANGED <<procs, shellVars>> \/ Becomes(Quit(Shell))
    BY <1>3 DEF CloseWindow, UserQuits
  <2>2. Running /\ now' = now /\ now \in 0..MaxTime
    BY <1>3 DEF CloseWindow, Running, IInv
  <2> QED
    BY <2>1, <2>2, QuitStepKept, StillKept
<1> QED
  BY <1>1, <1>2, <1>3

LEMMA StepKept == IInv /\ [Next]_vars => IInv'
<1> SUFFICES ASSUME IInv, [Next]_vars  PROVE  IInv'
  OBVIOUS
<1> USE DEF boundVars
<1>1. /\ procs \in [Procs -> Proc] /\ mcp \in Ports /\ now \in 0..MaxTime
      /\ sidecar \in [proc : Ports, port : Ports, stopping : BOOLEAN, restarts : SUBSET Exits]
  BY DEF IInv, Kept, Shell, ShellType
<1>2. ASSUME NEW p \in Procs, Announce(p)  PROVE  IInv'
  <2>1. procs' = [procs EXCEPT ![p].state = "serving", ![p].piped = TRUE,
                              ![p].port = IF procs[p].asks = 0 THEN p ELSE procs[p].asks]
    BY <1>2 DEF Announce
  <2>2. p \in Ports /\ procs[p].asks \in Ports /\ procs[p].state = "starting"
    BY <1>1, <1>2, ShellAssumption DEF Announce, Procs, Ports, Proc
  <2>3. /\ procs' \in [Procs -> Proc]
        /\ \A q \in Procs : /\ q \in Live(procs') <=> q \in Live(procs)
                            /\ procs'[q].waiter = procs[q].waiter
    <3> DEFINE n == IF procs[p].asks = 0 THEN p ELSE procs[p].asks
               w == [procs[p] EXCEPT !.state = "serving", !.piped = TRUE, !.port = n]
    <3>1. procs' = [procs EXCEPT ![p] = w]
      BY <2>1
    <3>2. w \in Proc /\ w.state = "serving" /\ w.waiter = procs[p].waiter
      BY <1>1, <2>2 DEF Proc
    <3> HIDE DEF w
    <3>3. procs' \in [Procs -> Proc]
      BY <1>1, <3>1, <3>2
    <3>4. \A q \in Procs : procs'[q].waiter = procs[q].waiter
      BY <1>1, <3>1, <3>2
    <3>5. \A q \in Procs : q \in Live(procs') <=> q \in Live(procs)
      BY <1>1, <2>2, <3>1, <3>2 DEF Live
    <3> QED
      BY <3>3, <3>4, <3>5
  <2> QED
    BY <1>1, <1>2, <2>3, QuietKept DEF Announce, shellVars
<1>3. ASSUME NEW p \in Procs, Ends(p) \/ Crash(p)  PROVE  IInv'
  BY <1>3, ExitKept DEF Ends, Crash
<1>4. ASSUME NEW p \in Procs, Callback(p)  PROVE  IInv'
  BY <1>4, CallbackKept
<1>5. CASE Pick \/ QuitMenu \/ CloseWindow
  BY <1>5, UserKept
<1>6. CASE Gone
  <2>1. Shell' = [Shell EXCEPT !.phase = "gone"] /\ now' = now
    BY <1>6 DEF Gone, Shell
  <2> DEFINE s == Shell
             t == [s EXCEPT !.phase = "gone"]
  <2>2. Kept(s) /\ now \in 0..MaxTime
    BY DEF IInv
  <2> HIDE DEF s
  <2>3. t \in ShellType /\ t.procs = s.procs /\ t.sidecar = s.sidecar /\ t.phase = "gone"
        /\ t.hurried = s.hurried
    BY <2>2 DEF Kept, ShellType
  <2>4. Kept(t)
    BY <2>2, <2>3 DEF Kept, Sound
  <2> QED
    BY <2>1, <2>2, <2>4 DEF IInv, s
<1>7. CASE Tick
  BY <1>1, <1>7, StillKept, ShellAssumption DEF Tick
<1>8. CASE UNCHANGED vars
  BY <1>1, <1>8, StillKept DEF vars
<1> QED
  BY <1>2, <1>3, <1>4, <1>5, <1>6, <1>7, <1>8 DEF Next

\* One backend at a time (OneBackend): start() of sidecar.ts never runs while the
\* process of an earlier start() is alive, unless two stops overlap.
THEOREM OneBackendAtATime == Spec => []OneBackend
<1>1. IInv => OneBackend
  BY DEF IInv, Kept, Sound, Shell, OneBackend
<1> QED
  BY InitKept, StepKept, <1>1, PTL DEF Spec

-----------------------------------------------------------------------------
(* What the restarts that were counted say of those that were made.        *)

\* The list this.restarts still has every restart that is not too long ago to count.
Remembered ==
    \A e \in autos : /\ e[2] <= now
                     /\ now - e[2] < RestartWindow => e \in sidecar.restarts

Counted == IInv /\ Remembered /\ RestartsBounded

LEMMA ExitsFinite == IsFiniteSet(Exits)
<1>1. IsFiniteSet(Procs) /\ IsFiniteSet(0..MaxTime)
  BY FS_Interval, ShellAssumption DEF Procs
<1> QED
  BY <1>1, FS_Product DEF Exits

\* None of the methods but the handler of "exit" touches the list or makes a restart of
\* its own accord.
LEMMA StartCounts ==
    ASSUME NEW s \in ShellType, NEW port
    PROVE  /\ Start(s, port).sidecar.restarts = s.sidecar.restarts
           /\ Start(s, port).autos = s.autos
  BY DEF Start, ShellType

LEMMA ResumeCounts ==
    ASSUME NEW s \in ShellType, NEW who, NEW back
    PROVE  /\ Resume(s, who, back).sidecar.restarts = s.sidecar.restarts
           /\ Resume(s, who, back).autos = s.autos
<1>1. CASE who = "restart"
  BY <1>1, StartCounts DEF Resume
<1>2. CASE who # "restart"
  BY <1>2 DEF Resume, ShellType
<1> QED
  BY <1>1, <1>2

LEMMA StopCounts ==
    ASSUME NEW s \in ShellType, NEW who, NEW back
    PROVE  /\ Stop(s, who, back).sidecar.restarts = s.sidecar.restarts
           /\ Stop(s, who, back).autos = s.autos
<1>1. CASE s.sidecar.proc = 0
  BY <1>1, ResumeCounts DEF Stop
<1>2. CASE s.sidecar.proc # 0
  BY <1>2 DEF Stop, ShellType
<1> QED
  BY <1>1, <1>2

LEMMA QuitCounts ==
    ASSUME NEW s \in ShellType
    PROVE  /\ Quit(s).sidecar.restarts = s.sidecar.restarts
           /\ Quit(s).autos = s.autos
<1> DEFINE t == [s EXCEPT !.mcp = 0, !.hurried = @ \/ Awaited(s) # {}]
           u == [t EXCEPT !.owned = FALSE, !.phase = "quitting"]
<1>1. t \in ShellType /\ t.sidecar = s.sidecar /\ t.autos = s.autos /\ t.owned = s.owned
  BY ZeroIsPort DEF ShellType
<1> HIDE DEF t
<1>2. u \in ShellType /\ u.sidecar = t.sidecar /\ u.autos = t.autos
  BY <1>1 DEF ShellType
<1>3. CASE t.owned
  <2>1. Quit(s) = Stop(u, "quit", 0)
    BY <1>3 DEF Quit, t
  <2> HIDE DEF u
  <2> QED
    BY <1>1, <1>2, <2>1, StopCounts
<1>4. CASE ~t.owned
  <2>1. Quit(s) = [t EXCEPT !.phase = "closing"]
    BY <1>4 DEF Quit, t
  <2> QED
    BY <1>1, <2>1 DEF ShellType
<1> QED
  BY <1>3, <1>4

\* The handler of "exit" keeps those that count, and answers by a restart only if they are
\* few enough with the one it handles.
LEMMA HandledCounts ==
    ASSUME IInv, NEW p \in Live(procs), Running, Room(Shell)
    PROVE  LET h == Handled(p)
               recent == Recent \union {<<p, now>>}
           IN  \/ h.autos = autos /\ h.sidecar.restarts = sidecar.restarts
               \/ h.autos = autos /\ h.sidecar.restarts = recent
               \/ /\ h.autos = autos \union {<<p, now>>} /\ h.sidecar.restarts = recent
                  /\ Cardinality(recent) <= MaxRestarts
<1> DEFINE s == Shell
           recent == Recent \union {<<p, now>>}
           t == [s EXCEPT !.procs = [s.procs EXCEPT ![p] = [s.procs[p] EXCEPT !.state = "dead"]],
                          !.sidecar = [s.sidecar EXCEPT !.proc = 0, !.port = 0]]
           u == [t EXCEPT !.sidecar = [t.sidecar EXCEPT !.restarts = recent]]
           v == [u EXCEPT !.autos = @ \union {<<p, now>>}]
           e == Exited(s, p)
<1>1. /\ s \in ShellType /\ s.procs = procs /\ s.sidecar = sidecar /\ s.autos = autos
      /\ p \in Procs /\ procs[p] \in Proc /\ now \in 0..MaxTime
  BY DEF IInv, Kept, Shell, ShellType, Live
<1>2. recent \in SUBSET Exits
  BY <1>1 DEF Recent, Exits, ShellType
<1>n. Cardinality(recent) \in Nat /\ MaxRestarts \in Nat
  BY <1>2, ExitsFinite, FS_Subset, FS_CardinalityType, ShellAssumption
<1> HIDE DEF s, recent
<1>3. t \in ShellType /\ t.sidecar.restarts = s.sidecar.restarts /\ t.autos = s.autos
  <2>1. [s.procs[p] EXCEPT !.state = "dead"] \in Proc
    BY <1>1 DEF Proc
  <2>2. [s.procs EXCEPT ![p] = [s.procs[p] EXCEPT !.state = "dead"]] \in [Procs -> Proc]
    BY <1>1, <2>1 DEF ShellType
  <2>3. /\ [s.sidecar EXCEPT !.proc = 0, !.port = 0]
             \in [proc : Ports, port : Ports, stopping : BOOLEAN, restarts : SUBSET Exits]
        /\ [s.sidecar EXCEPT !.proc = 0, !.port = 0].restarts = s.sidecar.restarts
    BY <1>1, ZeroIsPort DEF ShellType
  <2> QED
    BY <1>1, <2>2, <2>3 DEF ShellType
<1> HIDE DEF t
<1>4. u \in ShellType /\ u.sidecar.restarts = recent /\ u.autos = s.autos
  BY <1>2, <1>3 DEF ShellType
<1> HIDE DEF u
<1>5. v \in ShellType /\ v.sidecar.restarts = recent /\ v.autos = s.autos \union {<<p, now>>}
  BY <1>1, <1>4 DEF ShellType, Exits
<1> HIDE DEF v
<1>6. \/ e = t
      \/ e = Quit(u)
      \/ e = Start(v, 0) /\ Cardinality(recent) <= MaxRestarts
  <2>1. CASE s.sidecar.stopping
    BY <2>1 DEF Exited, t
  <2>2. CASE ~s.sidecar.stopping /\ Cardinality(recent) > MaxRestarts
    BY <2>2 DEF Exited, t, u, recent
  <2>3. CASE ~s.sidecar.stopping /\ ~(Cardinality(recent) > MaxRestarts)
    <3>1. e = Start(v, 0)
      BY <2>3 DEF Exited, t, u, v, recent
    <3> QED
      BY <1>n, <2>3, <3>1
  <2> QED
    BY <2>1, <2>2, <2>3
<1>7. /\ Quit(u).sidecar.restarts = recent /\ Quit(u).autos = autos
      /\ Start(v, 0).sidecar.restarts = recent /\ Start(v, 0).autos = autos \union {<<p, now>>}
      /\ t.sidecar.restarts = sidecar.restarts /\ t.autos = autos
  BY <1>1, <1>3, <1>4, <1>5, QuitCounts, StartCounts
<1> HIDE DEF e
<1>8. /\ Handled(p).sidecar.restarts = e.sidecar.restarts
      /\ Handled(p).autos = e.autos
  <2>1. e \in ShellType
    BY ExitedKept DEF e, s, Kept
  <2>2. CASE procs[p].waiter = "nobody"
    BY <2>2 DEF Handled, e, s
  <2>3. CASE procs[p].waiter # "nobody"
    <3>1. Handled(p) = Resume(e, procs[p].waiter, procs[p].back)
      BY <2>3 DEF Handled, e, s
    <3> QED
      BY <2>1, <3>1, ResumeCounts
  <2> QED
    BY <2>2, <2>3
<1> QED
  BY <1>6, <1>7, <1>8 DEF recent

LEMMA InitCounted == Init => Counted
<1>1. Init => Remembered
  BY DEF Init, Remembered
<1>2. Init => RestartsBounded
  <2> SUFFICES ASSUME Init, NEW t \in 0..MaxTime
               PROVE  Cardinality({e \in autos : e[2] \in t..(t + RestartWindow - 1)}) <= MaxRestarts
    BY DEF RestartsBounded
  <2>1. {e \in autos : e[2] \in t..(t + RestartWindow - 1)} = {}
    BY DEF Init
  <2> QED
    BY <2>1, FS_EmptySet, ShellAssumption
<1> QED
  BY InitKept, <1>1, <1>2 DEF Counted

\* A step that makes no restart and forgets none.
LEMMA CountsStay ==
    ASSUME Counted, IInv', autos' = autos, sidecar.restarts \subseteq sidecar'.restarts,
           now' >= now
    PROVE  Counted'
<1>1. now \in Nat /\ now' \in Nat /\ RestartWindow \in Nat
  BY ShellAssumption DEF Counted, IInv
<1>2. \A e \in autos : e[2] \in 0..MaxTime
  BY DEF Counted, IInv, Kept, Shell, ShellType, Exits
<1>3. Remembered'
  BY <1>1, <1>2 DEF Counted, Remembered
<1>4. RestartsBounded'
  BY DEF Counted, RestartsBounded
<1> QED
  BY <1>3, <1>4 DEF Counted

\* A crash: the restarts of any window that its own would fall into are on the list.
LEMMA ExitCounted == ASSUME Counted, NEW p \in Procs, Exit(p)  PROVE  Counted'
<1>1. IInv /\ IInv' /\ p \in Live(procs) /\ now' = now
  BY ExitKept DEF Counted, Exit
<1>2. now \in Nat /\ RestartWindow \in Nat /\ MaxRestarts \in Nat
  BY <1>1, ShellAssumption DEF IInv
<1>3. /\ autos \subseteq Exits /\ autos' \subseteq Exits /\ sidecar.restarts \subseteq Exits
      /\ p \in Procs
  BY <1>1 DEF IInv, Kept, Shell, ShellType
<1>4. CASE ~Running
  BY <1>1, <1>2, <1>4, CountsStay DEF Exit, shellVars
<1>5. CASE Running
  <2> DEFINE recent == Recent \union {<<p, now>>}
  <2>1. /\ sidecar' = Handled(p).sidecar /\ autos' = Handled(p).autos
        /\ Room(Shell)
    BY <1>5 DEF Exit, Becomes
  <2>2. \/ autos' = autos /\ sidecar'.restarts = sidecar.restarts
        \/ autos' = autos /\ sidecar'.restarts = recent
        \/ /\ autos' = autos \union {<<p, now>>} /\ sidecar'.restarts = recent
           /\ Cardinality(recent) <= MaxRestarts
    BY <1>1, <1>5, <2>1, HandledCounts
  <2>3. \A e \in autos : /\ e[2] \in Nat /\ e[2] <= now
                         /\ now - e[2] < RestartWindow => e \in recent
    <3>1. \A e \in autos : e[2] \in Nat
      BY <1>3 DEF Exits
    <3> QED
      BY <3>1 DEF Counted, Remembered, Recent
  <2>4. recent \subseteq Exits
    BY <1>1, <1>3 DEF Recent, Exits, IInv
  <2>5. IsFiniteSet(recent)
    BY <2>4, ExitsFinite, FS_Subset
  <2>6. <<p, now>>[2] = now /\ <<p, now>> \in recent
    OBVIOUS
  <2> HIDE DEF recent
  <2>7. Remembered'
    BY <1>1, <1>2, <2>2, <2>3, <2>6 DEF Counted, Remembered
  <2>8. RestartsBounded'
    <3>1. CASE autos' = autos
      BY <3>1 DEF Counted, RestartsBounded
    <3>2. CASE autos' = autos \union {<<p, now>>} /\ Cardinality(recent) <= MaxRestarts
      <4> SUFFICES ASSUME NEW t \in 0..MaxTime
                   PROVE  Cardinality({e \in autos' : e[2] \in t..(t + RestartWindow - 1)})
                              <= MaxRestarts
        BY DEF RestartsBounded
      <4> DEFINE within == {e \in autos' : e[2] \in t..(t + RestartWindow - 1)}
      <4>1. CASE now \notin t..(t + RestartWindow - 1)
        <5>1. within = {e \in autos : e[2] \in t..(t + RestartWindow - 1)}
          BY <2>6, <3>2, <4>1
        <5> QED
          BY <5>1 DEF Counted, RestartsBounded
      <4>2. CASE now \in t..(t + RestartWindow - 1)
        <5>1. within \subseteq recent
          <6> SUFFICES ASSUME NEW e \in within  PROVE  e \in recent
            OBVIOUS
          <6>1. CASE e = <<p, now>>
            BY <2>6, <6>1
          <6>2. CASE e \in autos
            BY <1>2, <2>3, <4>2, <6>2
          <6> QED
            BY <3>2, <6>1, <6>2
        <5>2. Cardinality(within) <= Cardinality(recent) /\ IsFiniteSet(within)
          BY <2>5, <5>1, FS_Subset
        <5>3. Cardinality(within) \in Nat /\ Cardinality(recent) \in Nat
          BY <2>5, <5>2, FS_CardinalityType
        <5> QED
          BY <1>2, <3>2, <5>2, <5>3
      <4> QED
        BY <4>1, <4>2
    <3> QED
      BY <2>2, <3>1, <3>2
  <2> QED
    BY <1>1, <2>7, <2>8 DEF Counted
<1> QED
  BY <1>4, <1>5

LEMMA StepCounted == Counted /\ [Next]_vars => Counted'
<1> SUFFICES ASSUME Counted, [Next]_vars  PROVE  Counted'
  OBVIOUS
<1>1. IInv /\ IInv' /\ Shell \in ShellType /\ now \in 0..MaxTime
  BY StepKept DEF Counted, IInv, Kept
<1>2. ASSUME Becomes(Quit(Shell)), now' = now  PROVE  Counted'
  <2>1. sidecar' = Quit(Shell).sidecar /\ autos' = Quit(Shell).autos
    BY <1>2 DEF Becomes
  <2>2. Shell.sidecar = sidecar /\ Shell.autos = autos
    BY DEF Shell
  <2> QED
    BY <1>1, <1>2, <2>1, <2>2, QuitCounts, CountsStay
<1>3. ASSUME sidecar'.restarts = sidecar.restarts, autos' = autos, now' \in {now, now + 1}
      PROVE  Counted'
  BY <1>1, <1>3, CountsStay
<1>4. ASSUME NEW p \in Procs, Announce(p)  PROVE  Counted'
  BY <1>3, <1>4 DEF Announce, shellVars, boundVars
<1>5. ASSUME NEW p \in Procs, Ends(p) \/ Crash(p)  PROVE  Counted'
  BY <1>5, ExitCounted DEF Ends, Crash
<1>6. ASSUME NEW p \in Procs, Callback(p)  PROVE  Counted'
  <2>1. now' = now
    BY <1>6 DEF Callback, Data, Healthy, TimesOut, CookieSet, Loaded, LoadFails, boundVars
  <2>2. \/ Becomes(Quit(Shell))
        \/ UNCHANGED <<sidecar, autos>>
        \/ Data(p)
    BY <1>6 DEF Callback, Healthy, TimesOut, CookieSet, Shows, Loaded, LoadFails, GiveUp, shellVars
  <2>3. Data(p) => sidecar'.restarts = sidecar.restarts /\ autos' = autos
    BY <1>1 DEF Data, Shell, ShellType
  <2> QED
    BY <1>2, <1>3, <2>1, <2>2, <2>3
<1>7. CASE Pick
  <2> DEFINE s == [Shell EXCEPT !.hurried = @ \/ Awaited(Shell) # {}]
  <2>1. s \in ShellType /\ s.sidecar = sidecar /\ s.autos = autos
    BY <1>1 DEF Shell, ShellType
  <2>2. Becomes(Stop(s, "restart", sidecar.port)) /\ now' = now
    BY <1>7 DEF Pick
  <2> HIDE DEF s
  <2>3. sidecar'.restarts = sidecar.restarts /\ autos' = autos
    BY <2>1, <2>2, StopCounts DEF Becomes
  <2> QED
    BY <1>3, <2>2, <2>3
<1>8. CASE QuitMenu \/ CloseWindow
  BY <1>2, <1>3, <1>8 DEF QuitMenu, CloseWindow, UserQuits, shellVars, boundVars
<1>9. CASE Gone \/ Tick \/ UNCHANGED vars
  BY <1>3, <1>9 DEF Gone, Tick, vars, shellVars, boundVars
<1> QED
  BY <1>4, <1>5, <1>6, <1>7, <1>8, <1>9 DEF Next

\* However crashes, picks and quits fall in time: no more crashes than MAX_RESTARTS are
\* answered by a restart in any window of RESTART_WINDOW_MS (RestartsBounded; the handler
\* of "exit" and this.restarts in sidecar.ts).
THEOREM RestartsAreBounded == Spec => []RestartsBounded
<1>1. Counted => RestartsBounded
  BY DEF Counted
<1> QED
  BY InitCounted, StepCounted, <1>1, PTL DEF Spec

-----------------------------------------------------------------------------
(* What is left when the application is gone.                              *)

\* While it is quitting the one process alive is one whose exit the quit waits for; once it
\* closes its windows none is, and the endpoint file is removed.
Leaving(s) ==
    /\ s.owned <=> s.phase = "up"
    /\ \A p \in Live(s.procs) : s.phase = "quitting" <=> s.procs[p].waiter = "quit"
    /\ s.phase = "quitting" => Live(s.procs) # {}
    /\ s.phase \in {"closing", "gone"} => Live(s.procs) = {} /\ s.mcp = 0

Orderly(s) == s.hurried \/ Leaving(s)

Left == IInv /\ Orderly(Shell)

\* The last app.quit(), when no process is alive.
LEMMA CloseOrderly ==
    ASSUME NEW s \in ShellType, ~s.owned, s.hurried \/ Live(s.procs) = {}
    PROVE  Orderly([s EXCEPT !.mcp = 0, !.phase = "closing"])
<1> DEFINE t == [s EXCEPT !.mcp = 0, !.phase = "closing"]
<1>1. /\ t.procs = s.procs /\ t.owned = s.owned /\ t.phase = "closing" /\ t.mcp = 0
      /\ t.hurried = s.hurried
  BY DEF ShellType
<1> HIDE DEF t
<1>2. s.hurried \/ Leaving(t)
  BY <1>1 DEF Leaving
<1> QED
  BY <1>1, <1>2 DEF Orderly, t

\* start, called while the application is up and no process is alive.
LEMMA StartOrderly ==
    ASSUME NEW s \in ShellType, NEW port \in Ports, s.phase # "gone",
           \E p \in Procs : s.procs[p].state = "unborn",
           s.hurried \/ (Live(s.procs) = {} /\ s.phase = "up" /\ s.owned)
    PROVE  Orderly(Start(s, port))
<1> DEFINE n == NextProc(s)
           t == Start(s, port)
<1>1. n \in Procs /\ s.procs[n].state = "unborn"
  BY DEF NextProc
<1>2. /\ t.procs = [s.procs EXCEPT ![n] = [Unborn EXCEPT !.state = "starting", !.asks = port]]
      /\ t.owned = s.owned /\ t.phase = s.phase /\ t.hurried = s.hurried
  BY DEF Start, ShellType
<1> HIDE DEF t, n
<1>3. ASSUME ~s.hurried  PROVE  Leaving(t)
  <2>1. t.procs[n].waiter = "nobody"
    BY <1>1, <1>2 DEF ShellType, Unborn
  <2>2. \A p \in Procs : p # n => t.procs[p] = s.procs[p]
    BY <1>1, <1>2 DEF ShellType
  <2>3. \A p \in Live(t.procs) : p = n
    BY <1>3, <2>2 DEF Live
  <2> QED
    BY <1>2, <1>3, <2>1, <2>3 DEF Leaving
<1> QED
  BY <1>2, <1>3 DEF Orderly, t

\* stop, called by restart() while the application is up or by a quit that has let go of
\* the Sidecar.
LEMMA StopOrderly ==
    ASSUME NEW s, Kept(s), s.phase # "gone", s.hurried \/ Awaited(s) = {},
           NEW who \in {"restart", "quit"}, NEW back \in Ports,
           who = "restart" =>
               /\ \E p \in Procs : s.procs[p].state = "unborn"
               /\ s.hurried \/ (s.phase = "up" /\ s.owned),
           who = "quit" => s.phase = "quitting" /\ ~s.owned
    PROVE  Orderly(Stop(s, who, back))
<1> DEFINE n == s.sidecar.proc
           t == Stop(s, who, back)
<1> USE DEF Kept
<1>1. CASE n = 0
  <2>1. s.hurried \/ Live(s.procs) = {}
    <3> SUFFICES ASSUME ~s.hurried, NEW p \in Live(s.procs)  PROVE  FALSE
      OBVIOUS
    <3>1. s.procs[p].waiter = "nobody" /\ p \in Procs
      BY DEF Awaited, Live
    <3>2. p = 0
      BY <1>1, <3>1 DEF Sound
    <3> QED
      BY <3>1, <3>2 DEF Procs
  <2>2. CASE who = "restart"
    BY <1>1, <2>1, <2>2, StartOrderly DEF Stop, Resume
  <2>3. CASE who = "quit"
    BY <1>1, <2>1, <2>3, CloseOrderly DEF Stop, Resume
  <2> QED
    BY <2>2, <2>3
<1>2. CASE n # 0
  <2>1. n \in Procs
    BY <1>2, ShellAssumption DEF ShellType, Ports, Procs
  <2> DEFINE w == Told(s.procs[n], who, back)
             z == [s.sidecar EXCEPT !.stopping = TRUE, !.proc = 0]
  <2>2. t = [s EXCEPT !.sidecar = z, !.procs = [s.procs EXCEPT ![n] = w]]
    BY <1>2 DEF Stop
  <2>3. w.waiter = who /\ w.state = s.procs[n].state
    <3>1. s.procs[n] \in Proc
      BY <2>1 DEF ShellType
    <3> QED
      BY <3>1 DEF Told, Proc
  <2> HIDE DEF w, z, t
  <2>4. /\ t.procs = [s.procs EXCEPT ![n] = w] /\ t.phase = s.phase /\ t.owned = s.owned
        /\ t.hurried = s.hurried
    BY <2>2 DEF ShellType
  <2>5. ASSUME ~s.hurried  PROVE  Leaving(t)
    <3>1. Sound(s) /\ n \in Live(s.procs)
      BY <1>2, <2>5 DEF Sound
    <3>2. t.procs[n].waiter = who
      BY <2>1, <2>3, <2>4 DEF ShellType
    <3>3. Live(t.procs) = Live(s.procs)
      BY <2>1, <2>3, <2>4 DEF Live, ShellType
    <3>4. \A p \in Live(t.procs) : p = n
      BY <3>1, <3>3 DEF Sound
    <3> QED
      BY <2>4, <2>5, <3>1, <3>2, <3>3, <3>4 DEF Leaving
  <2> QED
    BY <2>4, <2>5 DEF Orderly, t
<1> QED
  BY <1>1, <1>2

\* app.quit() in any state of the shell.
LEMMA QuitOrderly ==
    ASSUME NEW s, Kept(s), Orderly(s), s.phase # "gone"
    PROVE  Orderly(Quit(s))
<1> DEFINE t == [s EXCEPT !.mcp = 0, !.hurried = @ \/ Awaited(s) # {}]
           u == [t EXCEPT !.owned = FALSE, !.phase = "quitting"]
           v == [t EXCEPT !.phase = "closing"]
<1>1. /\ t.procs = s.procs /\ t.sidecar = s.sidecar /\ t.phase = s.phase /\ t.mcp = 0
      /\ t.hurried = (s.hurried \/ Awaited(s) # {}) /\ t.owned = s.owned
      /\ t \in ShellType
  BY ZeroIsPort DEF Kept, ShellType
<1>2. Kept(t) /\ (t.hurried \/ Awaited(t) = {})
  BY <1>1 DEF Kept, Sound, Awaited
<1> HIDE DEF t
<1>3. CASE t.owned
  <2>1. /\ u.procs = t.procs /\ u.sidecar = t.sidecar /\ u.phase = "quitting" /\ ~u.owned
        /\ u.hurried = t.hurried /\ u \in ShellType
    BY <1>1 DEF ShellType
  <2>2. Quit(s) = Stop(u, "quit", 0)
    BY <1>3 DEF Quit, t
  <2> HIDE DEF u
  <2>3. Kept(u)
    BY <1>1, <1>2, <2>1 DEF Kept, Sound
  <2>4. u.hurried \/ Awaited(u) = {}
    BY <1>2, <2>1 DEF Awaited
  <2> QED
    BY <2>1, <2>2, <2>3, <2>4, ZeroIsPort, StopOrderly
<1>4. CASE ~t.owned
  <2>1. Quit(s) = v
    BY <1>4 DEF Quit, t
  <2>2. v = [t EXCEPT !.mcp = 0, !.phase = "closing"]
    BY <1>1 DEF ShellType
  <2>3. t.hurried \/ Live(t.procs) = {}
    <3> SUFFICES ASSUME ~t.hurried, NEW p \in Live(t.procs)  PROVE  FALSE
      OBVIOUS
    <3>1. Leaving(s) /\ ~s.hurried /\ Awaited(s) = {} /\ s.phase \in {"quitting", "closing"}
      BY <1>1, <1>4 DEF Orderly, Leaving, Kept, ShellType
    <3>2. s.procs[p].waiter = "quit" /\ p \in Live(s.procs)
      BY <1>1, <3>1 DEF Leaving
    <3> QED
      BY <3>1, <3>2 DEF Awaited
  <2> HIDE DEF v
  <2>4. Orderly([t EXCEPT !.mcp = 0, !.phase = "closing"])
    BY <1>1, <1>4, <2>3, CloseOrderly
  <2> QED
    BY <2>1, <2>2, <2>4
<1> QED
  BY <1>3, <1>4

\* The handlers of "exit": a process that ends on its own ends while the application is up;
\* one whose exit the quit waits for is the last.
LEMMA HandledOrderly ==
    ASSUME Left, NEW p \in Live(procs), Running, Room(Shell)
    PROVE  Orderly(Handled(p))
<1> DEFINE s == Shell
           recent == Recent \union {<<p, now>>}
           t == [s EXCEPT !.procs = [s.procs EXCEPT ![p] = [s.procs[p] EXCEPT !.state = "dead"]],
                          !.sidecar = [s.sidecar EXCEPT !.proc = 0, !.port = 0]]
           u == [t EXCEPT !.sidecar = [t.sidecar EXCEPT !.restarts = recent]]
           v == [u EXCEPT !.autos = @ \union {<<p, now>>}]
           e == Exited(s, p)
<1>1. /\ s \in ShellType /\ (s.hurried \/ Sound(s)) /\ (s.hurried \/ Leaving(s))
      /\ s.procs = procs /\ s.sidecar = sidecar /\ s.phase # "gone"
      /\ p \in Procs /\ procs[p] \in Proc /\ now \in 0..MaxTime /\ Room(s)
  BY DEF Left, IInv, Kept, Orderly, Shell, ShellType, Live, Running
<1>2. recent \in SUBSET Exits
  BY <1>1 DEF Recent, Exits, ShellType
<1> HIDE DEF s
<1>3. /\ t \in ShellType /\ t.phase = s.phase /\ t.hurried = s.hurried /\ t.owned = s.owned
      /\ t.sidecar.proc = 0
      /\ t.procs = [s.procs EXCEPT ![p] = [s.procs[p] EXCEPT !.state = "dead"]]
  <2>1. [s.procs[p] EXCEPT !.state = "dead"] \in Proc
    BY <1>1 DEF Proc
  <2>2. [s.procs EXCEPT ![p] = [s.procs[p] EXCEPT !.state = "dead"]] \in [Procs -> Proc]
    BY <1>1, <2>1 DEF ShellType
  <2>3. [s.sidecar EXCEPT !.proc = 0, !.port = 0]
           \in [proc : Ports, port : Ports, stopping : BOOLEAN, restarts : SUBSET Exits]
    BY <1>1, ZeroIsPort DEF ShellType
  <2>4. [s.sidecar EXCEPT !.proc = 0, !.port = 0].proc = 0
    BY <1>1 DEF ShellType
  <2> QED
    BY <1>1, <2>2, <2>3, <2>4 DEF ShellType
<1> HIDE DEF t
<1>4. s.hurried \/ Live(t.procs) = {}
  <2> SUFFICES ASSUME ~s.hurried  PROVE  Live(t.procs) = {}
    OBVIOUS
  <2>1. \A q \in Live(s.procs) : q = p
    BY <1>1 DEF Sound
  <2>2. \A q \in Procs : q # p => t.procs[q] = s.procs[q]
    BY <1>1, <1>3 DEF ShellType
  <2>3. t.procs[p].state = "dead"
    BY <1>1, <1>3 DEF ShellType, Proc
  <2> QED
    BY <2>1, <2>2, <2>3 DEF Live
<1>5. /\ u \in ShellType /\ u.phase = s.phase /\ u.hurried = s.hurried /\ u.owned = s.owned
      /\ u.sidecar.proc = 0 /\ u.procs = t.procs
  BY <1>2, <1>3 DEF ShellType
<1> HIDE DEF u
<1>6. /\ v \in ShellType /\ v.phase = s.phase /\ v.hurried = s.hurried /\ v.owned = s.owned
      /\ v.procs = t.procs
  BY <1>1, <1>5 DEF ShellType, Exits
<1> HIDE DEF v
<1>7. Room(v)
  BY <1>1, <1>3, <1>6 DEF Room, ShellType, Live
<1>8. Kept(u)
  BY <1>3, <1>4, <1>5 DEF Kept, Sound
\* Whoever waits for it tells which phase it is.
<1>9. s.hurried \/ /\ s.phase # "closing"
                   /\ s.phase = "quitting" <=> procs[p].waiter = "quit"
                   /\ s.owned <=> s.phase = "up"
  BY <1>1 DEF Leaving
<1>10. s.phase \in {"up", "quitting", "closing"}
  BY <1>1 DEF ShellType
<1>11. /\ s.sidecar.stopping => s.hurried \/ procs[p].waiter # "nobody"
       /\ ~s.sidecar.stopping => s.hurried \/ procs[p].waiter = "nobody"
  <2> SUFFICES ASSUME ~s.hurried
               PROVE  s.sidecar.stopping <=> procs[p].waiter # "nobody"
    OBVIOUS
  <2>1. /\ s.procs[p].waiter = "nobody" => p = s.sidecar.proc
        /\ s.procs[p].waiter # "nobody" => s.sidecar.stopping
        /\ s.sidecar.proc # 0 => ~s.sidecar.stopping
    BY <1>1 DEF Sound
  <2>2. p # 0
    BY <1>1 DEF Procs
  <2> QED
    BY <1>1, <2>1, <2>2
<1>12. CASE s.sidecar.stopping
  <2>1. e = t
    BY <1>12 DEF Exited, t
  <2>2. CASE procs[p].waiter = "nobody"
    <3>1. s.hurried
      BY <1>11, <1>12, <2>2
    <3> QED
      BY <1>3, <2>1, <2>2, <3>1 DEF Handled, s, e, Orderly
  <2>3. CASE procs[p].waiter = "restart"
    <3>1. Handled(p) = Start(t, procs[p].back) /\ procs[p].back \in Ports
      BY <1>1, <2>1, <2>3 DEF Handled, Resume, s, e, Proc
    <3>2. \E q \in Procs : t.procs[q].state = "unborn"
      BY <1>1, <1>3 DEF Room, ShellType, Live
    <3>3. s.hurried \/ (s.phase = "up" /\ s.owned)
      BY <1>9, <1>10, <2>3
    <3> QED
      BY <1>1, <1>3, <1>4, <3>1, <3>2, <3>3, StartOrderly
  <2>4. CASE procs[p].waiter = "quit"
    <3>1. Handled(p) = [t EXCEPT !.mcp = 0, !.phase = "closing"]
      BY <2>1, <2>4 DEF Handled, Resume, s, e
    <3>2. s.hurried \/ ~t.owned
      BY <1>3, <1>9, <2>4
    <3>3. CASE s.hurried
      BY <1>3, <3>1, <3>3 DEF Orderly, ShellType
    <3>4. CASE ~t.owned
      BY <1>3, <1>4, <3>1, <3>4, CloseOrderly
    <3> QED
      BY <3>2, <3>3, <3>4
  <2> QED
    BY <1>1, <2>2, <2>3, <2>4 DEF Proc
<1>13. CASE ~s.sidecar.stopping
  <2>1. Kept(e) /\ e.phase # "gone"
        /\ (procs[p].waiter # "nobody" =>
               \E q \in Procs : e.procs[q].state = "unborn")
    BY ExitedKept DEF Left, s
  <2>2. CASE s.hurried
    <3>1. e.hurried
      <4>1. CASE Cardinality(recent) > MaxRestarts
        <5>1. e = Quit(u)
          BY <1>13, <4>1 DEF Exited, t, u
        <5> QED
          BY <1>1, <1>5, <1>8, <2>2, <5>1, QuitKept
      <4>2. CASE ~(Cardinality(recent) > MaxRestarts)
        <5>1. e = Start(v, 0)
          BY <1>13, <4>2 DEF Exited, t, u, v
        <5> QED
          BY <1>6, <2>2, <5>1 DEF Start, ShellType
      <4> QED
        BY <4>1, <4>2
    <3> HIDE DEF e
    <3>2. CASE procs[p].waiter = "nobody"
      BY <3>1, <3>2 DEF Handled, e, s, Orderly
    <3>3. CASE procs[p].waiter # "nobody"
      <4>1. procs[p].waiter \in {"restart", "quit"} /\ procs[p].back \in Ports
        BY <1>1, <3>3 DEF Proc
      <4>2. CASE procs[p].waiter = "restart"
        <5>1. Start(e, procs[p].back).hurried
          BY <2>1, <3>1, <4>1, <4>2, StartKept DEF Kept
        <5> QED
          BY <3>3, <4>2, <5>1 DEF Handled, Resume, e, s, Orderly
      <4>3. CASE procs[p].waiter = "quit"
        <5>1. [e EXCEPT !.mcp = 0, !.phase = "closing"].hurried
          BY <2>1, <3>1 DEF Kept, ShellType
        <5> QED
          BY <3>3, <4>3, <5>1 DEF Handled, Resume, e, s, Orderly
      <4> QED
        BY <4>1, <4>2, <4>3
    <3> QED
      BY <3>2, <3>3
  <2>3. CASE ~s.hurried
    <3>1. procs[p].waiter = "nobody" /\ s.phase = "up" /\ s.owned
      BY <1>9, <1>10, <1>11, <1>13, <2>3
    <3>2. Handled(p) = e
      BY <3>1 DEF Handled, e, s
    <3>3. CASE Cardinality(recent) > MaxRestarts
      <4>1. e = Quit(u)
        BY <1>13, <3>3 DEF Exited, t, u
      <4>2. Orderly(u)
        BY <1>4, <1>5, <2>3, <3>1 DEF Orderly, Leaving
      <4> QED
        BY <1>1, <1>5, <1>8, <3>2, <4>1, <4>2, QuitOrderly
    <3>4. CASE ~(Cardinality(recent) > MaxRestarts)
      <4>1. e = Start(v, 0)
        BY <1>13, <3>4 DEF Exited, t, u, v
      <4>2. \E q \in Procs : v.procs[q].state = "unborn"
        BY <1>7 DEF Room
      <4>3. v.phase # "gone" /\ (v.hurried \/ (Live(v.procs) = {} /\ v.phase = "up" /\ v.owned))
        BY <1>1, <1>4, <1>6, <3>1
      <4> QED
        BY <1>6, <3>2, <4>1, <4>2, <4>3, ZeroIsPort, StartOrderly
    <3> QED
      BY <3>3, <3>4
  <2> QED
    BY <2>2, <2>3
<1> QED
  BY <1>12, <1>13

LEMMA InitLeft == Init => Left
<1> SUFFICES ASSUME Init  PROVE  Leaving(Shell)
  BY InitKept DEF Left, Orderly
<1>1. /\ Shell.procs = procs /\ Shell.owned = TRUE /\ Shell.phase = "up"
  BY DEF Init, Shell
<1>2. \A p \in Live(procs) : procs[p].waiter = "nobody"
  BY DEF Init, Live, Unborn
<1> QED
  BY <1>1, <1>2 DEF Leaving

\* A step that leaves the phase alone, and who waits for whom, and writes the endpoint file
\* only while a process is alive.
LEMMA QuietLeft ==
    ASSUME Left, IInv', UNCHANGED <<owned, phase, hurried>>,
           \A p \in Procs : /\ p \in Live(procs') <=> p \in Live(procs)
                           /\ procs'[p].waiter = procs[p].waiter,
           mcp' = mcp \/ Live(procs) # {}
    PROVE  Left'
<1>1. /\ Shell.procs = procs /\ Shell.owned = owned /\ Shell.phase = phase
      /\ Shell.hurried = hurried /\ Shell.mcp = mcp
      /\ Shell'.procs = procs' /\ Shell'.owned = owned /\ Shell'.phase = phase
      /\ Shell'.hurried = hurried /\ Shell'.mcp = mcp'
  BY DEF Shell
<1>2. Live(procs') = Live(procs) /\ Live(procs) \subseteq Procs
  BY DEF Live
<1> HIDE DEF Shell
<1>3. Leaving(Shell) => Leaving(Shell')
  BY <1>1, <1>2 DEF Leaving
<1> QED
  BY <1>1, <1>3 DEF Left, Orderly

LEMMA StillLeft ==
    ASSUME Left, IInv', UNCHANGED <<procs, shellVars>>
    PROVE  Left'
  BY QuietLeft DEF shellVars

LEMMA BecomesLeft ==
    ASSUME IInv', NEW s \in ShellType, Becomes(s), Orderly(s)
    PROVE  Left'
  BY BecomesShell DEF Left

LEMMA QuitStepLeft ==
    ASSUME Left, IInv', Running, Becomes(Quit(Shell))
    PROVE  Left'
<1>1. Kept(Shell) /\ Shell.phase # "gone" /\ Orderly(Shell)
  BY DEF Left, IInv, Shell, Running
<1>2. Quit(Shell) \in ShellType /\ Orderly(Quit(Shell))
  BY <1>1, QuitKept, QuitOrderly DEF Kept
<1> QED
  BY <1>2, BecomesLeft

LEMMA ExitLeft == ASSUME Left, NEW p \in Procs, Exit(p)  PROVE  Left'
<1>1. IInv /\ IInv' /\ p \in Live(procs)
  BY ExitKept DEF Left, Exit
<1>2. CASE Running
  <2>1. Room(Shell) /\ Becomes(Handled(p))
    BY <1>2 DEF Exit
  <2>2. Handled(p) \in ShellType
    BY <1>1, <1>2, <2>1, HandledKept DEF Kept
  <2>3. Orderly(Handled(p))
    BY <1>1, <1>2, <2>1, HandledOrderly
  <2> QED
    BY <1>1, <2>1, <2>2, <2>3, BecomesLeft
<1>3. CASE ~Running
  <2>1. /\ procs' = [procs EXCEPT ![p].state = "dead"]
        /\ UNCHANGED <<sidecar, owned, phase, mcp, autos, hurried>>
    BY <1>3 DEF Exit, shellVars
  <2>2. Shell.procs = procs /\ Shell.phase = "gone" /\ Shell.hurried = hurried
    BY <1>3 DEF Shell, Running
  <2>3. Orderly(Shell)
    BY DEF Left
  <2>4. hurried
    BY <1>1, <2>2, <2>3 DEF Orderly, Leaving
  <2>5. Orderly(Shell')
    BY <2>1, <2>4 DEF Orderly, Shell
  <2> QED
    BY <1>1, <2>5 DEF Left
<1> QED
  BY <1>2, <1>3

LEMMA StepLeft == Left /\ [Next]_vars => Left'
<1> SUFFICES ASSUME Left, [Next]_vars  PROVE  Left'
  OBVIOUS
<1> USE DEF boundVars
<1>1. IInv /\ IInv' /\ procs \in [Procs -> Proc] /\ Orderly(Shell) /\ Shell \in ShellType
  BY StepKept DEF Left, IInv, Kept, Shell, ShellType
<1>2. ASSUME NEW p \in Procs, Announce(p)  PROVE  Left'
  <2> DEFINE n == IF procs[p].asks = 0 THEN p ELSE procs[p].asks
             w == [procs[p] EXCEPT !.state = "serving", !.piped = TRUE, !.port = n]
  <2>1. procs' = [procs EXCEPT ![p] = w] /\ procs[p].state = "starting"
    BY <1>2 DEF Announce
  <2>2. w.state = "serving" /\ w.waiter = procs[p].waiter
    BY <1>1 DEF Proc
  <2> HIDE DEF w
  <2>3. \A q \in Procs : procs'[q].waiter = procs[q].waiter
    BY <1>1, <2>1, <2>2
  <2>4. \A q \in Procs : q \in Live(procs') <=> q \in Live(procs)
    BY <1>1, <2>1, <2>2 DEF Live
  <2> QED
    BY <1>1, <1>2, <2>3, <2>4, QuietLeft DEF Announce, shellVars
<1>3. ASSUME NEW p \in Procs, Ends(p) \/ Crash(p)  PROVE  Left'
  BY <1>3, ExitLeft DEF Ends, Crash
<1>4. ASSUME NEW p \in Procs, Data(p)  PROVE  Left'
  <2>1. procs' = [procs EXCEPT ![p].piped = FALSE]
    BY <1>4 DEF Data
  <2>2. \A q \in Procs : procs'[q].state = procs[q].state /\ procs'[q].waiter = procs[q].waiter
    BY <1>1, <2>1 DEF Proc
  <2>3. \A q \in Procs : q \in Live(procs') <=> q \in Live(procs)
    BY <2>2 DEF Live
  <2> QED
    BY <1>1, <1>4, <2>2, <2>3, QuietLeft DEF Data
\* The file is written only after a backend has answered, which is one that is alive.
<1>5. ASSUME NEW p \in Procs, Healthy(p)  PROVE  Left'
  <2>1. Live(procs) # {}
    BY <1>5 DEF Healthy, Listening, Live
  <2> QED
    BY <1>1, <1>5, <2>1, QuietLeft DEF Healthy
<1>6. ASSUME NEW p \in Procs, TimesOut(p) \/ CookieSet(p) \/ Loaded(p) \/ LoadFails(p)
      PROVE  Left'
  <2>1. Running /\ (Becomes(Quit(Shell)) \/ UNCHANGED <<procs, shellVars>>)
    BY <1>6 DEF TimesOut, CookieSet, Shows, Loaded, LoadFails, GiveUp
  <2> QED
    BY <1>1, <2>1, StillLeft, QuitStepLeft
<1>7. CASE Pick
  <2> DEFINE s == [Shell EXCEPT !.hurried = @ \/ Awaited(Shell) # {}]
  <2>1. /\ Kept(Shell) /\ Shell.phase = "up" /\ Shell.owned /\ sidecar.port \in Ports /\ Room(Shell)
    BY <1>7 DEF Pick, Left, IInv, Kept, ShellType, Shell
  <2>2. /\ s.procs = Shell.procs /\ s.sidecar = Shell.sidecar /\ s.phase = Shell.phase
        /\ s.owned = Shell.owned
        /\ s.hurried = (Shell.hurried \/ Awaited(Shell) # {})
        /\ s \in ShellType
    BY <2>1 DEF Kept, ShellType
  <2>4. Becomes(Stop(s, "restart", sidecar.port))
    BY <1>7 DEF Pick
  <2> HIDE DEF s
  <2>8. Kept(s) /\ Room(s)
    BY <2>1, <2>2 DEF Kept, Sound, Room
  <2>9. s.hurried \/ Awaited(s) = {}
    BY <2>2 DEF Awaited
  <2>3. Kept(s) /\ (s.hurried \/ Awaited(s) = {}) /\ Room(s)
    BY <2>8, <2>9
  <2>5. \E p \in Procs : s.procs[p].state = "unborn"
    BY <2>3 DEF Room
  <2>6. Stop(s, "restart", sidecar.port) \in ShellType
    BY <2>1, <2>2, <2>3, <2>5, StopKept DEF Kept
  <2>7. Orderly(Stop(s, "restart", sidecar.port))
    BY <2>1, <2>2, <2>3, <2>5, StopOrderly
  <2> QED
    BY <1>1, <2>4, <2>6, <2>7, BecomesLeft
<1>8. CASE QuitMenu \/ CloseWindow
  <2>1. Running /\ (Becomes(Quit(Shell)) \/ UNCHANGED <<procs, shellVars>>)
    BY <1>8 DEF QuitMenu, CloseWindow, UserQuits, Running
  <2> QED
    BY <1>1, <2>1, StillLeft, QuitStepLeft
<1>9. CASE Gone
  <2>1. /\ Shell.procs = procs /\ Shell.owned = owned /\ Shell.phase = "closing"
        /\ Shell.hurried = hurried /\ Shell.mcp = mcp
        /\ Shell'.procs = procs /\ Shell'.owned = owned /\ Shell'.phase = "gone"
        /\ Shell'.hurried = hurried /\ Shell'.mcp = mcp
    BY <1>9 DEF Gone, Shell
  <2> HIDE DEF Shell
  <2>2. Leaving(Shell) => Leaving(Shell')
    BY <2>1 DEF Leaving
  <2> QED
    BY <1>1, <2>1, <2>2 DEF Left, Orderly
<1>10. CASE Tick \/ UNCHANGED vars
  BY <1>1, <1>10, StillLeft DEF Tick, vars
<1> QED
  BY <1>2, <1>3, <1>4, <1>5, <1>6, <1>7, <1>8, <1>9, <1>10 DEF Next, Callback

\* When the application is gone, no backend and no endpoint file is left, whichever callback,
\* restart or second quit was under way, unless two stops overlapped (QuitLeavesNothing; the
\* handler of before-quit in index.ts and stop() of sidecar.ts).
THEOREM NothingIsLeft == Spec => []QuitLeavesNothing
<1>1. Left => QuitLeavesNothing
  BY DEF Left, Orderly, Leaving, Shell, QuitLeavesNothing
<1> QED
  BY InitLeft, StepLeft, <1>1, PTL DEF Spec
====
