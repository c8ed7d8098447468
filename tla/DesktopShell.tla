------------------------------ MODULE DesktopShell ------------------------------
(***************************************************************************)
(* The desktop application: the Electron shell that starts the API as a    *)
(* child process, watches over it and shows its pages.                     *)
(*                                                                         *)
(*   desktop/src/main/sidecar.ts   class Sidecar: start, restart, stop     *)
(*   desktop/src/main/index.ts     main, createWindow, before-quit         *)
(*                                                                         *)
(* The shell is one thread: an action is what runs between two awaits, all *)
(* the calls made in it included.  Those calls are functions from a state  *)
(* of the shell to the next (Start, Stop, Quit), applied one to the other. *)
(*                                                                         *)
(* A backend process is a number.  The port the system picks for it is its *)
(* own number; a process may also ask for the port of an earlier one.      *)
(***************************************************************************)
EXTENDS Integers, Sequences, FiniteSets

CONSTANTS
    MaxProcs,       \* bound: backend processes
    MaxCrashes,     \* bound: exits nobody asked for
    MaxPicks,       \* bound: files picked in the native dialog
    MaxTime,        \* bound: the clock
    MaxRestarts,    \* MAX_RESTARTS
    RestartWindow,  \* RESTART_WINDOW_MS
    Platforms       \* where it runs: "mas", "darwin", or "other"

ASSUME ShellAssumption ==
    /\ MaxProcs \in Nat \ {0} /\ MaxCrashes \in Nat /\ MaxPicks \in Nat /\ MaxTime \in Nat
    /\ MaxRestarts \in Nat /\ RestartWindow \in Nat
    /\ Platforms \subseteq {"mas", "darwin", "other"}

VARIABLES
    platform,       \* process.mas, process.platform
    procs,          \* the backend processes
    sidecar,        \* the fields of the Sidecar
    owned,          \* the variable sidecar of index.ts is not null
    phase,          \* of the application
    mcp,            \* the port in mcp-endpoint.json, 0 without the file
    onReady,        \* where the callback that each process caused is
    jar,            \* callbacks in cookies.set: the cookie store answers in order
    currentPort,    \* variable of index.ts
    policy,         \* the port installDefaultSessionPolicy lets pages reach
    window,         \* mainWindow, and what it shows
    ipc,            \* ipcMain has its handler of desktop:choose-file
    now, crashes, picks,    \* the clock, and counters for the bounds
    autos,          \* history: the crashes answered by a restart
    hurried,        \* history: a stop was asked for while another was waited for
    cause           \* history: why the application quits, once it does

shellVars == <<sidecar, owned, phase, mcp, autos, hurried>>
pageVars == <<currentPort, policy, window, ipc>>
readyVars == <<onReady, jar>>
boundVars == <<now, crashes, picks>>
vars == <<platform, procs, shellVars, pageVars, readyVars, boundVars, cause>>

Procs == 1..MaxProcs
Ports == 0..MaxProcs        \* 0: none

\* "piped": the READY line is in the pipe, unread.  "told": SIGTERM is sent, SIGKILL
\* will follow.  "waiter": who awaits its exit in stop(); "back": the port on which
\* restart() will start the next.
Proc == [state : {"unborn", "starting", "serving", "dead"}, asks : Ports, port : Ports,
         piped : BOOLEAN, told : BOOLEAN, waiter : {"nobody", "restart", "quit"}, back : Ports]

Unborn == [state |-> "unborn", asks |-> 0, port |-> 0, piped |-> FALSE,
           told |-> FALSE, waiter |-> "nobody", back |-> 0]

\* An exit nobody asked for: of which process, and when.
Exits == Procs \X (0..MaxTime)

Live(pr) == {p \in Procs : pr[p].state \in {"starting", "serving"}}

TypeOK ==
    /\ platform \in Platforms
    /\ procs \in [Procs -> Proc]
    /\ sidecar \in [proc : Ports, port : Ports, stopping : BOOLEAN, restarts : SUBSET Exits]
    /\ phase # "gone" => sidecar.proc \in Live(procs) \union {0}
    /\ owned \in BOOLEAN
    /\ phase \in {"up", "quitting", "closing", "gone"}
    /\ mcp \in Ports
    /\ onReady \in [Procs -> [at : {"none", "health", "cookie", "load", "over"}, prev : Ports]]
    /\ jar \in Seq(Procs)
    /\ currentPort \in Ports /\ policy \in Ports
    /\ window \in [open : BOOLEAN, page : Ports, loads : Ports]
    /\ ipc \in BOOLEAN
    /\ now \in 0..MaxTime /\ crashes \in 0..MaxCrashes /\ picks \in 0..MaxPicks
    /\ autos \subseteq Exits
    /\ hurried \in BOOLEAN
    /\ cause \in {"none", "user", "fatal", "unready"}

-----------------------------------------------------------------------------
(* What the methods of the Sidecar and app.quit() do, as functions.        *)

Shell == [procs |-> procs, sidecar |-> sidecar, owned |-> owned, phase |-> phase,
          mcp |-> mcp, autos |-> autos, hurried |-> hurried]

Becomes(s) ==
    /\ procs' = s.procs /\ sidecar' = s.sidecar /\ owned' = s.owned /\ phase' = s.phase
    /\ mcp' = s.mcp /\ autos' = s.autos /\ hurried' = s.hurried

\* Processes whose exit somebody waits for.
Awaited(s) == {p \in Live(s.procs) : s.procs[p].waiter # "nobody"}

NextProc(s) == CHOOSE p \in Procs : s.procs[p].state = "unborn"

\* MaxProcs bounds the processes: no step starts more than two.
Room(s) == \E p, q \in Procs : p # q /\ s.procs[p].state = "unborn" /\ s.procs[q].state = "unborn"

\* start.  The callbacks are those of main, every time.
Start(s, port) ==
    [s EXCEPT !.procs[NextProc(s)] = [Unborn EXCEPT !.state = "starting", !.asks = port],
              !.sidecar = [@ EXCEPT !.proc = NextProc(s), !.port = 0, !.stopping = FALSE]]

\* Mutated form of Resume: the endpoint file is removed only once, by the first quit.
ResumeWithFile(s, who, back) ==
    IF who = "restart" THEN Start(s, back) ELSE [s EXCEPT !.phase = "closing"]

\* What follows "await stop()": the rest of restart(), or the second app.quit(), whose
\* before-quit finds no sidecar any more.
Resume(s, who, back) ==
    IF who = "restart" THEN Start(s, back)
    ELSE [s EXCEPT !.mcp = 0, !.phase = "closing"]

\* Mutated form of Stop: the exit is not waited for.
StopAtOnce(s, who, back) ==
    IF s.sidecar.proc = 0 THEN Resume(s, who, back)
    ELSE Resume([s EXCEPT !.sidecar.stopping = TRUE, !.sidecar.proc = 0,
                          !.procs[s.sidecar.proc].told = TRUE], who, back)

\* SIGTERM, and SIGKILL if need be.
Told(proc, who, back) == [proc EXCEPT !.told = TRUE, !.waiter = who, !.back = back]

\* stop: the process is forgotten at once, its exit is waited for.
Stop(s, who, back) ==
    LET p == s.sidecar.proc
    IN  IF p = 0 THEN Resume(s, who, back)
        ELSE [s EXCEPT !.sidecar = [s.sidecar EXCEPT !.stopping = TRUE, !.proc = 0],
                       !.procs = [s.procs EXCEPT ![p] = Told(s.procs[p], who, back)]]

\* app.quit(), with the handler of before-quit.
Quit(s) ==
    LET t == [s EXCEPT !.mcp = 0, !.hurried = @ \/ Awaited(s) # {}]
    IN  IF s.owned THEN Stop([t EXCEPT !.owned = FALSE, !.phase = "quitting"], "quit", 0)
        ELSE [t EXCEPT !.phase = "closing"]

\* Mutated form of Recent: the comparison is the wrong way round.
Outdated == {e \in sidecar.restarts : now - e[2] >= RestartWindow}

\* this.restarts, filtered.
Recent == {e \in sidecar.restarts : now - e[2] < RestartWindow}

\* The handler of "exit", up to its last line or its return.
Exited(s, p) ==
    LET recent == Recent \union {<<p, now>>}
        t == [s EXCEPT !.procs = [s.procs EXCEPT ![p] = [s.procs[p] EXCEPT !.state = "dead"]],
                       !.sidecar = [s.sidecar EXCEPT !.proc = 0, !.port = 0]]
        u == [t EXCEPT !.sidecar = [t.sidecar EXCEPT !.restarts = recent]]
    IN  IF s.sidecar.stopping THEN t
        ELSE IF Cardinality(recent) > MaxRestarts THEN Quit(u)
        ELSE Start([u EXCEPT !.autos = @ \union {<<p, now>>}], 0)

-----------------------------------------------------------------------------
(* The backend processes.                                                  *)

Running == phase # "gone"

Listening(port) == \E p \in Procs : procs[p].state = "serving" /\ procs[p].port = port

\* main.py: the port is bound, READY is printed, requests are served.
Announce(p) ==
    /\ procs[p].state = "starting"
    /\ procs[p].asks = 0 \/ ~Listening(procs[p].asks)
    /\ procs' = [procs EXCEPT ![p].state = "serving", ![p].piped = TRUE,
                              ![p].port = IF procs[p].asks = 0 THEN p ELSE procs[p].asks]
    /\ UNCHANGED <<platform, shellVars, pageVars, readyVars, boundVars, cause>>

\* The handlers of "exit": first the one of start, then the one of stop.
Handled(p) ==
    LET s == Exited(Shell, p)
    IN  IF procs[p].waiter = "nobody" THEN s ELSE Resume(s, procs[p].waiter, procs[p].back)

\* The process ends, and the shell, while there is one, handles its exit.
Exit(p) ==
    /\ p \in Live(procs)
    /\ IF Running
       THEN /\ Room(Shell)
            /\ Becomes(Handled(p))
            /\ cause' = IF cause = "none" /\ Exited(Shell, p).phase # "up" THEN "fatal" ELSE cause
       ELSE /\ procs' = [procs EXCEPT ![p].state = "dead"]
            /\ UNCHANGED <<shellVars, cause>>
    /\ UNCHANGED <<platform, pageVars, readyVars, now, picks>>

\* It was told to, or the port it asked for is taken.
Must(p) ==
    \/ procs[p].told
    \/ procs[p].state = "starting" /\ procs[p].asks # 0 /\ Listening(procs[p].asks)

Ends(p) == Must(p) /\ Exit(p) /\ UNCHANGED crashes

Crash(p) == ~Must(p) /\ crashes < MaxCrashes /\ crashes' = crashes + 1 /\ Exit(p)

-----------------------------------------------------------------------------
(* stdout, and the callback onReady of main.                               *)

\* The handler of "data".  The pipe outlives the process: the line may be read after
\* its exit, and belongs to whatever process the Sidecar has by then.
Data(p) ==
    /\ Running
    /\ procs[p].piped
    /\ procs' = [procs EXCEPT ![p].piped = FALSE]
    /\ IF sidecar.port = 0
       THEN /\ sidecar' = [sidecar EXCEPT !.port = procs[p].port]
            /\ onReady' = [onReady EXCEPT ![p].at = "health"]
       ELSE UNCHANGED <<sidecar, onReady>>
    /\ UNCHANGED <<platform, owned, phase, mcp, autos, hurried, jar, pageVars, boundVars, cause>>

\* Mutated form of Healthy: previousPort is read after currentPort was set.
HealthyLate(p) ==
    /\ Running
    /\ onReady[p].at = "health"
    /\ Listening(procs[p].port)
    /\ onReady' = [onReady EXCEPT ![p] = [at |-> "cookie", prev |-> procs[p].port]]
    /\ jar' = Append(jar, p)
    /\ currentPort' = procs[p].port
    /\ mcp' = procs[p].port
    /\ UNCHANGED <<platform, procs, sidecar, owned, phase, autos, hurried, policy, window, ipc,
                   boundVars, cause>>

\* waitForHealth is answered 200, by whichever process has the port.
Healthy(p) ==
    /\ Running
    /\ onReady[p].at = "health"
    /\ Listening(procs[p].port)
    /\ onReady' = [onReady EXCEPT ![p] = [at |-> "cookie", prev |-> currentPort]]
    /\ jar' = Append(jar, p)
    /\ currentPort' = procs[p].port
    /\ mcp' = procs[p].port
    /\ UNCHANGED <<platform, procs, sidecar, owned, phase, autos, hurried, policy, window, ipc,
                   boundVars, cause>>

\* The catch of onReady: an error box, and the application quits.
GiveUp(p) ==
    /\ Becomes(Quit(Shell))
    /\ cause' = IF cause = "none" THEN "unready" ELSE cause
    /\ onReady' = [onReady EXCEPT ![p].at = "over"]

\* Ten seconds without an answer.  A backend that serves answers in time.
TimesOut(p) ==
    /\ Running
    /\ onReady[p].at = "health"
    /\ ~Listening(procs[p].port)
    /\ GiveUp(p)
    /\ UNCHANGED <<platform, jar, pageVars, boundVars>>

\* The cookie is set: the network policy moves to the new port, and a window is made,
\* pointed at the port, or left as it is.
Shows(p) ==
    /\ onReady' = [onReady EXCEPT ![p].at = "load"]
    /\ window' = [window EXCEPT !.open = TRUE, !.loads = p]
    /\ ipc' = TRUE
    /\ UNCHANGED <<procs, shellVars, cause>>

CookieSet(p) ==
    /\ Running
    /\ onReady[p].at = "cookie"
    /\ jar # <<>> /\ Head(jar) = p
    /\ jar' = Tail(jar)
    /\ policy' = procs[p].port
    /\ \/ ~window.open /\ ~ipc /\ Shows(p)
       \/ window.open /\ procs[p].port # onReady[p].prev /\ Shows(p)
       \/ /\ window.open /\ procs[p].port = onReady[p].prev
          /\ onReady' = [onReady EXCEPT ![p].at = "over"]
          /\ UNCHANGED <<procs, shellVars, window, ipc, cause>>
       \/ \* A second createWindow: ipcMain.handle throws, the window is there, empty.
          /\ ~window.open /\ ipc
          /\ window' = [window EXCEPT !.open = TRUE]
          /\ GiveUp(p)
          /\ UNCHANGED ipc
    /\ UNCHANGED <<platform, currentPort, boundVars>>

Reachable(p) ==
    window.loads = p /\ Listening(procs[p].port) /\ policy = procs[p].port

Loaded(p) ==
    /\ Running
    /\ onReady[p].at = "load"
    /\ Reachable(p)
    /\ onReady' = [onReady EXCEPT ![p].at = "over"]
    /\ window' = [window EXCEPT !.page = procs[p].port, !.loads = 0]
    /\ UNCHANGED <<platform, procs, shellVars, currentPort, policy, ipc, jar, boundVars, cause>>

\* loadURL is rejected: nobody listens, the policy forbids it, or another load began.
LoadFails(p) ==
    /\ Running
    /\ onReady[p].at = "load"
    /\ ~Reachable(p)
    /\ GiveUp(p)
    /\ window' = [window EXCEPT !.loads = IF @ = p THEN 0 ELSE @]
    /\ UNCHANGED <<platform, currentPort, policy, ipc, jar, boundVars>>

-----------------------------------------------------------------------------
(* The user.                                                               *)

\* desktop:choose-file with a file chosen: restart(), in the store build only.
Pick ==
    /\ phase = "up"
    /\ platform = "mas" /\ owned
    /\ window.open /\ window.page # 0
    /\ picks < MaxPicks
    /\ picks' = picks + 1
    /\ Room(Shell)
    /\ Becomes(Stop([Shell EXCEPT !.hurried = @ \/ Awaited(Shell) # {}], "restart", sidecar.port))
    /\ UNCHANGED <<platform, pageVars, readyVars, now, crashes, cause>>

UserQuits ==
    /\ Becomes(Quit(Shell))
    /\ cause' = IF cause = "none" THEN "user" ELSE cause

QuitMenu ==
    /\ phase \in {"up", "quitting"}
    /\ UserQuits
    /\ UNCHANGED <<platform, pageVars, readyVars, boundVars>>

\* The window is closed by its button: window-all-closed quits, but not on a Mac.
CloseWindow ==
    /\ phase = "up"
    /\ window.open /\ window.page # 0 /\ window.loads = 0
    /\ window' = [window EXCEPT !.open = FALSE, !.page = 0]
    /\ IF platform = "other" THEN UserQuits ELSE UNCHANGED <<procs, shellVars, cause>>
    /\ UNCHANGED <<platform, currentPort, policy, ipc, readyVars, boundVars>>

\* Electron has closed its windows and exits.
Gone ==
    /\ phase = "closing"
    /\ phase' = "gone"
    /\ UNCHANGED <<platform, procs, sidecar, owned, mcp, autos, hurried, pageVars, readyVars,
                   boundVars, cause>>

Tick ==
    /\ now < MaxTime
    /\ now' = now + 1
    /\ UNCHANGED <<platform, procs, shellVars, pageVars, readyVars, crashes, picks, cause>>

-----------------------------------------------------------------------------
\* main: the first process is started on a port of the system's choice.
Init ==
    /\ platform \in Platforms
    /\ procs = [p \in Procs |->
                  IF p = 1 THEN [Unborn EXCEPT !.state = "starting"] ELSE Unborn]
    /\ sidecar = [proc |-> 1, port |-> 0, stopping |-> FALSE, restarts |-> {}]
    /\ owned = TRUE /\ phase = "up" /\ mcp = 0
    /\ onReady = [p \in Procs |-> [at |-> "none", prev |-> 0]] /\ jar = <<>>
    /\ currentPort = 0 /\ policy = 0
    /\ window = [open |-> FALSE, page |-> 0, loads |-> 0] /\ ipc = FALSE
    /\ now = 0 /\ crashes = 0 /\ picks = 0
    /\ autos = {} /\ hurried = FALSE /\ cause = "none"

Callback(p) ==
    Data(p) \/ Healthy(p) \/ TimesOut(p) \/ CookieSet(p) \/ Loaded(p) \/ LoadFails(p)

Next ==
    \/ \E p \in Procs : Announce(p) \/ Ends(p) \/ Crash(p) \/ Callback(p)
    \/ Pick \/ QuitMenu \/ CloseWindow \/ Gone \/ Tick

Spec == Init /\ [][Next]_vars

\* A process that is not stopped or killed comes up, one that is told to ends (SIGKILL
\* after five seconds), and the shell runs its callbacks.
FairSpec ==
    /\ Spec
    /\ \A p \in Procs : WF_vars(Announce(p)) /\ WF_vars(Ends(p)) /\ WF_vars(Callback(p))
    /\ WF_vars(Gone)

-----------------------------------------------------------------------------
(* Properties.                                                             *)

\* One backend at a time: a successor is started only when its predecessor has ended,
\* through crashes, restarts after a file pick and quitting.  Both would open the same
\* database file.  Stops that overlap are excepted: start() then runs with a process
\* still alive (sidecar.ts:135 returns at once when proc is null).
OneBackend == hurried \/ \A p, q \in Live(procs) : p = q

\* When the application is gone so are its backend and the endpoint file that names it
\* to MCP clients, whatever callbacks were under way when it quit.
QuitLeavesNothing == phase = "gone" => hurried \/ (Live(procs) = {} /\ mcp = 0)

\* "max 3 restarts per 60 s" (docs/desktop-plan.md:250): no more crashes than that are
\* answered by a restart in any window of that length.
RestartsBounded ==
    \A t \in 0..MaxTime :
        Cardinality({e \in autos : e[2] \in t..(t + RestartWindow - 1)}) <= MaxRestarts

\* Everything that names a port names the one the backend listens on.
Served ==
    /\ sidecar.proc # 0
    /\ LET p == procs[sidecar.proc]
       IN  /\ p.state = "serving"
           /\ {sidecar.port, currentPort, mcp, policy} = {p.port}
           /\ IF window.open THEN window.page = p.port ELSE ipc

\* Through crashes at any point and restarts, the shell ends up showing the backend
\* that runs, on its port, with the policy and the MCP file that go with it, or gone.
SettlesServed == <>[](Served \/ phase = "gone" \/ hurried)

\* "restart immediately ... after that, show dialog and quit" (docs/desktop-plan.md:250):
\* while restarts are within the limit and the window shows the backend that runs, no
\* callback of an earlier process takes the application down.
ServedIsKept == [][cause' = "unready" /\ cause = "none" => ~Served]_vars
=============================================================================
