--------------------------- MODULE DaemonLifecycle ---------------------------
(***************************************************************************)
(* How windows start, stop and restart the singleton daemon:                *)
(* LocalAgentClient's lifecycle methods, its connection generations and     *)
(* the startup lock, against daemon processes that bind, exit and crash.    *)
(*                                                                          *)
(* A task is one call in progress.  Its pc names the await it stands at, or *)
(* the point of a synchronous segment where other processes interleave:     *)
(*   shutdown, reply  stopDaemon awaits shutdownDaemon, not yet or already  *)
(*                    seen by the daemon,                                   *)
(*   waitExit         waitForPreviousDaemonExit,                            *)
(*   siblings         before terminateSiblingAgentProcesses,                *)
(*   resume           the unlinks of DaemonStartIntentStore.resume,         *)
(*   open, acquire, unlink, reopen, checked, poll, waitExisting             *)
(*                    the stages of connectWithAgentStartup; "checked" is   *)
(*                    startAgentProcess after its guards, while ps runs.    *)
(* `path` is the daemon that bound the socket file, dead or alive.  The     *)
(* daemon spawned is the native one; `ps` is assumed to work.               *)
(***************************************************************************)
EXTENDS DaemonStartIntent

CONSTANTS
  Windows,
  Daemons,  \* 1..n, in spawning order
  Budgets,  \* what a behaviour may use
  None

ASSUME LifecycleBudgets ==
  Budgets \subseteq
    [commands : Nat,  \* Starts, Stops and Restarts,
     spawns   : Nat,  \* daemon processes,
     delays   : Nat,  \* late answers of a live daemon and dropped sockets,
     failures : Nat]  \* crashes, slow starts, aged locks and closed windows

VARIABLES
  window,  \* window -> connection state of its LocalAgentClient
  task,    \* task -> the call it stands for
  agent,   \* daemon -> [state, term]; term: SIGTERM or shutdownDaemon arrived
  path,    \* the daemon that bound the socket file, or None
  lock,    \* the startup lock file: None or [owner, stale]
  budget

vars == <<markers, used, seen, wanted, window, task, agent, path, lock, budget>>

\* LocalAgentClient's fields: `known` is snapshot.daemon.pid, `child` is
\* childProcess, `timer` is eventReconnectTimer.
NewWindow ==
  [open |-> TRUE, gen |-> 0, socket |-> None, known |-> None, child |-> None,
   reconnect |-> TRUE, timer |-> FALSE]

Free ==
  [pc |-> "free", kind |-> "auto", win |-> None, gen |-> 0, prev |-> None,
   child |-> None, sock |-> None, locked |-> FALSE, timedOut |-> FALSE]

Init ==
  /\ IntentInit
  /\ window = [w \in Windows |-> NewWindow]
  /\ task = [t \in Tasks |-> Free]
  /\ agent = [d \in Daemons |-> [state |-> "new", term |-> FALSE]]
  /\ path = None
  /\ lock = None
  /\ budget \in Budgets

Spend(what) == budget[what] > 0 /\ budget' = [budget EXCEPT ![what] = @ - 1]

-----------------------------------------------------------------------------
Suspended == isSuspended
Running(d) == agent[d].state \in {"starting", "bound", "up", "closed"}

\* A connection to the socket file is accepted.
Reachable == path # None /\ agent[path].state = "up"

\* No other call of window w is inside a synchronous segment.
SyncPcs == {"resume", "unlink", "checked"}
Turn(t, w) ==
  /\ window[w].open
  /\ \A u \in Tasks \ {t} : task[u].win = w => task[u].pc \notin SyncPcs

At(t, pcs) == task[t].pc \in pcs /\ Turn(t, task[t].win)

\* assertConnectionGeneration
Current(t) == task[t].gen = window[task[t].win].gen

\* `connecting` is set for the present generation.
ConnectPcs == {"open", "acquire", "unlink", "reopen", "checked", "poll", "waitExisting"}
Connecting(w) ==
  \E t \in Tasks :
    task[t].win = w /\ task[t].gen = window[w].gen /\ task[t].pc \in ConnectPcs

Go(t, pc) == task' = [task EXCEPT ![t].pc = pc] /\ UNCHANGED <<intent, lock>>

\* The call returns or throws; the startup lock's release unlinks the lock
\* file without looking at its owner.
End(t) ==
  /\ task' = [task EXCEPT ![t] = Free]
  /\ lock' = IF task[t].locked THEN None ELSE lock
  /\ abandon({t})

Terminate(ds) ==
  agent' = [d \in Daemons |-> [agent[d] EXCEPT !.term = @ \/ (d \in ds /\ Running(d))]]

-----------------------------------------------------------------------------
(* connectWithAgentStartup                                                  *)

\* ensureConnected(), for start() or a request of window w.
Connect(t, w) ==
  /\ task[t] = Free /\ Turn(t, w) /\ ~Suspended
  /\ window[w].socket = None /\ ~Connecting(w)
  /\ task' = [task EXCEPT ![t] = [Free EXCEPT !.pc = "open", !.win = w,
                                              !.gen = window[w].gen]]
  /\ window' = [window EXCEPT ![w].reconnect = TRUE]
  /\ UNCHANGED <<intent, agent, path, lock, budget>>

\* A pass of convergeDaemonLifecycle calls start() when the last snapshot does
\* not say that a daemon is running.
Converge(t, w) == window[w].known = None /\ Connect(t, w)

CanAttach(t) == Reachable /\ Current(t) /\ ~Suspended

\* openSocket succeeds and attachConnectedSocket keeps the socket.
Attach(t) ==
  /\ At(t, {"open", "acquire", "reopen", "poll", "waitExisting"}) /\ CanAttach(t)
  /\ task[t].pc = "acquire" => lock # None
  /\ window' = [window EXCEPT ![task[t].win].socket = IF @ = None THEN path ELSE @]
  /\ End(t)
  /\ UNCHANGED <<agent, path, budget>>

\* The first openSocket fails or its socket is refused; or a live daemon does
\* not accept in time.
OpenFails(t) ==
  /\ At(t, {"open"})
  /\ \/ ~CanAttach(t) /\ Go(t, "acquire") /\ UNCHANGED budget
     \/ /\ Reachable /\ Spend("delays")
        /\ task' = [task EXCEPT ![t].pc = "acquire", ![t].timedOut = TRUE]
        /\ UNCHANGED <<intent, lock>>
  /\ UNCHANGED <<window, agent, path>>

\* acquireAgentStartupLock creates the lock file exclusively.
Acquire(t) ==
  /\ At(t, {"acquire"}) /\ Current(t) /\ lock = None
  /\ lock' = [owner |-> task[t].win, stale |-> FALSE]
  /\ task' = [task EXCEPT ![t].pc = "reopen", ![t].locked = TRUE]
  /\ UNCHANGED <<intent, window, agent, path, budget>>

\* removeStaleStartupLock examines the lock file, then unlinks the file that
\* has its name.
FindStaleLock(t) ==
  /\ At(t, {"acquire"}) /\ Current(t) /\ lock # None /\ lock.stale
  /\ Go(t, "unlink")
  /\ UNCHANGED <<window, agent, path, budget>>

UnlinkStaleLock(t) ==
  /\ At(t, {"unlink"})
  /\ lock' = None
  /\ task' = [task EXCEPT ![t].pc = "acquire"]
  /\ UNCHANGED <<intent, window, agent, path, budget>>

AcquireFailsWhenBusy(t) ==
  /\ At(t, {"acquire"})
  /\ lock # None /\ ~lock.stale /\ ~CanAttach(t)
  /\ End(t)
  /\ UNCHANGED <<window, agent, path, budget>>

\* A later lifecycle cancelled the call, or a lock that is not stale was busy
\* for too long.
AcquireFails(t) ==
  /\ At(t, {"acquire"})
  /\ ~Current(t) \/ (lock # None /\ ~lock.stale /\ ~CanAttach(t))
  /\ End(t)
  /\ UNCHANGED <<window, agent, path, budget>>

ReopenFailsIgnoringTimeout(t) ==
  /\ At(t, {"reopen"})
  /\ \/ /\ ~CanAttach(t) /\ UNCHANGED budget
        /\ IF Current(t) /\ ~Suspended THEN Go(t, "checked") ELSE End(t)
     \/ Reachable /\ Current(t) /\ Spend("delays") /\ Go(t, "checked")
  /\ UNCHANGED <<window, agent, path>>

\* The second openSocket fails.  After a timeout the daemon is taken to be
\* alive and waited for; otherwise startAgentProcess checks its guards.
ReopenFails(t) ==
  /\ At(t, {"reopen"})
  /\ \/ /\ ~CanAttach(t) /\ UNCHANGED budget
        /\ IF ~Current(t) THEN End(t)
           ELSE IF task[t].timedOut THEN Go(t, "waitExisting")
           ELSE IF Suspended THEN End(t)
           ELSE Go(t, "checked")
     \/ Reachable /\ Current(t) /\ Spend("delays") /\ Go(t, "waitExisting")
  /\ UNCHANGED <<window, agent, path>>

SpawnBesideSiblings(t) ==
  /\ At(t, {"checked"}) /\ Spend("spawns")
  /\ \E d \in Daemons :
       /\ agent[d].state = "new" /\ \A e \in 1..(d - 1) : agent[e].state # "new"
       /\ agent' = [agent EXCEPT ![d].state = "starting"]
       /\ window' = [window EXCEPT ![task[t].win].child = d]
  /\ path' = None
  /\ Go(t, "poll")

\* The rest of startAgentProcess: SIGTERM to every other agent process,
\* removeStaleSocketFile, spawn.
Spawn(t) ==
  /\ At(t, {"checked"}) /\ Spend("spawns")
  /\ \E d \in Daemons :
       /\ agent[d].state = "new" /\ \A e \in 1..(d - 1) : agent[e].state # "new"
       /\ agent' = [e \in Daemons |->
            IF e = d THEN [state |-> "starting", term |-> FALSE]
            ELSE [agent[e] EXCEPT !.term = @ \/ Running(e)]]
       /\ window' = [window EXCEPT ![task[t].win].child = d]
  /\ path' = None
  /\ Go(t, "poll")

\* startAgentProcess throws, as it does without an agent to run; here the bound
\* on spawns is reached.
SpawnFails(t) ==
  /\ At(t, {"checked"}) /\ budget.spawns = 0
  /\ End(t)
  /\ UNCHANGED <<window, agent, path, budget>>

\* The polls of connectWithAgentStartup or waitForExistingAgent are cancelled
\* or reach their deadline; a starting daemon that misses it is a failure.
PollFails(t) ==
  /\ At(t, {"poll", "waitExisting"}) /\ ~CanAttach(t)
  /\ IF Current(t) /\ ~Suspended /\ \E d \in Daemons : agent[d].state \in {"starting", "bound"}
     THEN Spend("failures") ELSE UNCHANGED budget
  /\ End(t)
  /\ UNCHANGED <<window, agent, path>>

-----------------------------------------------------------------------------
(* Start, Stop and Restart                                                  *)

\* A lifecycle forgets its socket, its child and the daemon it knew.
Cut(w) == [window[w] EXCEPT !.socket = None, !.known = None, !.child = None]
Quiet(win) == [win EXCEPT !.gen = @ + 1, !.reconnect = FALSE, !.timer = FALSE]

\* start({explicit: true}).
BeginStart(t, w) ==
  /\ task[t] = Free /\ Turn(t, w) /\ Spend("commands")
  /\ observe(t)
  /\ LET call == [Free EXCEPT !.kind = "start", !.win = w, !.prev = window[w].known]
     IN  IF Suspended
         THEN /\ window' = [window EXCEPT ![w] = Quiet(Cut(w))]
              /\ task' = [task EXCEPT ![t] = [call EXCEPT !.pc = "waitExit",
                                                          !.gen = window[w].gen + 1]]
         ELSE /\ task' = [task EXCEPT ![t] = [call EXCEPT !.pc = "resume",
                                                          !.gen = window[w].gen]]
              /\ UNCHANGED window
  /\ UNCHANGED <<agent, path, lock>>

\* stopDaemon up to its first await; without a socket it has none and signals
\* the daemon and the child it knows of.
Stopping(t, w, kind) ==
  LET call == [Free EXCEPT !.kind = kind, !.win = w, !.gen = window[w].gen + 1,
                 !.prev = window[w].known, !.child = window[w].child,
                 !.sock = window[w].socket]
  IN  IF window[w].socket # None
      THEN /\ task' = [task EXCEPT ![t] = [call EXCEPT !.pc = "shutdown"]]
           /\ window' = [window EXCEPT ![w] = Quiet(window[w])]
           /\ UNCHANGED agent
      ELSE /\ task' = [task EXCEPT ![t] =
                IF kind = "stop" THEN Free ELSE [call EXCEPT !.pc = "waitExit"]]
           /\ window' = [window EXCEPT ![w] = Quiet(Cut(w))]
           /\ Terminate({window[w].known, window[w].child})

BeginStop(t, w) ==
  /\ task[t] = Free /\ Turn(t, w) /\ Spend("commands")
  /\ \E m \in Markers : suspend(m)
  /\ Stopping(t, w, "stop")
  /\ UNCHANGED <<path, lock>>

BeginRestart(t, w) ==
  /\ task[t] = Free /\ Turn(t, w) /\ Spend("commands")
  /\ observe(t)
  /\ Stopping(t, w, "restart")
  /\ UNCHANGED <<path, lock>>

AutomaticRestartResumes(t, w) ==
  /\ task[t] = Free /\ Turn(t, w) /\ Spend("commands")
  /\ seen' = [seen EXCEPT ![t] = markers] /\ UNCHANGED <<markers, used, wanted>>
  /\ Stopping(t, w, "restart")
  /\ UNCHANGED <<path, lock>>

\* convergeDaemonLifecycle replaces a daemon of another build; this Restart
\* observes no markers.
BeginAutomaticRestart(t, w) ==
  /\ task[t] = Free /\ Turn(t, w) /\ ~Suspended /\ Spend("commands")
  /\ Stopping(t, w, "restart")
  /\ UNCHANGED <<intent, path, lock>>

\* The daemon reads shutdownDaemon.
ShutdownArrives(t) ==
  /\ task[t].pc = "shutdown" /\ agent[task[t].sock].state = "up"
  /\ Terminate({task[t].sock})
  /\ Go(t, "reply")
  /\ UNCHANGED <<window, path, budget>>

\* stopDaemon after the reply, or after a lost or late one and a SIGTERM to the
\* daemon it knew.  It clears the window's connection, whichever that now is.
FinishStop(t) ==
  /\ At(t, {"shutdown", "reply"})
  /\ LET c    == task[t]
         lost == c.sock # window[c.win].socket \/ agent[c.sock].state \in {"closed", "dead"}
     IN /\ \/ c.pc = "reply" /\ Terminate({c.child}) /\ UNCHANGED budget
           \/ lost /\ Terminate({c.prev, c.child}) /\ UNCHANGED budget
           \/ ~lost /\ Spend("delays") /\ Terminate({c.prev, c.child})
        /\ window' = [window EXCEPT ![c.win] = Cut(c.win)]
        /\ IF c.kind = "restart" /\ Current(t) THEN Go(t, "waitExit") ELSE End(t)
  /\ UNCHANGED path

\* waitForPreviousDaemonExit: the daemon is gone, or it got a SIGTERM and may
\* outlive the deadline.
WaitExit(t) ==
  /\ At(t, {"waitExit"})
  /\ Terminate({task[t].prev})
  /\ IF Current(t)
     THEN Go(t, IF task[t].kind = "start" THEN "resume" ELSE "siblings")
     ELSE End(t)
  /\ UNCHANGED <<window, path, budget>>

\* terminateSiblingAgentProcesses of a Restart; its wait may time out.
Siblings(t) ==
  /\ At(t, {"siblings"})
  /\ IF Current(t)
     THEN Terminate(Daemons \ {task[t].prev}) /\ Go(t, "resume")
     ELSE End(t) /\ UNCHANGED agent
  /\ UNCHANGED <<window, path, budget>>

ResumeMarker(t) ==
  /\ At(t, {"resume"}) /\ Current(t)
  /\ \E m \in Markers : resume(t, m)
  /\ UNCHANGED <<window, task, agent, path, lock, budget>>

\* resume() is done: a later Stop or lifecycle ends the call, otherwise it
\* connects like any request.
ResumeDone(t) ==
  /\ At(t, {"resume"}) /\ (seen[t] = {} \/ ~Current(t))
  /\ LET w == task[t].win
     IN IF Current(t) /\ ~Suspended
        THEN /\ window' = [window EXCEPT ![w].reconnect = TRUE]
             /\ IF window[w].socket = None /\ ~Connecting(w) THEN Go(t, "open") ELSE End(t)
        ELSE End(t) /\ UNCHANGED window
  /\ UNCHANGED <<agent, path, budget>>

-----------------------------------------------------------------------------
(* Events of a window's connection                                          *)

\* loadDaemonStatus or a snapshot tells the daemon's pid.
StatusLoaded(w) ==
  /\ Turn(None, w) /\ window[w].socket \notin {None, window[w].known}
  /\ agent[window[w].socket].state = "up"
  /\ window' = [window EXCEPT ![w].known = window[w].socket]
  /\ UNCHANGED <<intent, task, agent, path, lock, budget>>

\* The daemon is gone, or it dropped a lagging event subscriber.
SocketCloses(w) ==
  /\ Turn(None, w) /\ window[w].socket # None
  /\ IF agent[window[w].socket].state \in {"closed", "dead"} THEN UNCHANGED budget ELSE Spend("delays")
  /\ window' = [window EXCEPT ![w].socket = None,
                              ![w].timer = ~Suspended /\ window[w].reconnect]
  /\ UNCHANGED <<intent, task, agent, path, lock>>

\* reconnectEventStreamToExistingAgent, which waits for `connecting`.  A socket
\* it opens while the daemon is suspended is dropped by loadDaemonStatus in the
\* same turn; a suspended client does not arm the timer again.
EventReconnect(w) ==
  /\ Turn(None, w) /\ window[w].timer /\ ~Connecting(w)
  /\ window' = [window EXCEPT
       ![w].socket = IF @ = None /\ Reachable /\ ~Suspended THEN path ELSE @,
       ![w].timer  = window[w].socket = None /\ ~Reachable /\ ~Suspended]
  /\ UNCHANGED <<intent, task, agent, path, lock, budget>>

-----------------------------------------------------------------------------
(* Daemon processes and faults                                              *)

\* pm_create_server: a live server behind the socket file wins; a path nobody
\* listens on is replaced.
Binds(d) ==
  /\ agent[d].state = "starting"
  /\ IF Reachable
     THEN agent' = [agent EXCEPT ![d].state = "dead"] /\ UNCHANGED path
     ELSE agent' = [agent EXCEPT ![d].state = "bound"] /\ path' = d
  /\ UNCHANGED <<intent, window, task, lock, budget>>

Listens(d) ==
  /\ agent[d].state = "bound"
  /\ agent' = [agent EXCEPT ![d].state = "up"]
  /\ UNCHANGED <<intent, window, task, path, lock, budget>>

\* A daemon told to stop leaves its event loop and closes its server; then
\* main() unlinks the socket path, whoever bound it last.  A process that the
\* signal kills does neither.
Closes(d) ==
  /\ agent[d].state = "up" /\ agent[d].term
  /\ agent' = [agent EXCEPT ![d].state = "closed"]
  /\ UNCHANGED <<intent, window, task, path, lock, budget>>

Exits(d) ==
  /\ agent[d].state = "closed"
  /\ agent' = [agent EXCEPT ![d].state = "dead"]
  /\ path' = None
  /\ UNCHANGED <<intent, window, task, lock, budget>>

Killed(d) ==
  /\ agent[d].state \in {"starting", "up"} /\ agent[d].term
  /\ agent' = [agent EXCEPT ![d].state = "dead"]
  /\ UNCHANGED <<intent, window, task, path, lock, budget>>

AgentCrashes(d) ==
  /\ agent[d].state = "up" /\ Spend("failures")
  /\ agent' = [agent EXCEPT ![d].state = "dead"]
  /\ UNCHANGED <<intent, window, task, path, lock>>

\* A lock looks stale once it is old, or its owner is dead.
LockAges ==
  /\ lock # None /\ ~lock.stale /\ Spend("failures")
  /\ lock' = [lock EXCEPT !.stale = TRUE]
  /\ UNCHANGED <<intent, window, task, agent, path>>

\* An extension host ends in the middle of whatever it does.
WindowCloses(w) ==
  LET mine == {t \in Tasks : task[t].win = w}
  IN  /\ window[w].open /\ Spend("failures")
      /\ window' = [window EXCEPT ![w] = [Cut(w) EXCEPT !.open = FALSE, !.timer = FALSE]]
      /\ task' = [t \in Tasks |-> IF t \in mine THEN Free ELSE task[t]]
      /\ abandon(mine)
      /\ lock' = IF lock # None /\ lock.owner = w THEN [lock EXCEPT !.stale = TRUE] ELSE lock
      /\ UNCHANGED <<agent, path>>

TaskStep(t) ==
  \/ Attach(t) \/ OpenFails(t) \/ Acquire(t)
  \/ FindStaleLock(t) \/ UnlinkStaleLock(t) \/ AcquireFails(t) \/ ReopenFails(t)
  \/ Spawn(t) \/ SpawnFails(t) \/ PollFails(t) \/ ShutdownArrives(t) \/ FinishStop(t)
  \/ WaitExit(t) \/ Siblings(t) \/ ResumeMarker(t) \/ ResumeDone(t)
AgentStep(d) == Binds(d) \/ Listens(d) \/ Closes(d) \/ Exits(d) \/ Killed(d)

Next ==
  \/ \E t \in Tasks : TaskStep(t)
  \/ \E t \in Tasks, w \in Windows :
       \/ Connect(t, w) \/ BeginStart(t, w) \/ BeginStop(t, w)
       \/ BeginRestart(t, w) \/ BeginAutomaticRestart(t, w)
  \/ \E w \in Windows :
       StatusLoaded(w) \/ SocketCloses(w) \/ EventReconnect(w) \/ WindowCloses(w)
  \/ \E d \in Daemons : AgentStep(d) \/ AgentCrashes(d)
  \/ LockAges

Spec == Init /\ [][Next]_vars

\* The window that holds the control-plane lease.
Owner == CHOOSE w \in Windows : window[w].open

\* Calls and daemons proceed.  A call is strongly fair: it is held up by the
\* synchronous segments of other calls of its window, and an event loop serves
\* every call that waits.  Users, requests and faults have no fairness.
CallSpec ==
  /\ Spec
  /\ \A t \in Tasks : SF_vars(TaskStep(t))
  /\ \A d \in Daemons : WF_vars(AgentStep(d))

\* Also, the owner's routing refresh loop converges and timers fire.
FairSpec ==
  /\ CallSpec
  /\ \A w \in Windows :
       /\ WF_vars(StatusLoaded(w)) /\ WF_vars(EventReconnect(w))
       /\ WF_vars(\E t \in Tasks : w = Owner /\ Converge(t, w))

-----------------------------------------------------------------------------
TypeOK ==
  /\ IntentTypeOK
  /\ window \in [Windows ->
       [open : BOOLEAN, gen : Nat, socket : Daemons \cup {None},
        known : Daemons \cup {None}, child : Daemons \cup {None},
        reconnect : BOOLEAN, timer : BOOLEAN]]
  /\ agent \in [Daemons -> [state : {"new", "starting", "bound", "up", "closed", "dead"}, term : BOOLEAN]]
  /\ path \in Daemons \cup {None}
  \* Only a command begins a new connection generation, in its own window.
  /\ \E b \in Budgets : \A w \in Windows : window[w].gen + budget.commands <= b.commands

\* The lifecycle uses the stop markers the way DaemonStartIntent promises, so
\* a Stop given in any window outlives every older Start and Restart.
ImplementsIntent == IntentSpec

\* "Multiple VS Code windows ... all connect to the same OS-user socket": of the
\* daemons that run, at most one has not been told to stop, whatever happened
\* to the startup lock.
SoleAgent ==
  \A d, e \in Daemons :
    Running(d) /\ Running(e) /\ ~agent[d].term /\ ~agent[e].term => d = e

\* A connected window that has not been cut off talks to the daemon behind the
\* socket path, or to one that is on its way out.
NoStrandedWindow ==
  \A w \in Windows :
    LET d == window[w].socket
    IN  d # None /\ agent[d].state = "up" /\ ~agent[d].term => path = d

\* No call waits forever, for the lock, a daemon or another window.
CallsEnd == \A t \in Tasks : []<>(task[t].pc = "free")

\* While no command is given and nothing fails, two windows that race to start
\* the daemon end with the owner window connected to a daemon everyone can
\* reach, in spite of late answers and dropped event streams.
EventuallyServed ==
  budget.commands = 0 /\ budget.failures = 0 =>
    <>[](\A w \in Windows : window[w].open /\ w = Owner => window[w].socket # None /\ Reachable)

\* "Stop Daemon suspends automatic startup across extension windows ... until an
\* explicit Start Daemon or Restart Daemon": once the last command is a Stop, no
\* daemon keeps running.
StopStops ==
  <>[](wanted = "stop") => <>[](\A d \in Daemons : ~Running(d))

\* The calls, windows and daemons are typed, and no two daemons are meant to serve.
OneDaemonServes == TypeOK /\ SoleAgent
=============================================================================
