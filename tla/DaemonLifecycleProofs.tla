------------------------ MODULE DaemonLifecycleProofs ------------------------
(***************************************************************************)
(* For any number of windows, calls, daemons and markers: LocalAgentClient  *)
(* uses the stop markers the way DaemonStartIntent promises, so a Stop is   *)
(* never undone, and at most one running daemon has not been told to stop.  *)
(***************************************************************************)
EXTENDS DaemonLifecycle, TLAPS

-----------------------------------------------------------------------------
(* The marker store by itself, for any number of commands and Stops.        *)

\* Every removal set holds only markers that were created.
SeenWereUsed == \A t \in Tasks : seen[t] \subseteq used

\* The marker of the last Stop is in nobody's removal set.
LastStopIsSafe ==
  wanted = "stop" => \E m \in markers : \A t \in Tasks : m \notin seen[t]

IInv == IntentTypeOK /\ markers \subseteq used /\ SeenWereUsed /\ LastStopIsSafe

LEMMA InitIInv == IntentInit => IInv
  BY DEF IntentInit, IInv, IntentTypeOK, SeenWereUsed, LastStopIsSafe

LEMMA NextIInv == IInv /\ [IntentNext]_intent => IInv'
<1> SUFFICES ASSUME IInv, [IntentNext]_intent PROVE IInv'
  OBVIOUS
<1> USE DEF IInv, IntentTypeOK, SeenWereUsed, LastStopIsSafe
<1>1. ASSUME NEW m \in Markers, suspend(m) PROVE IInv'
  \* The new marker is not in `used`, so it is in no removal set.
  <2>1. m \in markers' /\ \A t \in Tasks : m \notin seen'[t]
    BY <1>1 DEF suspend
  <2> QED BY <1>1, <2>1 DEF suspend
<1>2. ASSUME NEW t \in Tasks, observe(t) PROVE IInv'
  BY <1>2 DEF observe
<1>3. ASSUME NEW ts \in SUBSET Tasks, abandon(ts) PROVE IInv'
  BY <1>3 DEF abandon
<1>4. ASSUME NEW t \in Tasks, NEW m \in Markers, resume(t, m) PROVE IInv'
  BY <1>4 DEF resume
<1>5. CASE UNCHANGED intent
  BY <1>5 DEF intent
<1> QED BY <1>1, <1>2, <1>3, <1>4, <1>5 DEF IntentNext

\* The store's invariant is inductive.
THEOREM Invariance == IntentSpec => []IInv
  BY InitIInv, NextIInv, PTL DEF IntentSpec

\* DaemonStartIntentStore: whatever older Starts and Restarts do to the marker
\* directory, automatic startup stays suspended after the last Stop.
THEOREM StopIsNeverUndone == IntentSpec => []StopWins
<1>1. IInv => StopWins
  BY DEF IInv, LastStopIsSafe, StopWins, isSuspended
<1> QED BY <1>1, Invariance, PTL

-----------------------------------------------------------------------------
(* The lifecycle implements the marker store.                               *)

\* The end of a call gives up the markers it observed.
LEMMA EndAbandons ==
  ASSUME NEW t \in Tasks, End(t)
  PROVE  IntentNext
BY DEF End, IntentNext

\* A step of a call is a step of the store, or none.
LEMMA TaskStepIntent ==
  ASSUME NEW t \in Tasks, TaskStep(t)
  PROVE  [IntentNext]_intent
<1> USE EndAbandons
<1>1. CASE Attach(t)
  BY <1>1 DEF Attach
<1>2. CASE OpenFails(t)
  BY <1>2 DEF OpenFails, Go
<1>3. CASE Acquire(t) \/ FindStaleLock(t) \/ UnlinkStaleLock(t)
  BY <1>3 DEF Acquire, FindStaleLock, UnlinkStaleLock, Go
<1>4. CASE AcquireFails(t) \/ SpawnFails(t) \/ PollFails(t)
  BY <1>4 DEF AcquireFails, SpawnFails, PollFails
<1>5. CASE ReopenFails(t)
  BY <1>5 DEF ReopenFails, Go
<1>6. CASE Spawn(t) \/ ShutdownArrives(t)
  BY <1>6 DEF Spawn, ShutdownArrives, Go
<1>7. CASE FinishStop(t)
  BY <1>7 DEF FinishStop, Go
<1>8. CASE WaitExit(t) \/ Siblings(t)
  BY <1>8 DEF WaitExit, Siblings, Go
<1>9. CASE ResumeMarker(t)
  BY <1>9 DEF ResumeMarker, IntentNext
<1>10. CASE ResumeDone(t)
  BY <1>10 DEF ResumeDone, Go
<1> QED
  BY <1>1, <1>2, <1>3, <1>4, <1>5, <1>6, <1>7, <1>8, <1>9, <1>10 DEF TaskStep

\* So is every other step.
LEMMA NextIntent == [Next]_vars => [IntentNext]_intent
<1> SUFFICES ASSUME [Next]_vars PROVE [IntentNext]_intent
  OBVIOUS
<1>1. ASSUME NEW t \in Tasks, NEW w \in Windows,
             Connect(t, w) \/ BeginAutomaticRestart(t, w)
      PROVE  UNCHANGED intent
  BY <1>1 DEF Connect, BeginAutomaticRestart
<1>2. ASSUME NEW t \in Tasks, NEW w \in Windows, BeginStart(t, w) \/ BeginRestart(t, w)
      PROVE  IntentNext
  BY <1>2 DEF BeginStart, BeginRestart, IntentNext
<1>3. ASSUME NEW t \in Tasks, NEW w \in Windows, BeginStop(t, w)
      PROVE  IntentNext
  BY <1>3 DEF BeginStop, IntentNext
<1>4. ASSUME NEW w \in Windows, StatusLoaded(w) \/ SocketCloses(w) \/ EventReconnect(w)
      PROVE  UNCHANGED intent
  BY <1>4 DEF StatusLoaded, SocketCloses, EventReconnect
<1>5. ASSUME NEW w \in Windows, WindowCloses(w)
      PROVE  IntentNext
  <2>1. {t \in Tasks : task[t].win = w} \in SUBSET Tasks
    OBVIOUS
  <2> QED BY <1>5, <2>1 DEF WindowCloses, IntentNext
<1>6. ASSUME NEW d \in Daemons, AgentStep(d) \/ AgentCrashes(d)
      PROVE  UNCHANGED intent
  BY <1>6 DEF AgentStep, Binds, Listens, Closes, Exits, Killed, AgentCrashes
<1>7. CASE LockAges
  BY <1>7 DEF LockAges
<1>8. CASE UNCHANGED vars
  BY <1>8 DEF vars, intent
<1> QED
  BY <1>1, <1>2, <1>3, <1>4, <1>5, <1>6, <1>7, <1>8, TaskStepIntent DEF Next

\* The connection lifecycle of LocalAgentClient implements DaemonStartIntentStore's
\* contract: each of its steps creates a marker, observes the markers, unlinks one it
\* observed, gives up, or leaves the markers alone.
THEOREM LifecycleImplementsIntent == Spec => ImplementsIntent
<1>1. Init => IntentInit
  BY DEF Init
<1> QED BY <1>1, NextIntent, PTL DEF Spec, ImplementsIntent, IntentSpec

\* A Stop given in any window is undone by no older Start or Restart of any window,
\* wherever its stopDaemon, waitForPreviousDaemonExit and resume() stand.
THEOREM LifecycleStopWins == Spec => []StopWins
BY LifecycleImplementsIntent, StopIsNeverUndone, PTL DEF ImplementsIntent

-----------------------------------------------------------------------------
(* At most one daemon serves.                                               *)

WindowType ==
  [open : BOOLEAN, gen : Nat, socket : Daemons \cup {None},
   known : Daemons \cup {None}, child : Daemons \cup {None},
   reconnect : BOOLEAN, timer : BOOLEAN]
AgentType == [state : {"new", "starting", "bound", "up", "closed", "dead"}, term : BOOLEAN]
BudgetType == [commands : Nat, spawns : Nat, delays : Nat, failures : Nat]

\* Generations are paid for by commands.
GenerationsBounded ==
  \E b \in Budgets : \A w \in Windows : window[w].gen + budget.commands <= b.commands

\* What the processes' steps keep true, and what the windows' steps do.
AgentsOK == agent \in [Daemons -> AgentType] /\ path \in Daemons \cup {None} /\ SoleAgent
WindowsOK == window \in [Windows -> WindowType] /\ budget \in BudgetType /\ GenerationsBounded

LEMMA InitServes == Init => AgentsOK /\ WindowsOK
<1> SUFFICES ASSUME Init PROVE AgentsOK /\ WindowsOK
  OBVIOUS
<1>1. AgentsOK
  BY DEF Init, AgentsOK, AgentType, SoleAgent, Running
<1>2. budget \in Budgets /\ budget \in BudgetType
  BY LifecycleBudgets DEF Init, BudgetType
<1>3. window \in [Windows -> WindowType] /\ \A w \in Windows : window[w].gen = 0
  BY DEF Init, NewWindow, WindowType
<1>4. GenerationsBounded
  BY <1>2, <1>3 DEF GenerationsBounded, BudgetType
<1> QED BY <1>1, <1>2, <1>3, <1>4 DEF WindowsOK

\* SIGTERM and shutdownDaemon only add to the daemons told to stop.
LEMMA TerminateOK ==
  ASSUME AgentsOK, NEW ds, Terminate(ds), UNCHANGED path
  PROVE  AgentsOK'
<1>1. agent' \in [Daemons -> AgentType]
  BY DEF AgentsOK, Terminate, AgentType
<1>2. \A d \in Daemons : agent'[d].state = agent[d].state /\ (agent[d].term => agent'[d].term)
  BY DEF AgentsOK, Terminate, AgentType
<1> QED BY <1>1, <1>2 DEF AgentsOK, SoleAgent, Running

\* A daemon that moves on keeps its term flag, and one that is not running stays so.
LEMMA StateStepOK ==
  ASSUME AgentsOK, NEW d \in Daemons, NEW s \in {"bound", "up", "closed", "dead"},
         Running(d), agent' = [agent EXCEPT ![d].state = s], path' \in Daemons \cup {None}
  PROVE  AgentsOK'
<1>1. agent' \in [Daemons -> AgentType]
  BY DEF AgentsOK, AgentType
<1>2. \A e \in Daemons : agent'[e].term = agent[e].term /\ (e # d => agent'[e].state = agent[e].state)
  BY DEF AgentsOK, AgentType
<1> QED BY <1>1, <1>2 DEF AgentsOK, SoleAgent, Running

LEMMA AgentsStutter ==
  ASSUME AgentsOK, UNCHANGED <<agent, path>>
  PROVE  AgentsOK'
BY DEF AgentsOK, SoleAgent, Running

\* startAgentProcess spawns after it has signalled every other agent process.
LEMMA SpawnOK ==
  ASSUME AgentsOK, NEW t \in Tasks, Spawn(t)
  PROVE  AgentsOK'
<1>1. PICK d \in Daemons :
        agent' = [e \in Daemons |->
            IF e = d THEN [state |-> "starting", term |-> FALSE]
            ELSE [agent[e] EXCEPT !.term = @ \/ Running(e)]]
  BY DEF Spawn
<1>2. agent' \in [Daemons -> AgentType]
  BY <1>1 DEF AgentsOK, AgentType
<1>3. ASSUME NEW e \in Daemons, e # d PROVE agent'[e].state = agent[e].state /\ (Running(e) => agent'[e].term)
  BY <1>1, <1>3 DEF AgentsOK, AgentType
<1>4. SoleAgent'
  BY <1>3 DEF SoleAgent, Running
<1> QED BY <1>2, <1>4 DEF AgentsOK, Spawn

\* Every budget shrinks by one at most.
LEMMA SpendOK ==
  ASSUME budget \in BudgetType, NEW what \in {"commands", "spawns", "delays", "failures"}, Spend(what)
  PROVE  /\ budget' \in BudgetType
         /\ what = "commands" => budget'.commands = budget.commands - 1
         /\ what # "commands" => budget'.commands = budget.commands
BY DEF Spend, BudgetType

\* What a window's step may do to its generation.
LEMMA WindowsStep ==
  ASSUME WindowsOK, window' \in [Windows -> WindowType], budget' \in BudgetType,
         \A v \in Windows : window'[v].gen + budget'.commands <= window[v].gen + budget.commands
  PROVE  WindowsOK'
<1>1. PICK b \in Budgets : \A w \in Windows : window[w].gen + budget.commands <= b.commands
  BY DEF WindowsOK, GenerationsBounded
<1>2. \A v \in Windows : window[v].gen \in Nat /\ window'[v].gen \in Nat
  BY DEF WindowsOK, WindowType
<1>3. budget.commands \in Nat /\ budget'.commands \in Nat /\ b.commands \in Nat
  BY LifecycleBudgets DEF WindowsOK, BudgetType
<1>4. \A v \in Windows : window'[v].gen + budget'.commands <= b.commands
  BY <1>1, <1>2, <1>3
<1> QED BY <1>4 DEF WindowsOK, GenerationsBounded

\* Most steps keep the generations, and some spend another budget.
LEMMA WindowsKept ==
  ASSUME WindowsOK, window' \in [Windows -> WindowType],
         \A v \in Windows : window'[v].gen = window[v].gen,
         UNCHANGED budget \/ Spend("spawns") \/ Spend("delays") \/ Spend("failures")
  PROVE  WindowsOK'
<1>1. budget' \in BudgetType /\ budget'.commands = budget.commands
  BY SpendOK DEF WindowsOK
<1> QED BY <1>1, WindowsStep DEF WindowsOK, WindowType, BudgetType

LEMMA WindowsStutter ==
  ASSUME WindowsOK, UNCHANGED window,
         UNCHANGED budget \/ Spend("spawns") \/ Spend("delays") \/ Spend("failures")
  PROVE  WindowsOK'
BY WindowsKept DEF WindowsOK

\* A window whose fields change and whose generation does not.
LEMMA UpdateOK ==
  ASSUME WindowsOK, NEW w, NEW win, window' = [window EXCEPT ![w] = win],
         w \in Windows => win \in WindowType /\ win.gen = window[w].gen
  PROVE  window' \in [Windows -> WindowType] /\ \A v \in Windows : window'[v].gen = window[v].gen
BY DEF WindowsOK

LEMMA SocketOK ==
  ASSUME NEW win \in WindowType, NEW d \in Daemons \cup {None}, NEW b \in BOOLEAN
  PROVE  /\ [win EXCEPT !.socket = d] \in WindowType /\ [win EXCEPT !.socket = d].gen = win.gen
         /\ [win EXCEPT !.child = d] \in WindowType /\ [win EXCEPT !.child = d].gen = win.gen
         /\ [win EXCEPT !.reconnect = b] \in WindowType /\ [win EXCEPT !.reconnect = b].gen = win.gen
         /\ [win EXCEPT !.timer = b] \in WindowType /\ [win EXCEPT !.timer = b].gen = win.gen
BY DEF WindowType

\* A lifecycle's cut keeps the generation; a command begins a new one.
LEMMA CutOK ==
  ASSUME WindowsOK, NEW w \in Windows
  PROVE  /\ Cut(w) \in WindowType /\ Cut(w).gen = window[w].gen
         /\ Quiet(window[w]) \in WindowType /\ Quiet(window[w]).gen = window[w].gen + 1
         /\ Quiet(Cut(w)) \in WindowType /\ Quiet(Cut(w)).gen = window[w].gen + 1
<1>1. window[w] \in WindowType
  BY DEF WindowsOK
<1>2. Cut(w) \in WindowType /\ Cut(w).gen = window[w].gen
  BY <1>1 DEF Cut, WindowType
<1>3. ASSUME NEW win \in WindowType PROVE Quiet(win) \in WindowType /\ Quiet(win).gen = win.gen + 1
  <2>1. [win EXCEPT !.gen = @ + 1] \in WindowType /\ [win EXCEPT !.gen = @ + 1].gen = win.gen + 1
    BY DEF WindowType
  <2> QED BY <2>1 DEF Quiet, WindowType
<1> QED BY <1>1, <1>2, <1>3

\* A command of window w, which may begin one generation there.
LEMMA CommandOK ==
  ASSUME WindowsOK, NEW w \in Windows, Spend("commands"),
         NEW win \in {window[w], Quiet(window[w]), Quiet(Cut(w))},
         window' = [window EXCEPT ![w] = win]
  PROVE  WindowsOK'
<1>1. budget' \in BudgetType /\ budget'.commands = budget.commands - 1
  BY SpendOK DEF WindowsOK
<1>2. win \in WindowType /\ win.gen \in {window[w].gen, window[w].gen + 1} /\ window[w].gen \in Nat
  BY CutOK DEF WindowsOK, WindowType
<1>3. window' \in [Windows -> WindowType]
  BY <1>2 DEF WindowsOK
<1>4. ASSUME NEW v \in Windows
      PROVE  window'[v].gen + budget'.commands <= window[v].gen + budget.commands
  <2>1. window[v].gen \in Nat /\ budget.commands \in Nat
    BY DEF WindowsOK, WindowType, BudgetType
  <2>2. window'[v].gen \in {window[v].gen, window[v].gen + 1}
    BY <1>2, <2>1 DEF WindowsOK
  <2> QED BY <1>1, <2>1, <2>2
<1> QED BY <1>1, <1>3, <1>4, WindowsStep

\* stopDaemon's first segment.
LEMMA StoppingOK ==
  ASSUME AgentsOK, WindowsOK, NEW t \in Tasks, NEW w \in Windows, NEW kind, Stopping(t, w, kind),
         Spend("commands"), UNCHANGED path
  PROVE  AgentsOK' /\ WindowsOK'
<1>1. CASE window[w].socket # None
  BY <1>1, AgentsStutter, CommandOK DEF Stopping
<1>2. CASE window[w].socket = None
  BY <1>2, TerminateOK, CommandOK DEF Stopping
<1> QED BY <1>1, <1>2

\* The steps of a call keep both halves.
LEMMA TaskStepServes ==
  ASSUME AgentsOK, WindowsOK, NEW t \in Tasks, TaskStep(t)
  PROVE  AgentsOK' /\ WindowsOK'
<1>1. CASE Attach(t)
  <2>1. window' \in [Windows -> WindowType] /\ \A v \in Windows : window'[v].gen = window[v].gen
    <3> DEFINE w == task[t].win
               d == IF window[w].socket = None THEN path ELSE window[w].socket
    <3>1. window' = [window EXCEPT ![w] = [window[w] EXCEPT !.socket = d]]
      BY <1>1 DEF Attach
    <3>2. w \in Windows => window[w] \in WindowType /\ d \in Daemons \cup {None}
      BY DEF AgentsOK, WindowsOK, WindowType
    <3> HIDE DEF w, d
    <3> QED BY <3>1, <3>2, SocketOK, UpdateOK
  <2> QED BY <1>1, <2>1, WindowsKept, AgentsStutter DEF Attach
<1>2. CASE OpenFails(t) \/ ReopenFails(t)
  BY <1>2, WindowsStutter, AgentsStutter DEF OpenFails, ReopenFails
<1>3. CASE Acquire(t) \/ FindStaleLock(t) \/ UnlinkStaleLock(t) \/ AcquireFails(t) \/ SpawnFails(t)
  BY <1>3, WindowsStutter, AgentsStutter
  DEF Acquire, FindStaleLock, UnlinkStaleLock, AcquireFails, SpawnFails
<1>4. CASE PollFails(t)
  BY <1>4, WindowsStutter, AgentsStutter DEF PollFails
<1>5. CASE Spawn(t)
  <2>1. PICK d \in Daemons : window' = [window EXCEPT ![task[t].win].child = d]
    BY <1>5 DEF Spawn
  <2>2. window' \in [Windows -> WindowType] /\ \A v \in Windows : window'[v].gen = window[v].gen
    <3> DEFINE w == task[t].win
    <3>1. window' = [window EXCEPT ![w] = [window[w] EXCEPT !.child = d]]
      BY <2>1
    <3>2. w \in Windows => window[w] \in WindowType
      BY DEF WindowsOK
    <3> HIDE DEF w
    <3>3. w \in Windows => /\ [window[w] EXCEPT !.child = d] \in WindowType
                           /\ [window[w] EXCEPT !.child = d].gen = window[w].gen
      BY <3>2, SocketOK
    <3> QED BY <3>1, <3>3, UpdateOK
  <2> QED BY <1>5, <2>2, WindowsKept, SpawnOK DEF Spawn
<1>6. CASE ShutdownArrives(t)
  BY <1>6, WindowsStutter, TerminateOK DEF ShutdownArrives
<1>7. CASE FinishStop(t)
  <2> DEFINE c == task[t]
  <2>1. window' \in [Windows -> WindowType] /\ \A v \in Windows : window'[v].gen = window[v].gen
    <3>1. window' = [window EXCEPT ![c.win] = Cut(c.win)]
      BY <1>7 DEF FinishStop
    <3> QED BY <3>1, CutOK DEF WindowsOK
  <2>2. UNCHANGED budget \/ Spend("delays")
    BY <1>7 DEF FinishStop
  <2>3. (\E ds : Terminate(ds)) /\ UNCHANGED path
    BY <1>7 DEF FinishStop
  <2> QED BY <2>1, <2>2, <2>3, WindowsKept, TerminateOK
<1>8. CASE WaitExit(t) \/ Siblings(t)
  BY <1>8, WindowsStutter, TerminateOK, AgentsStutter DEF WaitExit, Siblings
<1>9. CASE ResumeMarker(t)
  BY <1>9, WindowsStutter, AgentsStutter DEF ResumeMarker
<1>10. CASE ResumeDone(t)
  <2>1. window' \in [Windows -> WindowType] /\ \A v \in Windows : window'[v].gen = window[v].gen
    <3> DEFINE w == task[t].win
    <3>1. CASE UNCHANGED window
      BY <3>1 DEF WindowsOK
    <3>2. CASE window' = [window EXCEPT ![w].reconnect = TRUE]
      <4>1. window' = [window EXCEPT ![w] = [window[w] EXCEPT !.reconnect = TRUE]]
        BY <3>2
      <4>2. w \in Windows => window[w] \in WindowType
        BY DEF WindowsOK
      <4> HIDE DEF w
      <4> QED BY <4>1, <4>2, SocketOK, UpdateOK
    <3> QED BY <1>10, <3>1, <3>2 DEF ResumeDone
  <2> QED BY <1>10, <2>1, WindowsKept, AgentsStutter DEF ResumeDone
<1> QED
  BY <1>1, <1>2, <1>3, <1>4, <1>5, <1>6, <1>7, <1>8, <1>9, <1>10 DEF TaskStep

\* So do all others.
LEMMA NextServes == AgentsOK /\ WindowsOK /\ [Next]_vars => AgentsOK' /\ WindowsOK'
<1> SUFFICES ASSUME AgentsOK, WindowsOK, [Next]_vars PROVE AgentsOK' /\ WindowsOK'
  OBVIOUS
<1>1. ASSUME NEW t \in Tasks, NEW w \in Windows, Connect(t, w)
      PROVE  AgentsOK' /\ WindowsOK'
  <2>1. window' \in [Windows -> WindowType] /\ \A v \in Windows : window'[v].gen = window[v].gen
    <3>1. window' = [window EXCEPT ![w] = [window[w] EXCEPT !.reconnect = TRUE]] /\ window[w] \in WindowType
      BY <1>1 DEF Connect, WindowsOK
    <3> QED BY <3>1, SocketOK, UpdateOK
  <2> QED BY <1>1, <2>1, WindowsKept, AgentsStutter DEF Connect
<1>2. ASSUME NEW t \in Tasks, NEW w \in Windows, BeginStart(t, w)
      PROVE  AgentsOK' /\ WindowsOK'
  <2>1. CASE Suspended
    <3>1. window' = [window EXCEPT ![w] = Quiet(Cut(w))]
      BY <1>2, <2>1 DEF BeginStart
    <3> QED BY <1>2, <3>1, CommandOK, AgentsStutter DEF BeginStart
  <2>2. CASE ~Suspended
    <3>1. window' = [window EXCEPT ![w] = window[w]]
      BY <1>2, <2>2 DEF BeginStart, WindowsOK
    <3> QED BY <1>2, <3>1, CommandOK, AgentsStutter DEF BeginStart
  <2> QED BY <2>1, <2>2
<1>3. ASSUME NEW t \in Tasks, NEW w \in Windows,
             BeginStop(t, w) \/ BeginRestart(t, w) \/ BeginAutomaticRestart(t, w)
      PROVE  AgentsOK' /\ WindowsOK'
  BY <1>3, StoppingOK DEF BeginStop, BeginRestart, BeginAutomaticRestart
<1>4. ASSUME NEW w \in Windows, StatusLoaded(w)
      PROVE  AgentsOK' /\ WindowsOK'
  <2>1. window' \in [Windows -> WindowType] /\ \A v \in Windows : window'[v].gen = window[v].gen
    BY <1>4 DEF StatusLoaded, WindowsOK, WindowType
  <2> QED BY <1>4, <2>1, WindowsKept, AgentsStutter DEF StatusLoaded
<1>5. ASSUME NEW w \in Windows, SocketCloses(w)
      PROVE  AgentsOK' /\ WindowsOK'
  <2>1. window' \in [Windows -> WindowType] /\ \A v \in Windows : window'[v].gen = window[v].gen
    <3> DEFINE b == ~Suspended /\ window[w].reconnect
               cut == [window[w] EXCEPT !.socket = None]
    <3>1. window' = [window EXCEPT ![w] = [cut EXCEPT !.timer = b]] /\ window[w] \in WindowType
      BY <1>5 DEF SocketCloses, WindowsOK
    <3>2. b \in BOOLEAN
      OBVIOUS
    <3>3. cut \in WindowType /\ cut.gen = window[w].gen
      BY <3>1, SocketOK
    <3> HIDE DEF b, cut
    <3>4. [cut EXCEPT !.timer = b] \in WindowType /\ [cut EXCEPT !.timer = b].gen = cut.gen
      BY <3>2, <3>3, SocketOK
    <3> DEFINE win == [cut EXCEPT !.timer = b]
    <3>5. win \in WindowType /\ win.gen = window[w].gen
      BY <3>3, <3>4
    <3> HIDE DEF win
    <3> QED BY <3>1, <3>5, UpdateOK DEF win
  <2> QED BY <1>5, <2>1, WindowsKept, AgentsStutter DEF SocketCloses
<1>6. ASSUME NEW w \in Windows, EventReconnect(w)
      PROVE  AgentsOK' /\ WindowsOK'
  <2>1. window' \in [Windows -> WindowType] /\ \A v \in Windows : window'[v].gen = window[v].gen
    <3> DEFINE d == IF window[w].socket = None /\ Reachable /\ ~Suspended THEN path ELSE window[w].socket
               b == window[w].socket = None /\ ~Reachable /\ ~Suspended
               joined == [window[w] EXCEPT !.socket = d]
    <3>1. window' = [window EXCEPT ![w] = [joined EXCEPT !.timer = b]] /\ window[w] \in WindowType
      BY <1>6 DEF EventReconnect, WindowsOK
    <3>2. b \in BOOLEAN
      OBVIOUS
    <3>3. d \in Daemons \cup {None}
      BY <3>1 DEF AgentsOK, WindowType
    <3> HIDE DEF b, d
    <3>4. joined \in WindowType /\ joined.gen = window[w].gen
      BY <3>1, <3>3, SocketOK
    <3> HIDE DEF joined
    <3>5. [joined EXCEPT !.timer = b] \in WindowType /\ [joined EXCEPT !.timer = b].gen = joined.gen
      BY <3>2, <3>4, SocketOK
    <3> DEFINE win == [joined EXCEPT !.timer = b]
    <3>6. win \in WindowType /\ win.gen = window[w].gen
      BY <3>4, <3>5
    <3> HIDE DEF win
    <3> QED BY <3>1, <3>6, UpdateOK DEF win
  <2> QED BY <1>6, <2>1, WindowsKept, AgentsStutter DEF EventReconnect
<1>7. ASSUME NEW w \in Windows, WindowCloses(w)
      PROVE  AgentsOK' /\ WindowsOK'
  <2> DEFINE win == [Cut(w) EXCEPT !.open = FALSE, !.timer = FALSE]
  <2>1. win \in WindowType /\ win.gen = window[w].gen
    BY CutOK DEF WindowType
  <2>2. window' = [window EXCEPT ![w] = win]
    BY <1>7 DEF WindowCloses
  <2> HIDE DEF win
  <2>3. window' \in [Windows -> WindowType] /\ \A v \in Windows : window'[v].gen = window[v].gen
    BY <2>1, <2>2 DEF WindowsOK
  <2> QED BY <1>7, <2>3, WindowsKept, AgentsStutter DEF WindowCloses
<1>8. ASSUME NEW d \in Daemons, AgentStep(d) \/ AgentCrashes(d)
      PROVE  AgentsOK' /\ WindowsOK'
  <2>1. WindowsOK'
    BY <1>8, WindowsStutter DEF AgentStep, Binds, Listens, Closes, Exits, Killed, AgentCrashes
  <2>2. Running(d) /\ path' \in Daemons \cup {None}
    BY <1>8 DEF AgentStep, Binds, Listens, Closes, Exits, Killed, AgentCrashes, Running, AgentsOK
  <2>3. \E s \in {"bound", "up", "closed", "dead"} : agent' = [agent EXCEPT ![d].state = s]
    BY <1>8 DEF AgentStep, Binds, Listens, Closes, Exits, Killed, AgentCrashes
  <2> QED BY <2>1, <2>2, <2>3, StateStepOK
<1>9. CASE LockAges
  BY <1>9, WindowsStutter, AgentsStutter DEF LockAges
<1>10. CASE UNCHANGED vars
  BY <1>10, WindowsStutter, AgentsStutter DEF vars
<1> QED
  BY <1>1, <1>2, <1>3, <1>4, <1>5, <1>6, <1>7, <1>8, <1>9, <1>10, TaskStepServes DEF Next

\* "Multiple VS Code windows ... all connect to the same OS-user socket": whatever happens
\* to the startup lock, of all daemon processes that run at most one has not been told to
\* stop, for any number of windows, calls and daemons.
THEOREM OneServes == Spec => []OneDaemonServes
<1>1. IInv /\ AgentsOK /\ WindowsOK => OneDaemonServes
  BY DEF IInv, AgentsOK, WindowsOK, AgentType, WindowType, GenerationsBounded, OneDaemonServes, TypeOK
<1>2. Spec => []IInv
  BY LifecycleImplementsIntent, Invariance, PTL DEF ImplementsIntent
<1> QED BY <1>1, <1>2, InitServes, NextServes, PTL DEF Spec
=============================================================================
