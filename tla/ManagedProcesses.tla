-------------------------- MODULE ManagedProcesses --------------------------
(***************************************************************************)
(* The processes the agent launches itself: the requests startManaged-      *)
(* Process, stopProcess, restartProcess and removeProcess of                *)
(* src/agent/port-manager-agent.ts, the rows of core/process-registry.ts     *)
(* and the children of platform/process/node-process-launcher.ts.           *)
(*                                                                          *)
(* A request runs in routeOperationQueue, one at a time and in order;       *)
(* restartProcess ends the old process before it enters the queue.  A child *)
(* that got a signal ends when it likes, and its exit is noticed later,     *)
(* outside the queue.                                                       *)
(***************************************************************************)
EXTENDS Naturals, Sequences, FiniteSets

CONSTANTS ActualPorts   \* the ports the routing service can give

VARIABLES
  processes,    \* ManagedProcessRegistry.processesById: id -> row
  profiles,     \* launchProfilesByProcessId: the ids with a launch profile
  children,     \* every process launched: its row, its state, whether signalled
  routeQueue,   \* routeOperationQueue; the head is running
  chosen,       \* the port the running request has decided on, 0 before
  doubtful,     \* rows removed, or restarted by two requests at a time
  requests      \* the requests that may still come, spawn and kill failures left
managedVars == <<processes, profiles, children, routeQueue, chosen, doubtful, requests>>

Ids == DOMAIN processes
Pids == DOMAIN children
Running(ps) == {i \in DOMAIN ps : ps[i].status = "running"}

\* childrenByPid: a child leaves when its exit event is delivered.
childrenByPid == {p \in Pids : children[p].state # "gone"}

-----------------------------------------------------------------------------
(* core/process-registry.ts                                                 *)

\* register, with an id of generatedIdSequence, never used before
registerRow(ps, id, pid, port) ==
  [i \in DOMAIN ps \cup {id} |->
     IF i = id THEN [pid |-> pid, actual |-> port, status |-> "running"] ELSE ps[i]]

UpdateButPid(ps, id, pid, port) ==
  [ps EXCEPT ![id] = [@ EXCEPT !.actual = port, !.status = "running"]]

\* update, as a restart uses it; it throws for an id that is not registered
updateRow(ps, id, pid, port) ==
  [ps EXCEPT ![id] = [pid |-> pid, actual |-> port, status |-> "running"]]

\* stop
stopRow(ps, id) == [ps EXCEPT ![id].status = "stopped"]

\* remove: nothing for an id that is not registered
removeRow(ps, id) == [i \in DOMAIN ps \ {id} |-> ps[i]]

\* isActualPortReserved, for the rows: a port that only a listener holds may or
\* may not be seen by the scan and the probe.
Reserved(ps) == {ps[i].actual : i \in Running(ps)}

-----------------------------------------------------------------------------
(* platform/process/node-process-launcher.ts                                *)

\* launch, after the child reported that it spawned
launch(id) ==
  Append(children, [row |-> id, state |-> "alive", signalled |-> FALSE])
NewPid == Len(children) + 1

\* stop: the signal goes to a known child only
Signalled(pid) ==
  IF pid \in childrenByPid THEN [children EXCEPT ![pid].signalled = TRUE] ELSE children

\* The child ends, because of a signal or by itself.
Dies(p) ==
  /\ children[p].state = "alive"
  /\ children' = [children EXCEPT ![p].state = "dead"]
  /\ UNCHANGED <<processes, profiles, routeQueue, chosen, doubtful, requests>>

ExitOfAnyone(p) ==
  /\ children[p].state = "dead"
  /\ children' = [children EXCEPT ![p].state = "gone"]
  /\ processes' = IF children[p].row \in Ids THEN stopRow(processes, children[p].row)
                  ELSE processes
  /\ UNCHANGED <<profiles, routeQueue, chosen, doubtful, requests>>

\* attachLifecycleHandlers, with markExitedProcessStopped of the agent, which
\* looks for the row by its pid
markExitedProcessStopped(p) ==
  /\ children[p].state = "dead"
  /\ children' = [children EXCEPT ![p].state = "gone"]
  /\ processes' =
       LET rows == {i \in Running(processes) : processes[i].pid = p}
       IN  [i \in Ids |-> IF i \in rows THEN stopRow(processes, i)[i] ELSE processes[i]]
  /\ UNCHANGED <<profiles, routeQueue, chosen, doubtful, requests>>

-----------------------------------------------------------------------------
(* The requests                                                             *)

Kinds == {"start", "stop", "restart", "remove"}
Arrives(kind) ==
  /\ kind \in requests.kinds /\ requests.left > 0
  /\ requests' = [requests EXCEPT !.left = @ - 1]

\* runExclusiveRouteOperation: the operation waits for the ones before it
Enqueue(kind, id) == routeQueue' = Append(routeQueue, [kind |-> kind, id |-> id])

\* startManagedProcess, stopProcess and removeProcess reach the queue at once.
Requested(kind) ==
  /\ kind # "restart" /\ Arrives(kind)
  /\ IF kind = "start" THEN Enqueue(kind, 0) ELSE \E i \in Ids : Enqueue(kind, i)
  /\ UNCHANGED <<processes, profiles, children, chosen, doubtful>>

Restarting(id) == \E k \in DOMAIN routeQueue : routeQueue[k] = [kind |-> "restart", id |-> id]

\* restartProcess, up to the queue.  A failed signal ends the request.
restartProcess(id) ==
  /\ id \in Ids /\ id \in profiles /\ Arrives("restart")
  /\ IF processes[id].status = "stopped" THEN UNCHANGED <<children, processes>>
     ELSE children' = Signalled(processes[id].pid) /\ processes' = stopRow(processes, id)
  /\ doubtful' = IF Restarting(id) THEN doubtful \cup {id} ELSE doubtful
  /\ Enqueue("restart", id)
  /\ UNCHANGED <<profiles, chosen>>

\* The signal of restartProcess cannot be delivered: the error is the answer.
restartFails(id) ==
  /\ id \in Running(processes) /\ processes[id].pid \in childrenByPid
  /\ requests.failures > 0 /\ Arrives("restart")
  /\ UNCHANGED <<processes, profiles, children, routeQueue, chosen, doubtful>>

Head1 == routeQueue[1]
RunsNow(kind) == routeQueue # <<>> /\ Head1.kind = kind
RequestEnds == routeQueue' = Tail(routeQueue) /\ chosen' = 0

\* refreshReservedListeningPorts and routingService.route, then the launch is
\* awaited.
Route ==
  /\ RunsNow("start") \/ RunsNow("restart")
  /\ chosen = 0
  /\ chosen' \in ActualPorts \ Reserved(processes)
  /\ UNCHANGED <<processes, profiles, children, routeQueue, doubtful, requests>>

\* No port is left, or the child does not spawn: the request is answered with an
\* error, and a restarted row stays stopped.
RouteOrLaunchFails ==
  /\ RunsNow("start") \/ RunsNow("restart")
  /\ \/ chosen = 0 /\ ActualPorts \subseteq Reserved(processes) /\ UNCHANGED requests
     \/ chosen # 0 /\ requests.failures > 0
        /\ requests' = [requests EXCEPT !.failures = @ - 1]
  /\ RequestEnds
  /\ UNCHANGED <<processes, profiles, children, doubtful>>

\* startManagedProcessExclusive, once the child is spawned
startManagedProcessExclusive ==
  /\ RunsNow("start") /\ chosen # 0
  /\ LET id == requests.lastId + 1
     IN  /\ children' = launch(id)
         /\ processes' = registerRow(processes, id, NewPid, chosen)
         /\ profiles' = profiles \cup {id}
         /\ requests' = [requests EXCEPT !.lastId = id]
  /\ RequestEnds /\ UNCHANGED doubtful

\* restartProcess, once the child is spawned.  The row may be gone: then update
\* throws, after the profile was stored.
RestartLaunched ==
  /\ RunsNow("restart") /\ chosen # 0
  /\ LET id == Head1.id
     IN  /\ children' = launch(id)
         /\ profiles' = profiles \cup {id}
         /\ processes' = IF id \in Ids THEN updateRow(processes, id, NewPid, chosen)
                         ELSE processes
  /\ RequestEnds /\ UNCHANGED <<doubtful, requests>>

\* stopProcessExclusive; a row that is gone or a signal that cannot be delivered
\* ends the request.
stopProcessExclusive ==
  /\ RunsNow("stop")
  /\ LET id == Head1.id
         known == id \in Ids
     IN  \/ /\ known
            /\ children' = IF processes[id].status = "stopped" THEN children
                           ELSE Signalled(processes[id].pid)
            /\ processes' = stopRow(processes, id)
            /\ UNCHANGED requests
         \/ /\ known => (requests.failures > 0 /\ id \in Running(processes)
                           /\ processes[id].pid \in childrenByPid)
            /\ requests' = IF known THEN [requests EXCEPT !.failures = @ - 1] ELSE requests
            /\ UNCHANGED <<children, processes>>
  /\ RequestEnds /\ UNCHANGED <<profiles, doubtful>>

\* removeProcessExclusive: a child of the row is left to itself.
removeProcessExclusive ==
  /\ RunsNow("remove")
  /\ processes' = removeRow(processes, Head1.id)
  /\ profiles' = profiles \ {Head1.id}
  /\ doubtful' = doubtful \cup {Head1.id}
  /\ RequestEnds /\ UNCHANGED <<children, requests>>

ManagedNext ==
  \/ \E kind \in Kinds : Requested(kind)
  \/ \E id \in Ids : restartProcess(id) \/ restartFails(id)
  \/ Route \/ RouteOrLaunchFails
  \/ startManagedProcessExclusive \/ RestartLaunched
  \/ stopProcessExclusive \/ removeProcessExclusive
  \/ \E p \in Pids : Dies(p) \/ markExitedProcessStopped(p)

\* The requests a client may send are given by a scene.
ManagedInit(scene) ==
  /\ processes = <<>> /\ profiles = {} /\ children = <<>>
  /\ routeQueue = <<>> /\ chosen = 0 /\ doubtful = {}
  /\ requests = [kinds |-> scene.kinds, left |-> scene.left,
                 failures |-> scene.failures, lastId |-> 0]

-----------------------------------------------------------------------------
(* Properties                                                               *)

\* Rows, children and requests have their types.  Only a request that runs holds
\* a decision, and a row without a profile was registered by nobody here.
ManagedTypeOK ==
  /\ \A i \in Ids : processes[i].status \in {"running", "stopped"}
                    /\ processes[i].pid \in Pids /\ processes[i].actual \in ActualPorts
  /\ \A p \in Pids : children[p].state \in {"alive", "dead", "gone"}
  /\ chosen # 0 => RunsNow("start") \/ RunsNow("restart")
  /\ Ids \subseteq profiles /\ Ids \subseteq 1..requests.lastId

\* A row says "running" only while the launcher still has the child of its pid:
\* the exit of the child that was replaced does not touch the new one's row, and
\* the exit of the child the row stands for is never missed
\* (markExitedProcessStopped).
RunningRowHasChild ==
  \A i \in Running(processes) :
    processes[i].pid \in childrenByPid /\ children[processes[i].pid].row = i

\* A child that lives and got no signal is the child of a running row, so that it
\* can be stopped from the view; except a child of a row that was removed, or
\* that two requests restarted at a time (each of them launches a child, and the
\* row keeps the last).
ChildrenAreTracked ==
  \A p \in Pids :
    children[p].state = "alive" /\ ~children[p].signalled /\ children[p].row \notin doubtful
      => children[p].row \in Running(processes) /\ processes[children[p].row].pid = p

\* Two running rows never have the same actual port, although a restart gives up
\* the port of its row before it enters the queue (routeOperationQueue).
RunningRowsDiffer ==
  \A i, j \in Running(processes) : processes[i].actual = processes[j].actual => i = j

\* What the view shows and what runs agree, whatever the order of exits, restarts and
\* removals: rows have their children, children their rows, and no port is used twice.
RowsMatchChildren == ManagedTypeOK /\ RunningRowHasChild /\ ChildrenAreTracked /\ RunningRowsDiffer
=============================================================================
