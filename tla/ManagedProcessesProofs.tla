------------------------ MODULE ManagedProcessesProofs ------------------------
(***************************************************************************)
(* The rows of the managed processes and the children agree, for any number *)
(* of requests, processes and ports, in whatever order exits are noticed.   *)
(*                                                                          *)
(* RowsMatchChildren is not inductive.  A restart ends its row's child       *)
(* before it enters routeOperationQueue, so the row of a queued restart must *)
(* be stopped until it runs (RestartsOK); and the port a request decided on  *)
(* must still be free when its child is there (ChosenIsFree).               *)
(***************************************************************************)
EXTENDS ManagedProcesses, TLAPS

Row == [pid : Nat, actual : ActualPorts, status : {"running", "stopped"}]
Child == [row : Nat, state : {"alive", "dead", "gone"}, signalled : BOOLEAN]
Request == [kind : Kinds, id : Nat]

ManagedTyped ==
  /\ processes \in [Ids -> Row] /\ Ids \subseteq 1..requests.lastId /\ Ids \subseteq profiles
  /\ \A i \in Ids : processes[i].pid \in Pids
  /\ children \in Seq(Child) /\ \A p \in Pids : children[p].row \in 1..requests.lastId
  /\ routeQueue \in Seq(Request)
  /\ requests \in [kinds : SUBSET Kinds, left : Nat, failures : Nat, lastId : Nat]

ChosenIsFree ==
  chosen # 0 => /\ chosen \in ActualPorts \ Reserved(processes)
                /\ RunsNow("start") \/ RunsNow("restart")

\* A restart that waits: its row is known and stopped, and it is the only one.
RestartsOK ==
  \A k \in DOMAIN routeQueue :
    LET id == routeQueue[k].id
    IN  routeQueue[k].kind = "restart" =>
          /\ id \in 1..requests.lastId
          /\ id \notin doubtful =>
               /\ id \in Ids /\ processes[id].status = "stopped"
               /\ \A j \in DOMAIN routeQueue :
                    routeQueue[j].kind = "restart" /\ routeQueue[j].id = id => j = k

ManagedInv ==
  /\ ManagedTyped /\ ChosenIsFree /\ RestartsOK
  /\ RunningRowHasChild /\ ChildrenAreTracked /\ RunningRowsDiffer

-----------------------------------------------------------------------------
(* Queues and children.                                                     *)

LEMMA TailElements ==
  ASSUME NEW S, NEW s \in Seq(S), s # <<>>
  PROVE  /\ Tail(s) \in Seq(S) /\ DOMAIN Tail(s) = 1..(Len(s) - 1)
         /\ \A k \in DOMAIN Tail(s) : k + 1 \in DOMAIN s /\ Tail(s)[k] = s[k + 1]
OBVIOUS

LEMMA AppendElements ==
  ASSUME NEW S, NEW s \in Seq(S), NEW e \in S
  PROVE  /\ Append(s, e) \in Seq(S) /\ DOMAIN Append(s, e) = DOMAIN s \cup {Len(s) + 1}
         /\ Len(s) + 1 \notin DOMAIN s
         /\ \A k \in DOMAIN s : Append(s, e)[k] = s[k]
         /\ Append(s, e)[Len(s) + 1] = e
OBVIOUS

\* The head leaves: the restarts that wait are those that waited behind it.
LEMMA RequestEndsOK ==
  ASSUME ManagedTyped, RestartsOK, routeQueue # <<>>, RequestEnds,
         requests'.lastId \in Nat, requests.lastId <= requests'.lastId, doubtful \subseteq doubtful',
         \A id \in Ids : /\ id \notin doubtful' /\ processes[id].status = "stopped"
                         /\ ~(Head1.kind = "restart" /\ Head1.id = id)
                         => id \in Ids' /\ processes'[id].status = "stopped"
  PROVE  RestartsOK' /\ routeQueue' \in Seq(Request)
<1>1. /\ routeQueue' = Tail(routeQueue) /\ routeQueue' \in Seq(Request)
      /\ \A k \in DOMAIN routeQueue' : /\ k \in Nat /\ k + 1 \in DOMAIN routeQueue /\ k + 1 # 1
                                       /\ routeQueue'[k] = routeQueue[k + 1]
      /\ 1 \in DOMAIN routeQueue /\ Head1 = routeQueue[1]
  BY TailElements DEF ManagedTyped, RequestEnds, Head1
<1>2. ASSUME NEW k \in DOMAIN routeQueue', routeQueue'[k].kind = "restart", NEW id, id = routeQueue'[k].id
      PROVE  /\ id \in 1..requests'.lastId
             /\ id \notin doubtful' =>
                  /\ id \in Ids' /\ processes'[id].status = "stopped"
                  /\ \A j \in DOMAIN routeQueue' :
                       routeQueue'[j].kind = "restart" /\ routeQueue'[j].id = id => j = k
  <2>1. /\ id \in 1..requests.lastId
        /\ id \notin doubtful =>
             /\ id \in Ids /\ processes[id].status = "stopped"
             /\ \A j \in DOMAIN routeQueue :
                  routeQueue[j].kind = "restart" /\ routeQueue[j].id = id => j = k + 1
    BY <1>1, <1>2 DEF RestartsOK
  <2>2. id \in 1..requests'.lastId
    BY <2>1 DEF ManagedTyped
  <2>3. ASSUME id \notin doubtful'
        PROVE  id \in Ids' /\ processes'[id].status = "stopped"
    BY <1>1, <2>1, <2>3
  <2>4. ASSUME id \notin doubtful', NEW j \in DOMAIN routeQueue', routeQueue'[j].kind = "restart",
               routeQueue'[j].id = id
        PROVE  j = k
    <3>1. j + 1 = k + 1
      BY <1>1, <2>1, <2>4
    <3> QED BY <1>1, <3>1
  <2> QED BY <2>2, <2>3, <2>4
<1>3. RestartsOK'
  BY <1>2 DEF RestartsOK
<1> QED BY <1>1, <1>3

LEMMA ChildTyped ==
  ASSUME children \in Seq(Child), NEW p \in Pids
  PROVE  children[p] \in Child
<1>1. DOMAIN children = 1..Len(children)
  OBVIOUS
<1> QED BY <1>1 DEF Pids

\* A signal, an end and a noticed exit change one child.
LEMMA ChildChanges ==
  ASSUME children \in Seq(Child), NEW p \in Pids, NEW c \in Child,
         children' = [children EXCEPT ![p] = c]
  PROVE  /\ children' \in Seq(Child) /\ Pids' = Pids /\ children'[p] = c
         /\ \A q \in Pids : q # p => children'[q] = children[q]
BY DEF Pids

\* stop sends the signal to the child of the row, if it is still known.
LEMMA SignalledOK ==
  ASSUME children \in Seq(Child), NEW pid, children' = Signalled(pid)
  PROVE  /\ children' \in Seq(Child) /\ Pids' = Pids
         /\ \A q \in Pids : /\ children'[q].row = children[q].row
                            /\ children'[q].state = children[q].state
                            /\ q # pid => children'[q] = children[q]
         /\ pid \in childrenByPid => children'[pid].signalled = TRUE
<1>1. CASE pid \in childrenByPid
  <2> DEFINE c == [children[pid] EXCEPT !.signalled = TRUE]
  <2>1. pid \in Pids /\ children[pid] \in Child
    BY <1>1 DEF childrenByPid, Pids
  <2>2. c \in Child /\ c.row = children[pid].row /\ c.state = children[pid].state /\ c.signalled = TRUE
    BY <2>1 DEF Child
  <2>3. children' = [children EXCEPT ![pid] = c]
    BY <1>1 DEF Signalled
  <2> HIDE DEF c
  <2>4. /\ children' \in Seq(Child) /\ Pids' = Pids /\ children'[pid] = c
        /\ \A q \in Pids : q # pid => children'[q] = children[q]
    BY <2>1, <2>2, <2>3, ChildChanges
  <2>5. ASSUME NEW q \in Pids
        PROVE  /\ children'[q].row = children[q].row /\ children'[q].state = children[q].state
               /\ q # pid => children'[q] = children[q]
    BY <2>2, <2>4
  <2> QED BY <2>2, <2>4, <2>5
<1>2. CASE pid \notin childrenByPid
  BY <1>2 DEF Signalled, Pids
<1> QED BY <1>1, <1>2

\* A row is stopped and nothing else happens to it.
LEMMA StopRowOK ==
  ASSUME processes \in [Ids -> Row], NEW id \in Ids, processes' = stopRow(processes, id)
  PROVE  /\ Ids' = Ids /\ processes' \in [Ids -> Row] /\ processes'[id].status = "stopped"
         /\ \A i \in Ids : /\ processes'[i].pid = processes[i].pid
                           /\ processes'[i].actual = processes[i].actual
                           /\ i # id => processes'[i] = processes[i]
<1> DEFINE row == [processes[id] EXCEPT !.status = "stopped"]
<1>1. row \in Row /\ row.status = "stopped" /\ row.pid = processes[id].pid /\ row.actual = processes[id].actual
  BY DEF Row
<1>2. processes' = [processes EXCEPT ![id] = row]
  BY DEF stopRow
<1> HIDE DEF row
<1> QED BY <1>1, <1>2 DEF Ids

\* A row is stopped after its child got a signal: what ran before and is not the row
\* goes on, and the child of the row is no longer one to be tracked.
LEMMA StopOK ==
  ASSUME ManagedTyped, RunningRowHasChild, ChildrenAreTracked, RunningRowsDiffer,
         NEW id \in Ids, doubtful \subseteq doubtful',
         children' = IF processes[id].status = "stopped" THEN children ELSE Signalled(processes[id].pid),
         processes' = stopRow(processes, id)
  PROVE  /\ processes' \in [Ids' -> Row] /\ Ids' = Ids /\ processes'[id].status = "stopped"
         /\ \A i \in Ids : i # id => processes'[i] = processes[i]
         /\ \A i \in Ids : processes'[i].pid = processes[i].pid
         /\ children' \in Seq(Child) /\ Pids' = Pids
         /\ \A p \in Pids : children'[p].row = children[p].row
         /\ Reserved(processes') \subseteq Reserved(processes)
         /\ RunningRowHasChild' /\ ChildrenAreTracked' /\ RunningRowsDiffer'
<1>1. /\ Ids' = Ids /\ processes' \in [Ids -> Row] /\ processes'[id].status = "stopped"
      /\ \A i \in Ids : /\ processes'[i].pid = processes[i].pid
                        /\ processes'[i].actual = processes[i].actual
                        /\ i # id => processes'[i] = processes[i]
  BY StopRowOK DEF ManagedTyped
<1>2. /\ children' \in Seq(Child) /\ Pids' = Pids
      /\ \A q \in Pids : /\ children'[q].row = children[q].row
                         /\ children'[q].state = children[q].state
                         /\ q # processes[id].pid => children'[q] = children[q]
  <2>1. CASE processes[id].status = "stopped"
    BY <2>1 DEF ManagedTyped, Pids
  <2>2. CASE processes[id].status # "stopped"
    <3> DEFINE pid == processes[id].pid
    <3>1. children' = Signalled(pid) /\ children \in Seq(Child)
      BY <2>2 DEF ManagedTyped
    <3> HIDE DEF pid
    <3>2. /\ children' \in Seq(Child) /\ Pids' = Pids
          /\ \A q \in Pids : /\ children'[q].row = children[q].row
                             /\ children'[q].state = children[q].state
                             /\ q # pid => children'[q] = children[q]
          /\ pid \in childrenByPid => children'[pid].signalled = TRUE
      BY <3>1, SignalledOK
    <3> QED BY <3>2 DEF pid
  <2> QED BY <2>1, <2>2
<1>3. Running(processes)' \subseteq Running(processes) \ {id}
  BY <1>1 DEF Running, Ids
<1>4. Reserved(processes') \subseteq Reserved(processes) /\ RunningRowsDiffer'
  BY <1>1, <1>3 DEF Reserved, Running, Ids, RunningRowsDiffer
<1>5. RunningRowHasChild'
  BY <1>1, <1>2, <1>3 DEF RunningRowHasChild, childrenByPid, Running, Ids
<1>6. ChildrenAreTracked'
  <2> SUFFICES ASSUME NEW p \in Pids, children'[p].state = "alive", ~children'[p].signalled,
                      children'[p].row \notin doubtful'
               PROVE  /\ children'[p].row \in Running(processes)'
                      /\ processes'[children'[p].row].pid = p
    BY <1>2 DEF ChildrenAreTracked
  <2>1. CASE p # processes[id].pid
    <3>1. children[p].row \in Running(processes) /\ processes[children[p].row].pid = p
      BY <1>2, <2>1 DEF ChildrenAreTracked
    <3>2. children[p].row # id
      BY <2>1, <3>1
    <3> QED BY <1>1, <1>2, <2>1, <3>1, <3>2 DEF Running, Ids
  <2>2. CASE p = processes[id].pid /\ processes[id].status = "running"
    <3>1. id \in Running(processes)
      BY <2>2 DEF Running, Ids
    <3>2. p \in childrenByPid
      BY <2>2, <3>1 DEF RunningRowHasChild
    <3>3. children'[p].signalled = TRUE
      BY <2>2, <3>2, SignalledOK DEF ManagedTyped
    <3> QED BY <3>3
  <2>3. CASE p = processes[id].pid /\ processes[id].status = "stopped"
    <3>1. children' = children
      BY <2>3
    <3>2. children[p].row \in Running(processes) /\ processes[children[p].row].pid = p
      BY <3>1 DEF ChildrenAreTracked
    <3>3. children[p].row # id
      BY <2>3, <3>2 DEF Running
    <3> QED BY <1>1, <3>1, <3>2, <3>3 DEF Running, Ids
  <2>4. processes[id].status \in {"running", "stopped"}
    BY DEF ManagedTyped, Row
  <2> QED BY <2>1, <2>2, <2>3, <2>4
<1> QED BY <1>1, <1>2, <1>4, <1>5, <1>6

-----------------------------------------------------------------------------
(* The requests.                                                            *)

\* A request enters the queue; the one that runs stays the head.
LEMMA EnqueueOK ==
  ASSUME routeQueue \in Seq(Request), NEW kind \in Kinds, NEW id \in Nat, Enqueue(kind, id)
  PROVE  LET r == [kind |-> kind, id |-> id] IN
         /\ routeQueue' \in Seq(Request) /\ DOMAIN routeQueue' = DOMAIN routeQueue \cup {Len(routeQueue) + 1}
         /\ Len(routeQueue) + 1 \notin DOMAIN routeQueue
         /\ \A k \in DOMAIN routeQueue : routeQueue'[k] = routeQueue[k]
         /\ routeQueue'[Len(routeQueue) + 1].kind = kind /\ routeQueue'[Len(routeQueue) + 1].id = id
         /\ \A what : RunsNow(what) => RunsNow(what)'
<1> DEFINE r == [kind |-> kind, id |-> id]
<1>1. r \in Request /\ r.kind = kind /\ r.id = id
  BY DEF Request
<1>2. routeQueue' = Append(routeQueue, r)
  BY DEF Enqueue
<1> HIDE DEF r
<1>3. \A what : RunsNow(what) => RunsNow(what)'
  BY <1>1, <1>2, AppendElements DEF RunsNow, Head1
<1> QED BY <1>1, <1>2, <1>3, AppendElements

LEMMA ArrivesOK ==
  ASSUME ManagedTyped, NEW kind, Arrives(kind)
  PROVE  /\ requests' \in [kinds : SUBSET Kinds, left : Nat, failures : Nat, lastId : Nat]
         /\ requests'.lastId = requests.lastId
<1>1. /\ requests \in [kinds : SUBSET Kinds, left : Nat, failures : Nat, lastId : Nat] /\ requests.left > 0
      /\ requests' = [requests EXCEPT !.left = requests.left - 1]
  BY DEF ManagedTyped, Arrives
<1>2. requests.left - 1 \in Nat
  BY <1>1
<1> QED BY <1>1, <1>2

LEMMA RequestedOK ==
  ASSUME ManagedInv, NEW kind \in Kinds, Requested(kind)
  PROVE  ManagedInv'
<1>1. UNCHANGED <<processes, profiles, children, chosen, doubtful>> /\ kind # "restart"
  BY DEF Requested
<1>2. /\ requests' \in [kinds : SUBSET Kinds, left : Nat, failures : Nat, lastId : Nat]
      /\ requests'.lastId = requests.lastId
  BY ArrivesOK DEF ManagedInv, Requested
<1>3. PICK id \in Nat : Enqueue(kind, id)
  BY DEF Requested, ManagedInv, ManagedTyped
<1>4. /\ routeQueue' \in Seq(Request) /\ DOMAIN routeQueue' = DOMAIN routeQueue \cup {Len(routeQueue) + 1}
      /\ \A k \in DOMAIN routeQueue : routeQueue'[k] = routeQueue[k]
      /\ routeQueue'[Len(routeQueue) + 1].kind = kind
      /\ \A what : RunsNow(what) => RunsNow(what)'
  BY <1>3, EnqueueOK DEF ManagedInv, ManagedTyped
<1>5. ManagedTyped'
  BY <1>1, <1>2, <1>4 DEF ManagedInv, ManagedTyped, Ids, Pids
<1>6. ChosenIsFree'
  BY <1>1, <1>4 DEF ManagedInv, ChosenIsFree, Reserved, Running
<1>7. RestartsOK'
  BY <1>1, <1>2, <1>4 DEF ManagedInv, RestartsOK, Ids
<1>8. RunningRowHasChild' /\ ChildrenAreTracked' /\ RunningRowsDiffer'
  BY <1>1 DEF ManagedInv, RunningRowHasChild, ChildrenAreTracked, RunningRowsDiffer, Running, childrenByPid, Pids
<1> QED BY <1>5, <1>6, <1>7, <1>8 DEF ManagedInv

\* restartProcess stops its row before it waits for its turn.
LEMMA RestartProcessOK ==
  ASSUME ManagedInv, NEW id \in Ids, restartProcess(id)
  PROVE  ManagedInv'
<1>1. /\ requests' \in [kinds : SUBSET Kinds, left : Nat, failures : Nat, lastId : Nat]
      /\ requests'.lastId = requests.lastId
  BY ArrivesOK DEF ManagedInv, restartProcess
<1>2. id \in Nat /\ id \in 1..requests.lastId /\ processes[id] \in Row /\ "restart" \in Kinds
  BY DEF ManagedInv, ManagedTyped, Kinds
<1>3. /\ routeQueue' \in Seq(Request) /\ DOMAIN routeQueue' = DOMAIN routeQueue \cup {Len(routeQueue) + 1}
      /\ Len(routeQueue) + 1 \notin DOMAIN routeQueue
      /\ \A k \in DOMAIN routeQueue : routeQueue'[k] = routeQueue[k]
      /\ routeQueue'[Len(routeQueue) + 1].kind = "restart" /\ routeQueue'[Len(routeQueue) + 1].id = id
      /\ \A what : RunsNow(what) => RunsNow(what)'
  BY <1>2, EnqueueOK DEF ManagedInv, ManagedTyped, restartProcess
<1>4. doubtful' = (IF Restarting(id) THEN doubtful \cup {id} ELSE doubtful) /\ UNCHANGED <<profiles, chosen>>
  BY DEF restartProcess
<1>5. /\ children' = IF processes[id].status = "stopped" THEN children ELSE Signalled(processes[id].pid)
      /\ processes' = stopRow(processes, id)
  <2>1. CASE processes[id].status = "stopped"
    <3>1. [processes[id] EXCEPT !.status = "stopped"] = processes[id]
      BY <1>2, <2>1 DEF Row
    <3>2. stopRow(processes, id) = processes
      BY <3>1 DEF stopRow, ManagedInv, ManagedTyped
    <3> QED BY <2>1, <3>2 DEF restartProcess
  <2>2. CASE processes[id].status # "stopped"
    BY <2>2 DEF restartProcess
  <2> QED BY <2>1, <2>2
<1>6. /\ processes' \in [Ids' -> Row] /\ Ids' = Ids /\ processes'[id].status = "stopped"
      /\ \A i \in Ids : i # id => processes'[i] = processes[i]
      /\ \A i \in Ids : processes'[i].pid = processes[i].pid
      /\ children' \in Seq(Child) /\ Pids' = Pids
      /\ \A p \in Pids : children'[p].row = children[p].row
      /\ Reserved(processes') \subseteq Reserved(processes)
      /\ RunningRowHasChild' /\ ChildrenAreTracked' /\ RunningRowsDiffer'
  BY <1>4, <1>5, StopOK DEF ManagedInv
<1>7. ManagedTyped'
  BY <1>1, <1>3, <1>4, <1>6 DEF ManagedInv, ManagedTyped
<1>8. ChosenIsFree'
  BY <1>3, <1>4, <1>6 DEF ManagedInv, ChosenIsFree
<1>9. RestartsOK'
  <2>1. ASSUME NEW k \in DOMAIN routeQueue, routeQueue[k].kind = "restart", routeQueue[k].id = id
        PROVE  Restarting(id)
    <3>1. routeQueue[k] \in Request
      BY DEF ManagedInv, ManagedTyped
    <3>2. routeQueue[k] = [kind |-> "restart", id |-> id]
      BY <2>1, <3>1 DEF Request
    <3> QED BY <3>2 DEF Restarting
  <2> SUFFICES ASSUME NEW k \in DOMAIN routeQueue', routeQueue'[k].kind = "restart",
                      NEW i, i = routeQueue'[k].id
               PROVE  /\ i \in 1..requests'.lastId
                      /\ i \notin doubtful' =>
                           /\ i \in Ids' /\ processes'[i].status = "stopped"
                           /\ \A j \in DOMAIN routeQueue' :
                                routeQueue'[j].kind = "restart" /\ routeQueue'[j].id = i => j = k
    BY DEF RestartsOK
  <2>2. CASE k = Len(routeQueue) + 1
    BY <1>1, <1>2, <1>3, <1>4, <1>6, <2>1, <2>2
  <2>3. CASE k \in DOMAIN routeQueue
    <3>1. /\ i \in 1..requests.lastId
          /\ i \notin doubtful =>
               /\ i \in Ids /\ processes[i].status = "stopped"
               /\ \A j \in DOMAIN routeQueue :
                    routeQueue[j].kind = "restart" /\ routeQueue[j].id = i => j = k
      BY <1>3, <2>3 DEF ManagedInv, RestartsOK
    <3>2. i \notin doubtful' => i \notin doubtful /\ i # id
      BY <1>3, <1>4, <2>1, <2>3
    <3> QED BY <1>1, <1>3, <1>6, <3>1, <3>2
  <2> QED BY <1>3, <2>2, <2>3
<1> QED BY <1>6, <1>7, <1>8, <1>9 DEF ManagedInv

LEMMA RestartFailsOK ==
  ASSUME ManagedInv, NEW id \in Ids, restartFails(id)
  PROVE  ManagedInv'
<1>1. UNCHANGED <<processes, profiles, children, routeQueue, chosen, doubtful>>
  BY DEF restartFails
<1>2. /\ requests' \in [kinds : SUBSET Kinds, left : Nat, failures : Nat, lastId : Nat]
      /\ requests'.lastId = requests.lastId
  BY ArrivesOK DEF ManagedInv, restartFails
<1>3. ManagedTyped' /\ ChosenIsFree' /\ RestartsOK'
  BY <1>1, <1>2 DEF ManagedInv, ManagedTyped, ChosenIsFree, RestartsOK, Ids, Pids, Reserved, Running, RunsNow, Head1
<1>4. RunningRowHasChild' /\ ChildrenAreTracked' /\ RunningRowsDiffer'
  BY <1>1 DEF ManagedInv, RunningRowHasChild, ChildrenAreTracked, RunningRowsDiffer, Running, childrenByPid, Pids
<1> QED BY <1>3, <1>4 DEF ManagedInv

LEMMA RouteOK ==
  ASSUME ManagedInv, Route
  PROVE  ManagedInv'
<1>1. UNCHANGED <<processes, profiles, children, routeQueue, doubtful, requests>>
  BY DEF Route
<1>2. ManagedTyped' /\ RestartsOK'
  BY <1>1 DEF ManagedInv, ManagedTyped, RestartsOK, Ids, Pids
<1>3. ChosenIsFree'
  BY <1>1 DEF Route, ChosenIsFree, Reserved, Running, RunsNow, Head1
<1>4. RunningRowHasChild' /\ ChildrenAreTracked' /\ RunningRowsDiffer'
  BY <1>1 DEF ManagedInv, RunningRowHasChild, ChildrenAreTracked, RunningRowsDiffer, Running, childrenByPid, Pids
<1> QED BY <1>2, <1>3, <1>4 DEF ManagedInv

LEMMA RouteOrLaunchFailsOK ==
  ASSUME ManagedInv, RouteOrLaunchFails
  PROVE  ManagedInv'
<1>1. UNCHANGED <<processes, profiles, children, doubtful>> /\ RequestEnds /\ routeQueue # <<>> /\ chosen' = 0
  BY DEF RouteOrLaunchFails, RequestEnds, RunsNow
<1>2. /\ requests' \in [kinds : SUBSET Kinds, left : Nat, failures : Nat, lastId : Nat]
      /\ requests'.lastId = requests.lastId
  BY DEF ManagedInv, ManagedTyped, RouteOrLaunchFails
<1>3. requests.lastId \in Nat
  BY DEF ManagedInv, ManagedTyped
<1>4. RestartsOK' /\ routeQueue' \in Seq(Request)
  BY <1>1, <1>2, <1>3, RequestEndsOK DEF ManagedInv, Ids
<1>5. ManagedTyped' /\ ChosenIsFree'
  BY <1>1, <1>2, <1>4 DEF ManagedInv, ManagedTyped, ChosenIsFree, Ids, Pids
<1>6. RunningRowHasChild' /\ ChildrenAreTracked' /\ RunningRowsDiffer'
  BY <1>1 DEF ManagedInv, RunningRowHasChild, ChildrenAreTracked, RunningRowsDiffer, Running, childrenByPid, Pids
<1> QED BY <1>4, <1>5, <1>6 DEF ManagedInv

\* A child is launched for a row that has none, under a port no row uses.
LEMMA LaunchOK ==
  ASSUME ManagedInv, chosen # 0, NEW id \in Nat \ {0}, children' = launch(id),
         \/ /\ Ids' = Ids \cup {id} /\ processes' \in [Ids' -> Row]
            /\ processes'[id] = [pid |-> NewPid, actual |-> chosen, status |-> "running"]
            /\ \A i \in Ids : i # id => processes'[i] = processes[i]
         \/ id \in doubtful /\ processes' = processes,
         id \notin doubtful => \A p \in Pids : children[p].row = id =>
                                 children[p].state # "alive" \/ children[p].signalled,
         UNCHANGED doubtful
  PROVE  /\ children' \in Seq(Child) /\ Pids' = Pids \cup {NewPid}
         /\ children'[NewPid].row = id /\ \A p \in Pids : children'[p] = children[p]
         /\ processes' \in [Ids' -> Row] /\ \A i \in Ids' : processes'[i].pid \in Pids'
         /\ RunningRowHasChild' /\ ChildrenAreTracked' /\ RunningRowsDiffer'
<1> DEFINE c == [row |-> id, state |-> "alive", signalled |-> FALSE]
<1>1. c \in Child /\ c.row = id /\ c.state = "alive" /\ c.signalled = FALSE
  BY DEF Child
<1>2. children' = Append(children, c) /\ NewPid = Len(children) + 1 /\ children \in Seq(Child)
  BY DEF launch, NewPid, ManagedInv, ManagedTyped
<1> HIDE DEF c
<1>3. /\ children' \in Seq(Child) /\ Pids' = Pids \cup {NewPid} /\ NewPid \notin Pids /\ NewPid \in Nat
      /\ children'[NewPid] = c /\ \A p \in Pids : children'[p] = children[p]
  BY <1>1, <1>2, AppendElements DEF Pids
<1>4. chosen \in ActualPorts /\ \A i \in Running(processes) : processes[i].actual # chosen
  BY DEF ManagedInv, ChosenIsFree, Reserved
<1>5. CASE /\ Ids' = Ids \cup {id} /\ processes' \in [Ids' -> Row]
           /\ processes'[id] = [pid |-> NewPid, actual |-> chosen, status |-> "running"]
           /\ \A i \in Ids : i # id => processes'[i] = processes[i]
  <2> DEFINE row == [pid |-> NewPid, actual |-> chosen, status |-> "running"]
  <2>1. row \in Row /\ row.pid = NewPid /\ row.actual = chosen /\ row.status = "running"
    BY <1>3, <1>4 DEF Row
  <2>2. /\ Ids' = Ids \cup {id} /\ processes' \in [Ids' -> Row] /\ processes'[id] = row
        /\ \A i \in Ids : i # id => processes'[i] = processes[i]
    BY <1>5
  <2> HIDE DEF row
  <2>3. \A i \in Running(processes)' : i = id \/ i \in Running(processes)
    BY <2>2 DEF Running, Ids
  <2>4. id \in Running(processes)'
    BY <2>1, <2>2 DEF Running, Ids
  <2>5. RunningRowsDiffer'
    BY <1>4, <2>1, <2>2, <2>3 DEF RunningRowsDiffer, ManagedInv, Running, Ids
  <2>6. RunningRowHasChild'
    <3>1. processes'[id].pid \in childrenByPid' /\ children'[processes'[id].pid].row = id
      BY <1>1, <1>3, <2>1, <2>2 DEF childrenByPid
    <3>2. ASSUME NEW i \in Running(processes), i # id
          PROVE  processes'[i].pid \in childrenByPid' /\ children'[processes'[i].pid].row = i
      BY <1>3, <2>2, <3>2 DEF RunningRowHasChild, ManagedInv, childrenByPid, Running, Ids
    <3> QED BY <2>3, <3>1, <3>2 DEF RunningRowHasChild
  <2>7. ChildrenAreTracked'
    <3> SUFFICES ASSUME NEW p \in Pids', children'[p].state = "alive", ~children'[p].signalled,
                        children'[p].row \notin doubtful'
                 PROVE  /\ children'[p].row \in Running(processes)'
                        /\ processes'[children'[p].row].pid = p
      BY DEF ChildrenAreTracked
    <3>1. CASE p = NewPid
      BY <1>1, <1>3, <2>1, <2>2, <2>4, <3>1
    <3>2. CASE p \in Pids
      <4>1. children[p].row \in Running(processes) /\ processes[children[p].row].pid = p
        BY <1>3, <3>2 DEF ManagedInv, ChildrenAreTracked
      <4>2. children[p].row # id
        BY <1>3, <3>2
      <4> QED BY <1>3, <2>2, <3>2, <4>1, <4>2 DEF Running, Ids
    <3> QED BY <1>3, <3>1, <3>2
  <2>8. \A i \in Ids' : processes'[i].pid \in Pids'
    BY <1>3, <2>1, <2>2 DEF ManagedInv, ManagedTyped
  <2> QED BY <1>1, <1>3, <2>2, <2>5, <2>6, <2>7, <2>8
<1>6. CASE id \in doubtful /\ processes' = processes
  <2>1. processes' = processes /\ Ids' = Ids
    BY <1>6 DEF Ids
  <2>2. RunningRowsDiffer' /\ RunningRowHasChild'
    BY <1>3, <2>1 DEF ManagedInv, RunningRowsDiffer, RunningRowHasChild, Running, childrenByPid
  <2>3. ChildrenAreTracked'
    BY <1>1, <1>3, <1>6, <2>1 DEF ManagedInv, ChildrenAreTracked, Running
  <2> QED BY <1>1, <1>3, <2>1, <2>2, <2>3 DEF ManagedInv, ManagedTyped
<1> QED BY <1>5, <1>6

LEMMA StartManagedOK ==
  ASSUME ManagedInv, startManagedProcessExclusive
  PROVE  ManagedInv'
<1> DEFINE id == requests.lastId + 1
           row == [pid |-> NewPid, actual |-> chosen, status |-> "running"]
<1>1. /\ children' = launch(id) /\ processes' = registerRow(processes, id, NewPid, chosen)
      /\ profiles' = profiles \cup {id} /\ requests' = [requests EXCEPT !.lastId = id]
      /\ RequestEnds /\ routeQueue # <<>> /\ chosen # 0 /\ chosen' = 0 /\ UNCHANGED doubtful
  BY DEF startManagedProcessExclusive, RequestEnds, RunsNow
<1>2. requests.lastId \in Nat /\ id \in Nat \ {0} /\ id \notin 1..requests.lastId /\ id \in 1..id
        /\ 1..requests.lastId \subseteq 1..id
  BY DEF ManagedInv, ManagedTyped
<1>3. /\ requests' \in [kinds : SUBSET Kinds, left : Nat, failures : Nat, lastId : Nat]
      /\ requests'.lastId = id
  BY <1>1, <1>2 DEF ManagedInv, ManagedTyped
<1>4. id \notin Ids /\ \A p \in Pids : children[p].row # id
  BY <1>2 DEF ManagedInv, ManagedTyped
<1>5. chosen \in ActualPorts /\ NewPid \in Nat
  BY <1>1 DEF ManagedInv, ManagedTyped, ChosenIsFree, NewPid
<1>6. row \in Row
  BY <1>5 DEF Row
<1> HIDE DEF id
<1>7. processes' = [i \in Ids \cup {id} |-> IF i = id THEN row ELSE processes[i]]
  BY <1>1 DEF registerRow, Ids
<1>8. /\ Ids' = Ids \cup {id} /\ processes' \in [Ids' -> Row] /\ processes'[id] = row
      /\ \A i \in Ids : i # id => processes'[i] = processes[i]
  BY <1>6, <1>7 DEF Ids, ManagedInv, ManagedTyped
<1>9. /\ children' \in Seq(Child) /\ Pids' = Pids \cup {NewPid}
      /\ children'[NewPid].row = id /\ \A p \in Pids : children'[p] = children[p]
      /\ \A i \in Ids' : processes'[i].pid \in Pids'
      /\ RunningRowHasChild' /\ ChildrenAreTracked' /\ RunningRowsDiffer'
  BY <1>1, <1>2, <1>4, <1>8, LaunchOK
<1>10. RestartsOK' /\ routeQueue' \in Seq(Request)
  <2>1. requests'.lastId \in Nat /\ requests.lastId <= requests'.lastId
    BY <1>2, <1>3 DEF id
  <2> QED BY <1>1, <1>4, <1>8, <2>1, RequestEndsOK DEF ManagedInv
<1>11. ManagedTyped'
  BY <1>1, <1>2, <1>3, <1>8, <1>9, <1>10 DEF ManagedInv, ManagedTyped
<1>12. ChosenIsFree'
  BY <1>1 DEF ChosenIsFree
<1> QED BY <1>9, <1>10, <1>11, <1>12 DEF ManagedInv

LEMMA RestartLaunchedOK ==
  ASSUME ManagedInv, RestartLaunched
  PROVE  ManagedInv'
<1> DEFINE id == Head1.id
           row == [pid |-> NewPid, actual |-> chosen, status |-> "running"]
<1>1. /\ children' = launch(id) /\ profiles' = profiles \cup {id}
      /\ processes' = IF id \in Ids THEN updateRow(processes, id, NewPid, chosen) ELSE processes
      /\ RequestEnds /\ routeQueue # <<>> /\ chosen # 0 /\ chosen' = 0 /\ UNCHANGED <<doubtful, requests>>
      /\ Head1.kind = "restart"
  BY DEF RestartLaunched, RequestEnds, RunsNow
<1>2. 1 \in DOMAIN routeQueue /\ requests.lastId \in Nat
  BY <1>1 DEF ManagedInv, ManagedTyped
<1>3. id \in 1..requests.lastId /\ (id \notin doubtful => id \in Ids /\ processes[id].status = "stopped")
  BY <1>1, <1>2 DEF ManagedInv, RestartsOK, Head1
<1>4. id \in Nat \ {0}
  BY <1>2, <1>3
<1>5. chosen \in ActualPorts /\ NewPid \in Nat
  BY <1>1 DEF ManagedInv, ManagedTyped, ChosenIsFree, NewPid
<1>6. row \in Row
  BY <1>5 DEF Row
<1> HIDE DEF id
<1>7. ASSUME id \in Ids
      PROVE  /\ Ids' = Ids \cup {id} /\ processes' \in [Ids' -> Row] /\ processes'[id] = row
             /\ \A i \in Ids : i # id => processes'[i] = processes[i]
  <2>1. processes' = [processes EXCEPT ![id] = row]
    BY <1>1, <1>7 DEF updateRow
  <2> HIDE DEF row
  <2> QED BY <1>6, <1>7, <2>1 DEF ManagedInv, ManagedTyped, Ids
<1>8. ASSUME id \notin doubtful, NEW p \in Pids, children[p].row = id
      PROVE  children[p].state # "alive" \/ children[p].signalled
  BY <1>3, <1>8 DEF ManagedInv, ChildrenAreTracked, Running
<1>9. \/ /\ Ids' = Ids \cup {id} /\ processes' \in [Ids' -> Row]
         /\ processes'[id] = row /\ \A i \in Ids : i # id => processes'[i] = processes[i]
      \/ id \in doubtful /\ processes' = processes
  BY <1>1, <1>3, <1>7
<1>10. /\ children' \in Seq(Child) /\ Pids' = Pids \cup {NewPid}
       /\ children'[NewPid].row = id /\ \A p \in Pids : children'[p] = children[p]
       /\ processes' \in [Ids' -> Row] /\ \A i \in Ids' : processes'[i].pid \in Pids'
       /\ RunningRowHasChild' /\ ChildrenAreTracked' /\ RunningRowsDiffer'
  BY <1>1, <1>4, <1>8, <1>9, LaunchOK
<1>11. Ids' \subseteq Ids \cup {id} /\ Ids \subseteq Ids' /\ \A i \in Ids : i # id => processes'[i] = processes[i]
  BY <1>9 DEF Ids
<1>12. RestartsOK' /\ routeQueue' \in Seq(Request)
  <2>1. requests'.lastId \in Nat /\ requests.lastId <= requests'.lastId
    BY <1>1, <1>2
  <2> QED BY <1>1, <1>11, <2>1, RequestEndsOK DEF ManagedInv, id
<1>13. ManagedTyped'
  BY <1>1, <1>3, <1>10, <1>11, <1>12 DEF ManagedInv, ManagedTyped
<1>14. ChosenIsFree'
  BY <1>1 DEF ChosenIsFree
<1> QED BY <1>10, <1>12, <1>13, <1>14 DEF ManagedInv

LEMMA StopProcessOK ==
  ASSUME ManagedInv, stopProcessExclusive
  PROVE  ManagedInv'
<1> DEFINE id == Head1.id
<1>1. RequestEnds /\ routeQueue # <<>> /\ chosen' = 0 /\ UNCHANGED <<profiles, doubtful>> /\ requests.lastId \in Nat
  BY DEF stopProcessExclusive, RequestEnds, RunsNow, ManagedInv, ManagedTyped
<1>2. /\ requests' \in [kinds : SUBSET Kinds, left : Nat, failures : Nat, lastId : Nat]
      /\ requests'.lastId = requests.lastId
  BY DEF stopProcessExclusive, ManagedInv, ManagedTyped
<1>3. ChosenIsFree'
  BY <1>1 DEF ChosenIsFree
<1>4. CASE /\ id \in Ids
           /\ children' = IF processes[id].status = "stopped" THEN children ELSE Signalled(processes[id].pid)
           /\ processes' = stopRow(processes, id) /\ UNCHANGED requests
  <2>1. /\ processes' \in [Ids' -> Row] /\ Ids' = Ids /\ processes'[id].status = "stopped"
        /\ \A i \in Ids : i # id => processes'[i] = processes[i]
        /\ \A i \in Ids : processes'[i].pid = processes[i].pid
        /\ children' \in Seq(Child) /\ Pids' = Pids
        /\ \A p \in Pids : children'[p].row = children[p].row
        /\ RunningRowHasChild' /\ ChildrenAreTracked' /\ RunningRowsDiffer'
    BY <1>1, <1>4, StopOK DEF ManagedInv
  <2>2. RestartsOK' /\ routeQueue' \in Seq(Request)
    BY <1>1, <1>2, <2>1, RequestEndsOK DEF ManagedInv
  <2>3. ManagedTyped'
    BY <1>1, <1>2, <2>1, <2>2 DEF ManagedInv, ManagedTyped
  <2> QED BY <1>3, <2>1, <2>2, <2>3 DEF ManagedInv
<1>5. CASE UNCHANGED <<children, processes>>
  <2>1. RestartsOK' /\ routeQueue' \in Seq(Request)
    BY <1>1, <1>2, <1>5, RequestEndsOK DEF ManagedInv, Ids
  <2>2. ManagedTyped'
    BY <1>1, <1>2, <1>5, <2>1 DEF ManagedInv, ManagedTyped, Ids, Pids
  <2>3. RunningRowHasChild' /\ ChildrenAreTracked' /\ RunningRowsDiffer'
    BY <1>1, <1>5 DEF ManagedInv, RunningRowHasChild, ChildrenAreTracked, RunningRowsDiffer, Running, childrenByPid, Pids
  <2> QED BY <1>3, <2>1, <2>2, <2>3 DEF ManagedInv
<1> QED BY <1>4, <1>5 DEF stopProcessExclusive

LEMMA RemoveProcessOK ==
  ASSUME ManagedInv, removeProcessExclusive
  PROVE  ManagedInv'
<1> DEFINE id == Head1.id
<1>1. /\ processes' = removeRow(processes, id) /\ profiles' = profiles \ {id}
      /\ doubtful' = doubtful \cup {id} /\ RequestEnds /\ chosen' = 0 /\ routeQueue # <<>>
      /\ UNCHANGED <<children, requests>> /\ requests.lastId \in Nat
  BY DEF removeProcessExclusive, RequestEnds, RunsNow, ManagedInv, ManagedTyped
<1> HIDE DEF id
<1>2. /\ Ids' = Ids \ {id} /\ processes' \in [Ids' -> Row] /\ \A i \in Ids' : processes'[i] = processes[i]
  BY <1>1 DEF removeRow, Ids, ManagedInv, ManagedTyped
<1>3. RestartsOK' /\ routeQueue' \in Seq(Request)
  BY <1>1, <1>2, RequestEndsOK DEF ManagedInv
<1>4. ManagedTyped'
  BY <1>1, <1>2, <1>3 DEF ManagedInv, ManagedTyped, Pids
<1>5. ChosenIsFree'
  BY <1>1 DEF ChosenIsFree
<1>6. \A i : i \in Running(processes)' <=> i \in Running(processes) /\ i # id
  BY <1>2 DEF Running, Ids
<1>7. RunningRowHasChild' /\ RunningRowsDiffer'
  BY <1>1, <1>2, <1>6 DEF ManagedInv, RunningRowHasChild, RunningRowsDiffer, Running, childrenByPid, Pids, Ids
<1>8. ChildrenAreTracked'
  BY <1>1, <1>2, <1>6 DEF ManagedInv, ChildrenAreTracked, Pids, Running, Ids
<1> QED BY <1>3, <1>4, <1>5, <1>7, <1>8 DEF ManagedInv

-----------------------------------------------------------------------------
(* The children.                                                            *)

LEMMA DiesOK ==
  ASSUME ManagedInv, NEW p \in Pids, Dies(p)
  PROVE  ManagedInv'
<1> DEFINE c == [children[p] EXCEPT !.state = "dead"]
<1>1. children' = [children EXCEPT ![p] = c] /\ UNCHANGED <<processes, profiles, routeQueue, chosen, doubtful, requests>>
  BY DEF Dies
<1>2. c \in Child /\ c.row = children[p].row /\ c.state = "dead"
  BY ChildTyped DEF ManagedInv, ManagedTyped, Child
<1> HIDE DEF c
<1>3. /\ children' \in Seq(Child) /\ Pids' = Pids /\ children'[p] = c
      /\ \A q \in Pids : q # p => children'[q] = children[q]
  BY <1>1, <1>2, ChildChanges DEF ManagedInv, ManagedTyped
<1>4. ManagedTyped'
  BY <1>1, <1>2, <1>3 DEF ManagedInv, ManagedTyped, Ids
<1>5. ChosenIsFree' /\ RestartsOK' /\ RunningRowsDiffer'
  BY <1>1 DEF ManagedInv, ChosenIsFree, RestartsOK, RunningRowsDiffer, Ids, Reserved, Running, RunsNow, Head1
<1>6. RunningRowHasChild' /\ ChildrenAreTracked'
  BY <1>1, <1>2, <1>3 DEF ManagedInv, RunningRowHasChild, ChildrenAreTracked, Running, childrenByPid
<1> QED BY <1>4, <1>5, <1>6 DEF ManagedInv

\* The exit of a child stops the row that has its pid, and no other.
LEMMA ExitOK ==
  ASSUME ManagedInv, NEW p \in Pids, markExitedProcessStopped(p)
  PROVE  ManagedInv'
<1> DEFINE c == [children[p] EXCEPT !.state = "gone"]
           rows == {i \in Running(processes) : processes[i].pid = p}
<1>1. /\ children' = [children EXCEPT ![p] = c] /\ children[p].state = "dead"
      /\ processes' = [i \in Ids |-> IF i \in rows THEN stopRow(processes, i)[i] ELSE processes[i]]
      /\ UNCHANGED <<profiles, routeQueue, chosen, doubtful, requests>>
  BY DEF markExitedProcessStopped
<1>2. c \in Child /\ c.row = children[p].row /\ c.state = "gone"
  BY ChildTyped DEF ManagedInv, ManagedTyped, Child
<1> HIDE DEF c
<1>3. /\ children' \in Seq(Child) /\ Pids' = Pids /\ children'[p] = c
      /\ \A q \in Pids : q # p => children'[q] = children[q]
  BY <1>1, <1>2, ChildChanges DEF ManagedInv, ManagedTyped
<1>4. \A i \in Ids : LET row == stopRow(processes, i)[i] IN
        row \in Row /\ row.status = "stopped" /\ row.pid = processes[i].pid /\ row.actual = processes[i].actual
  <2> TAKE i \in Ids
  <2>1. stopRow(processes, i)[i] = [processes[i] EXCEPT !.status = "stopped"] /\ processes[i] \in Row
    BY DEF stopRow, ManagedInv, ManagedTyped, Ids
  <2> QED BY <2>1 DEF Row
<1>5. /\ Ids' = Ids /\ processes' \in [Ids -> Row]
      /\ \A i \in Ids : /\ processes'[i].pid = processes[i].pid
                        /\ processes'[i].actual = processes[i].actual
                        /\ i \in rows => processes'[i].status = "stopped"
                        /\ i \notin rows => processes'[i] = processes[i]
  BY <1>1, <1>4 DEF Ids, ManagedInv, ManagedTyped
<1>6. \A i : i \in Running(processes)' <=> i \in Running(processes) /\ processes[i].pid # p
  BY <1>5 DEF Running, Ids
<1> HIDE DEF rows
<1>7. ManagedTyped'
  <2>1. \A q \in Pids' : children'[q].row \in 1..requests'.lastId
    BY <1>1, <1>2, <1>3 DEF ManagedInv, ManagedTyped
  <2>2. /\ processes' \in [Ids' -> Row] /\ Ids' \subseteq 1..requests'.lastId /\ Ids' \subseteq profiles'
        /\ \A i \in Ids' : processes'[i].pid \in Pids'
    BY <1>1, <1>3, <1>5 DEF ManagedInv, ManagedTyped
  <2> QED BY <1>1, <1>3, <2>1, <2>2 DEF ManagedInv, ManagedTyped
<1>8. ChosenIsFree' /\ RunningRowsDiffer'
  BY <1>1, <1>5, <1>6 DEF ManagedInv, ChosenIsFree, RunningRowsDiffer, Reserved, RunsNow, Head1, Running, Ids
<1>9. RestartsOK'
  <2>1. \A i \in Ids : processes[i].status = "stopped" => processes'[i].status = "stopped"
    BY <1>5
  <2> QED BY <1>1, <1>5, <2>1 DEF ManagedInv, RestartsOK
<1>10. RunningRowHasChild'
  BY <1>3, <1>5, <1>6 DEF ManagedInv, RunningRowHasChild, childrenByPid, Running, Ids
<1>11. ChildrenAreTracked'
  <2> SUFFICES ASSUME NEW q \in Pids, children'[q].state = "alive", ~children'[q].signalled,
                      children'[q].row \notin doubtful'
               PROVE  /\ children'[q].row \in Running(processes)'
                      /\ processes'[children'[q].row].pid = q
    BY <1>3 DEF ChildrenAreTracked
  <2>1. q # p /\ children'[q] = children[q]
    BY <1>2, <1>3
  <2>2. children[q].row \in Running(processes) /\ processes[children[q].row].pid = q
    BY <1>1, <2>1 DEF ManagedInv, ChildrenAreTracked
  <2> QED BY <1>5, <1>6, <2>1, <2>2 DEF Running, Ids
<1> QED BY <1>7, <1>8, <1>9, <1>10, <1>11 DEF ManagedInv

-----------------------------------------------------------------------------
LEMMA ManagedNextOK ==
  ASSUME ManagedInv, [ManagedNext]_managedVars
  PROVE  ManagedInv'
<1>1. CASE UNCHANGED managedVars
  <2>1. ManagedTyped' /\ ChosenIsFree' /\ RestartsOK'
    BY <1>1 DEF managedVars, ManagedInv, ManagedTyped, ChosenIsFree, RestartsOK, Ids, Pids, Reserved, Running, RunsNow, Head1
  <2>2. RunningRowHasChild' /\ ChildrenAreTracked' /\ RunningRowsDiffer'
    BY <1>1 DEF managedVars, ManagedInv, RunningRowHasChild, ChildrenAreTracked, RunningRowsDiffer, Running, childrenByPid, Pids
  <2> QED BY <2>1, <2>2 DEF ManagedInv
<1> QED BY <1>1, RequestedOK, RestartProcessOK, RestartFailsOK, RouteOK, RouteOrLaunchFailsOK, StartManagedOK,
           RestartLaunchedOK, StopProcessOK, RemoveProcessOK, DiesOK, ExitOK DEF ManagedNext

LEMMA ManagedInitOK ==
  ASSUME NEW scene \in [kinds : SUBSET Kinds, left : Nat, failures : Nat], ManagedInit(scene)
  PROVE  ManagedInv
<1>1. Ids = {} /\ Pids = {} /\ DOMAIN routeQueue = {}
  BY DEF ManagedInit, Ids, Pids
<1>2. processes \in [Ids -> Row] /\ children \in Seq(Child) /\ routeQueue \in Seq(Request)
  BY <1>1 DEF ManagedInit, Ids
<1>3. ManagedTyped
  BY <1>1, <1>2 DEF ManagedTyped, ManagedInit
<1>4. ChosenIsFree /\ RestartsOK
  BY <1>1 DEF ChosenIsFree, RestartsOK, ManagedInit
<1>5. RunningRowHasChild /\ ChildrenAreTracked /\ RunningRowsDiffer
  BY <1>1 DEF RunningRowHasChild, ChildrenAreTracked, RunningRowsDiffer, Running, Ids
<1> QED BY <1>3, <1>4, <1>5 DEF ManagedInv

LEMMA ManagedInvMatches == ManagedInv => RowsMatchChildren
<1> SUFFICES ASSUME ManagedInv PROVE ManagedTypeOK
  BY DEF ManagedInv, RowsMatchChildren
<1>1. \A p \in Pids : children[p].state \in {"alive", "dead", "gone"}
  BY ChildTyped DEF ManagedInv, ManagedTyped, Child
<1>2. \A i \in Ids : processes[i].status \in {"running", "stopped"} /\ processes[i].actual \in ActualPorts
  BY DEF ManagedInv, ManagedTyped, Row
<1> QED BY <1>1, <1>2 DEF ManagedInv, ManagedTyped, ChosenIsFree, ManagedTypeOK

\* Whatever requests a client sends and in whatever order children end and their exits
\* are noticed, a running row has its child, a live child that got no signal has its
\* row, and no two running rows share a port (restartProcess, routeOperationQueue and
\* markExitedProcessStopped of port-manager-agent.ts).
THEOREM RowsAndChildrenMatch ==
  ASSUME NEW scene \in [kinds : SUBSET Kinds, left : Nat, failures : Nat]
  PROVE  ManagedInit(scene) /\ [][ManagedNext]_managedVars => []RowsMatchChildren
<1>1. ManagedInit(scene) => ManagedInv
  BY ManagedInitOK
<1>2. ManagedInv /\ [ManagedNext]_managedVars => ManagedInv'
  BY ManagedNextOK
<1> QED BY <1>1, <1>2, ManagedInvMatches, PTL
=============================================================================
