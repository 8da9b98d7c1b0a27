-------------------------- MODULE RouteAllocation --------------------------
(***************************************************************************)
(* How the daemon (src/agent/port-manager-agent.ts) gives actual ports to   *)
(* the hooked processes that ask for logical ones, and keeps its rows in    *)
(* step with the listening sockets of the machine.                          *)
(*                                                                          *)
(* Requests that decide or change routes run one at a time, in order, in    *)
(* runExclusiveRouteOperation; snapshots scan the listeners, expire         *)
(* reservations, recover rows and reconcile them outside that queue.  An    *)
(* action is a segment between two awaits.  A client is a process with the  *)
(* native hook loaded: it binds or connects a logical port.                 *)
(*                                                                          *)
(* Clocks are abstracted to flags: a reservation is `fresh` until its TTL   *)
(* is over, a row is `aged` when its listener has been missing for the      *)
(* grace period.  A row carries its entry of missingListenerState.  Stopped *)
(* rows are left out: they take no part in routing and are never revived.   *)
(***************************************************************************)
EXTENDS Naturals, Sequences

CONSTANTS
  Clients,
  Listen,      \* the clients that bind; the others connect
  Port,        \* client -> the logical port it asks for
  Net,         \* client -> its network, or None
  Host,        \* client -> the address it really binds or connects to
  Foreign,     \* the pid of a program without the hook
  Terminal,    \* client -> its terminal session
  Candidates,  \* client -> the ports PortRoutingService tries, in order
  Scoped,      \* usesScopedRouteOwnership
  Threshold,   \* externalListenerMissingScanThreshold (3 in the code)
  Budgets,     \* what a behaviour may use
  None

ASSUME AllocationConstants ==
  /\ Listen \subseteq Clients /\ Foreign \notin Clients
  /\ \A c \in Clients : Port[c] \in Nat /\ Candidates[c] \in Seq(Nat)
  /\ Threshold \in Nat \ {0}
  /\ Budgets \subseteq
       [snaps  : SUBSET {"poll", "view"},  \* the snapshots that may be under way,
        live   : SUBSET Clients,           \* the clients there are,
        asks   : [Clients -> Nat],         \* how often each asks for a port,
        faults : Nat]                      \* crashes, strangers, rows removed by hand

VARIABLES
  pending,   \* pendingRouteAllocations
  rows,      \* the running rows of the process registry
  reserved,  \* reservedListeningEndpoints
  cache,     \* listenerScanCache, a set of sockets, or None
  queue,     \* routeOperationQueue; its head is running
  stage,     \* the await at which the head stands
  snap,      \* the snapshots being built
  client,    \* what each hooked process is doing
  sent,      \* registrations on their way to the daemon
  sockets,   \* the listening sockets of the machine
  lastId,
  faults     \* how many more faults there may be

daemon == <<pending, rows, reserved, cache, queue, stage, snap>>
vars == <<pending, rows, reserved, cache, queue, stage, snap,
          client, sent, sockets, lastId, faults>>

\* endpointHostMatches, after normalizeEndpointHostKey: 127.0.0.1 and ::1 are
\* one host, and every network has a loopback address of its own.
HostMatches(h, k) == h = k \/ h = "*" \/ k = "*"

ListenerOn(ls, port, host) ==
  {l \in ls : l.port = port /\ HostMatches(l.host, host)}

Identity(c) == <<Net[c], Port[c]>>

Ready == [pc |-> "begin", at |-> 1, seen |-> {}]
NoSnap == [pc |-> "idle", own |-> FALSE, seen |-> {}, todo |-> {}]
NewClient(live, asks) ==
  [pc |-> IF live THEN "idle" ELSE "dead", alloc |-> None, actual |-> 0, asks |-> asks]

Init ==
  /\ pending = {} /\ rows = {} /\ reserved = {} /\ cache = None
  /\ queue = <<>> /\ stage = Ready
  /\ sent = {} /\ sockets = {} /\ lastId = 0
  /\ \E budget \in Budgets :
       /\ snap = [s \in budget.snaps |-> NoSnap]
       /\ client = [c \in Clients |-> NewClient(c \in budget.live, budget.asks[c])]
       /\ faults = budget.faults

-----------------------------------------------------------------------------
(* Segments of the daemon, as operators on its state                        *)

\* cleanupExpiredRouteAllocations, also part of every publication: a
\* reservation is dropped after its TTL, or renewed if something listens on it.
Cleaned(ps, ls) ==
  {[a EXCEPT !.fresh = TRUE] :
     a \in {b \in ps : b.fresh \/ ListenerOn(ls, b.actual, b.host) # {}}}

\* isActualPortReserved
isActualPortReserved(ps, port, host) ==
  \/ \E a \in ps : a.actual = port /\ HostMatches(a.host, host)
  \/ \E r \in rows : r.actual = port /\ HostMatches(r.host, host)
  \/ ListenerOn(reserved, port, host) # {}

\* findReusableActiveRoute: dedupeLogicalRoutes leaves the last row of the
\* identity.
ActiveRoutes(c) ==
  LET same == {r \in rows : <<r.net, r.port>> = Identity(c)}
  IN  {r \in same : \A q \in same : q.id <= r.id}

\* findReusablePendingRouteAllocation
PendingFor(ps, c) == {a \in ps : <<a.net, a.port>> = Identity(c)}

SameRoute(r, c, port) == r.actual = port /\ <<r.net, r.port>> = Identity(c)

\* upsertRegisteredProcess: the first row of the same route is updated in place;
\* a new row comes last in the registry's order.
Upsert(rs, c, port, host) ==
  LET same == {r \in rs : SameRoute(r, c, port)}
      old  == CHOOSE r \in same : \A q \in same : r.id <= q.id
      last == IF rs = {} THEN 0 ELSE (CHOOSE r \in rs : \A q \in rs : q.id <= r.id).id
  IN  IF same = {}
      THEN rs \cup {[id |-> last + 1, pid |-> c, port |-> Port[c], net |-> Net[c],
                     term |-> Terminal[c], host |-> host, actual |-> port,
                     missing |-> 0, aged |-> FALSE]}
      ELSE (rs \ {old}) \cup {[old EXCEPT !.pid = c, !.term = Terminal[c], !.host = host]}

Seen(r) == [r EXCEPT !.missing = 0, !.aged = FALSE]

\* adoptExternalListenerOwner
Adopted(r, ls) == [Seen(r) EXCEPT !.pid = (CHOOSE l \in ls : TRUE).pid]

Missed(r) == [r EXCEPT !.missing = IF @ < Threshold THEN @ + 1 ELSE @]

ReconciledAtOnce(r, ls) ==
  LET own == ListenerOn(ls, r.actual, r.host)
  IN  IF \E l \in own : l.pid = r.pid THEN {Seen(r)}
      ELSE IF own # {} THEN {Adopted(r, own)} ELSE {}

ReconciledForever(r, ls) ==
  LET own == ListenerOn(ls, r.actual, r.host)
  IN  IF \E l \in own : l.pid = r.pid THEN {Seen(r)}
      ELSE IF own # {} THEN {Adopted(r, own)} ELSE {Missed(r)}

\* reconcileRegisteredProcessesWithListeners, for one row: what is left of it.
Reconciled(r, ls) ==
  LET own == ListenerOn(ls, r.actual, r.host)
  IN  IF \E l \in own : l.pid = r.pid THEN {Seen(r)}
      ELSE IF own # {} THEN {Adopted(r, own)}
      ELSE IF r.aged /\ Missed(r).missing >= Threshold THEN {}
      ELSE {Missed(r)}

\* processRouteOwnerMatchesRelease and the other conditions of the loop.
ReleasedBy(r, c) ==
  /\ r.port = Port[c] /\ r.actual = client[c].actual
  /\ r.pid = c \/ (Scoped /\ r.term = Terminal[c])
  /\ Net[c] # None => r.net = Net[c]

\* What releaseProcessRouteExclusive does with such a row.
Released(r, ls) ==
  LET own == ListenerOn(ls, r.actual, r.host)
  IN  IF own # {} THEN {Adopted(r, own)} ELSE IF Scoped THEN {Missed(r)} ELSE {}

\* buildActiveTrackedListenerKeys
Tracked(rs, l) ==
  \E r \in rs :
    /\ r.pid = l.pid /\ r.actual = l.port
    /\ l.host = r.host \/ (l.host = "*" /\ r.host = "localhost")

-----------------------------------------------------------------------------
(* The exclusive queue                                                      *)

Req(what, who, arg) == [what |-> what, who |-> who, arg |-> arg]

At(what, pc) == queue # <<>> /\ Head(queue).what = what /\ stage.pc = pc
Who == Head(queue).who

DoneBlocks == UNCHANGED queue /\ stage' = [Ready EXCEPT !.pc = "blocked"]

Done == queue' = Tail(queue) /\ stage' = Ready

\* The head is answered; a client that died meanwhile does not read it.
Answer(c, alloc, actual) ==
  /\ Done
  /\ client' = IF client[c].pc # "asking" THEN client
               ELSE [client EXCEPT ![c].pc = IF actual = 0 THEN "idle" ELSE "allocated",
                                   ![c].alloc = alloc, ![c].actual = actual]

\* allocateRoute up to its first await: join a running receiver or a
\* reservation of the same endpoint.
AllocateReusingNothing ==
  /\ At("allocate", "begin")
  /\ pending' = Cleaned(pending, reserved)
  /\ stage' = [stage EXCEPT !.pc = "pick"]
  /\ UNCHANGED <<queue, client, rows, reserved, cache, snap, sent, sockets, lastId, faults>>

Allocate ==
  /\ At("allocate", "begin")
  /\ LET c      == Who
         ps     == Cleaned(pending, reserved)
         active == {r \in ActiveRoutes(c) : c \notin Listen /\ (Net[c] # None => r.host = Host[c])}
         mine   == PendingFor(ps, c)
     IN  IF active # {}
         THEN pending' = ps /\ Answer(c, None, (CHOOSE r \in active : TRUE).actual)
         ELSE IF mine # {}
         THEN LET a == CHOOSE a \in mine : TRUE
              IN  /\ pending' = (ps \ {a}) \cup {[a EXCEPT !.fresh = TRUE]}
                  /\ Answer(c, a.id, a.actual)
         ELSE /\ pending' = ps
              /\ stage' = [stage EXCEPT !.pc =
                   IF c \notin Listen /\ Net[c] = None THEN "same" ELSE "pick"]
              /\ UNCHANGED <<queue, client>>
  /\ UNCHANGED <<rows, reserved, cache, snap, sent, sockets, lastId, faults>>

\* findSamePortExternalListener; a client outside the networks sends no
\* actualHost, so any listener on the port will do.
SamePort ==
  /\ At("allocate", "same")
  /\ LET found == {l \in sockets : l.port = Port[Who]}
     IN  /\ reserved' = reserved \cup {[port |-> l.port, host |-> l.host] : l \in found}
         /\ IF found # {}
            THEN /\ pending' = Cleaned(pending, reserved')
                 /\ Answer(Who, None, Port[Who])
            ELSE /\ stage' = [stage EXCEPT !.pc = "pick"]
                 /\ UNCHANGED <<pending, queue, client>>
  /\ UNCHANGED <<rows, cache, snap, sent, sockets, lastId, faults>>

\* PortRoutingService goes on to the next candidate the daemon has not
\* reserved, or fails.
Pick ==
  /\ At("allocate", "pick")
  /\ LET ps   == Cleaned(pending, reserved)
         free == {i \in stage.at..Len(Candidates[Who]) :
                    ~isActualPortReserved(ps, Candidates[Who][i], Host[Who])}
     IN  /\ pending' = ps
         /\ \/ free = {} /\ Answer(Who, None, 0)
            \/ \E i \in free :
                 /\ \A j \in free : i <= j
                 /\ stage' = [stage EXCEPT !.pc = "probe", !.at = i]
                 /\ UNCHANGED <<queue, client>>
  /\ UNCHANGED <<rows, reserved, cache, snap, sent, sockets, lastId, faults>>

\* The provider probes the port; a free one becomes a reservation.
Probe ==
  /\ At("allocate", "probe")
  /\ LET c == Who
         p == Candidates[c][stage.at]
     IN  IF ListenerOn(sockets, p, Host[c]) # {}
         THEN /\ stage' = [stage EXCEPT !.pc = "pick", !.at = @ + 1]
              /\ UNCHANGED <<pending, queue, client, lastId>>
         ELSE /\ lastId' = lastId + 1
              /\ pending' = Cleaned(pending \cup
                   {[id |-> lastId', port |-> Port[c], net |-> Net[c], host |-> Host[c],
                     dir |-> IF c \in Listen THEN "listen" ELSE "send",
                     actual |-> p, fresh |-> TRUE]}, reserved)
              /\ Answer(c, lastId', p)
  /\ UNCHANGED <<rows, reserved, cache, snap, sent, sockets, faults>>

\* registerExistingProcess; the publication cleans up.
Register ==
  /\ At("register", "begin")
  /\ LET c == Who
     IN  /\ rows' = {IF SameRoute(r, c, client[c].actual) THEN Seen(r) ELSE r :
                     r \in Upsert(rows, c, client[c].actual, Host[c])}
         /\ pending' = Cleaned({a \in pending : a.id # Head(queue).arg} \ PendingFor(pending, c),
                               reserved)
  /\ Done
  /\ UNCHANGED <<reserved, cache, snap, client, sent, sockets, lastId, faults>>

\* releaseRouteAllocation
ReleaseAllocation ==
  /\ At("release", "begin")
  /\ LET kept == {a \in pending : a.id # Head(queue).arg}
     IN  pending' = IF kept = pending THEN pending ELSE Cleaned(kept, reserved)
  /\ client' = IF client[Who].pc = "releasing" THEN [client EXCEPT ![Who].pc = "idle"] ELSE client
  /\ Done
  /\ UNCHANGED <<rows, reserved, cache, snap, sent, sockets, lastId, faults>>

\* releaseProcessRoute scans the listeners of one port, then decides.
ReleaseScan ==
  /\ At("exit", "begin")
  /\ LET found == {l \in sockets : l.port = client[Who].actual}
     IN  /\ stage' = [stage EXCEPT !.pc = "decide", !.seen = found]
         /\ reserved' = reserved \cup {[port |-> l.port, host |-> l.host] : l \in found}
  /\ UNCHANGED <<pending, rows, cache, queue, snap, client, sent, sockets, lastId, faults>>

ReleaseRoute ==
  /\ At("exit", "decide")
  /\ LET mine == {r \in rows : ReleasedBy(r, Who)}
         kept == {a \in pending : a.id # Head(queue).arg}
     IN  /\ rows' = (rows \ mine) \cup UNION {Released(r, stage.seen) : r \in mine}
         /\ pending' = IF mine = {} /\ kept = pending THEN pending ELSE Cleaned(kept, reserved)
  /\ client' = IF client[Who].pc = "exiting" THEN [client EXCEPT ![Who].pc = "released"] ELSE client
  /\ Done
  /\ UNCHANGED <<reserved, cache, snap, sent, sockets, lastId, faults>>

-----------------------------------------------------------------------------
(* Snapshots                                                                *)

\* buildSnapshot: polls reconcile, views do not.  scanListeningPorts samples the
\* sockets at one moment, or joins the scan in progress.
Scan(s) ==
  /\ snap[s].pc = "idle"
  /\ LET others == {o \in DOMAIN snap : snap[o].pc = "scan" /\ snap[o].own}
     IN  snap' = [snap EXCEPT ![s] =
           [pc |-> "scan", own |-> TRUE, todo |-> {},
            seen |-> IF others = {} THEN sockets ELSE snap[CHOOSE o \in others : TRUE].seen]]
  /\ UNCHANGED <<pending, rows, reserved, cache, queue, stage, client, sent, sockets, lastId, faults>>

\* The fast pass of flushQueuedSnapshotBroadcast takes the last scan, however old.
UseCache ==
  /\ "view" \in DOMAIN snap /\ snap["view"].pc = "idle" /\ cache # None
  /\ snap' = [snap EXCEPT !["view"] = [pc |-> "scan", own |-> FALSE, todo |-> {}, seen |-> cache]]
  /\ UNCHANGED <<pending, rows, reserved, cache, queue, stage, client, sent, sockets, lastId, faults>>

\* updateReservedListeningPorts and cleanup, up to the first hook recovery.
Scanned(s) ==
  /\ snap[s].pc = "scan"
  /\ cache' = IF snap[s].own THEN snap[s].seen ELSE cache
  /\ reserved' = {[port |-> l.port, host |-> l.host] : l \in snap[s].seen}
  /\ pending' = Cleaned(pending, reserved')
  /\ snap' = [snap EXCEPT ![s].pc = "recover",
                          ![s].todo = {l \in snap[s].seen : ~Tracked(rows, l)}]
  /\ UNCHANGED <<rows, queue, stage, client, sent, sockets, lastId, faults>>

\* recoverHookRoutesFromListeners reads the environment of one listener's
\* process, which is gone if the process is; a program without the hook has no
\* route there, and the daemon does not ask again for a while.
Recover(s) ==
  /\ snap[s].pc = "recover"
  /\ \E l \in snap[s].todo :
       /\ snap' = [snap EXCEPT ![s].todo = @ \ {l}]
       /\ rows' = IF l.pid = Foreign \/ client[l.pid].pc = "dead" THEN rows
                  ELSE Upsert(rows, l.pid, l.port, l.host)
  /\ UNCHANGED <<pending, reserved, cache, queue, stage, client, sent, sockets, lastId, faults>>

\* The rest of buildSnapshot.
Snapshot(s) ==
  /\ snap[s].pc = "recover" /\ snap[s].todo = {}
  /\ rows' = IF s = "poll" THEN UNION {Reconciled(r, snap[s].seen) : r \in rows} ELSE rows
  /\ pending' = Cleaned(pending, reserved)
  /\ snap' = [snap EXCEPT ![s] = NoSnap]
  /\ UNCHANGED <<reserved, cache, queue, stage, client, sent, sockets, lastId, faults>>

\* ROUTE_ALLOCATION_TTL_MS and externalListenerGraceMs; a scan takes less time.
Expires ==
  /\ \E a \in pending : a.fresh /\ pending' = (pending \ {a}) \cup {[a EXCEPT !.fresh = FALSE]}
  /\ UNCHANGED <<rows, reserved, cache, queue, stage, snap, client, sent, sockets, lastId, faults>>

GraceEnds ==
  /\ stage.pc # "decide" /\ \A s \in DOMAIN snap : snap[s] = NoSnap
  /\ \E r \in rows :
       r.missing > 0 /\ ~r.aged /\ rows' = (rows \ {r}) \cup {[r EXCEPT !.aged = TRUE]}
  /\ UNCHANGED <<pending, reserved, cache, queue, stage, snap, client, sent, sockets, lastId, faults>>

\* daemonStatus rebuilds the current routes at any time.
daemonStatus ==
  /\ pending' = Cleaned(pending, reserved) /\ pending' # pending
  /\ UNCHANGED <<rows, reserved, cache, queue, stage, snap, client, sent, sockets, lastId, faults>>

-----------------------------------------------------------------------------
(* Hooked processes (native/hook/portmanager_hook.c)                        *)

Steps(c, from, to) == client[c].pc \in from /\ client' = [client EXCEPT ![c].pc = to]

\* pm_allocate_route
Ask(c) ==
  /\ client[c].pc = "idle" /\ client[c].asks > 0
  /\ client' = [client EXCEPT ![c].pc = "asking", ![c].asks = @ - 1]
  /\ queue' = Append(queue, Req("allocate", c, None))
  /\ UNCHANGED <<pending, rows, reserved, cache, stage, snap, sent, sockets, lastId, faults>>

\* pm_bind_hook finds the reservation of a sender in the route table.
JoinSender(c) ==
  /\ c \in Listen /\ client[c].pc = "idle" /\ client[c].asks > 0
  /\ \E a \in PendingFor(pending, c) :
       /\ a.dir = "send"
       /\ client' = [client EXCEPT ![c] = [pc |-> "allocated", alloc |-> None,
                                          actual |-> a.actual, asks |-> @.asks - 1]]
  /\ UNCHANGED <<pending, rows, reserved, cache, queue, stage, snap, sent, sockets, lastId, faults>>

\* The real bind.  A collision gives the reservation back and is tried again;
\* pm_register_process does not wait for an answer.
Bind(c) ==
  /\ c \in Listen /\ client[c].pc = "allocated"
  /\ LET free == ListenerOn(sockets, client[c].actual, Host[c]) = {}
     IN  \/ /\ free
            /\ sockets' = sockets \cup {[pid |-> c, port |-> client[c].actual, host |-> Host[c]]}
            /\ client' = [client EXCEPT ![c].pc = "bound"]
            /\ sent' = sent \cup {c}
            /\ UNCHANGED queue
         \/ /\ ~free
            /\ IF client[c].alloc = None
               THEN Steps(c, {"allocated"}, "idle") /\ UNCHANGED queue
               ELSE /\ Steps(c, {"allocated"}, "releasing")
                    /\ queue' = Append(queue, Req("release", c, client[c].alloc))
            /\ UNCHANGED <<sockets, sent>>
  /\ UNCHANGED <<pending, rows, reserved, cache, stage, snap, lastId, faults>>

\* The registration has a connection of its own: it may come after a release.
Deliver(c) ==
  /\ c \in sent /\ sent' = sent \ {c}
  /\ queue' = Append(queue, Req("register", c, client[c].alloc))
  /\ UNCHANGED <<pending, rows, reserved, cache, stage, snap, client, sockets, lastId, faults>>

\* A server passes its socket on to a worker, as autoreload does.
HandOver(c, k) ==
  /\ client[c].pc = "bound" /\ k \in Listen /\ client[k].pc = "idle" /\ client[k].asks = 0
  /\ Identity(k) = Identity(c) /\ Host[k] = Host[c] /\ Terminal[k] = Terminal[c]
  /\ sockets' = {IF l.pid = c THEN [l EXCEPT !.pid = k] ELSE l : l \in sockets}
  /\ client' = [client EXCEPT ![c].pc = "closed", ![k] = [client[c] EXCEPT !.asks = 0]]
  /\ UNCHANGED <<pending, rows, reserved, cache, queue, stage, snap, sent, lastId, faults>>

Close(c) ==
  /\ Steps(c, {"bound"}, "closed")
  /\ sockets' = {l \in sockets : l.pid # c}
  /\ UNCHANGED <<pending, rows, reserved, cache, queue, stage, snap, sent, lastId, faults>>

\* pm_hook_unloaded releases the routes, then the process goes and the kernel
\* closes its sockets.
Exit(c) ==
  /\ Steps(c, {"bound", "closed"}, "exiting")
  /\ queue' = Append(queue, Req("exit", c, client[c].alloc))
  /\ UNCHANGED <<pending, rows, reserved, cache, stage, snap, sent, sockets, lastId, faults>>

Ends(c) ==
  /\ Steps(c, {"released"}, "dead")
  /\ sockets' = {l \in sockets : l.pid # c}
  /\ UNCHANGED <<pending, rows, reserved, cache, queue, stage, snap, sent, lastId, faults>>

Fault == faults > 0 /\ faults' = faults - 1

Crash(c) ==
  /\ Fault /\ Steps(c, {"asking", "allocated", "bound", "closed", "releasing"}, "dead")
  /\ sockets' = {l \in sockets : l.pid # c}
  /\ UNCHANGED <<pending, rows, reserved, cache, queue, stage, snap, sent, lastId>>

\* A program the hook is not loaded into takes a port.
ForeignBinds ==
  /\ Fault
  /\ \E c \in Listen : \E p \in {Port[c]} \cup {Candidates[c][i] : i \in DOMAIN Candidates[c]} :
       /\ ListenerOn(sockets, p, Host[c]) = {}
       /\ sockets' = sockets \cup {[pid |-> Foreign, port |-> p, host |-> Host[c]]}
  /\ UNCHANGED <<pending, rows, reserved, cache, queue, stage, snap, client, sent, lastId>>

ForeignEnds ==
  /\ \E l \in sockets : l.pid = Foreign
  /\ sockets' = {l \in sockets : l.pid # Foreign}
  /\ UNCHANGED <<pending, rows, reserved, cache, queue, stage, snap, client, sent, lastId, faults>>

\* removeProcess of the row of client c; the listener may still be there.
RemoveRow(c) ==
  /\ Fault /\ \E r \in rows : r.pid = c
  /\ queue' = Append(queue, Req("remove", c, None))
  /\ UNCHANGED <<pending, rows, reserved, cache, stage, snap, client, sent, sockets, lastId>>

Removed ==
  /\ At("remove", "begin")
  /\ rows' = {r \in rows : r.pid # Who}
  /\ pending' = IF rows' = rows THEN pending ELSE Cleaned(pending, reserved)
  /\ Done
  /\ UNCHANGED <<reserved, cache, snap, client, sent, sockets, lastId, faults>>

\* A new daemon takes over with nothing in memory; requests in progress fail.
DaemonRestarts ==
  /\ Fault
  /\ pending' = {} /\ rows' = {} /\ reserved' = {} /\ cache' = None
  /\ queue' = <<>> /\ stage' = Ready /\ snap' = [s \in DOMAIN snap |-> NoSnap]
  /\ client' = [c \in Clients |->
       [client[c] EXCEPT !.pc = IF @ \in {"asking", "releasing"} THEN "idle"
                                ELSE IF @ = "exiting" THEN "released" ELSE @]]
  /\ sent' \in SUBSET sent
  /\ UNCHANGED <<sockets, lastId>>

-----------------------------------------------------------------------------
QueueStep ==
  \/ Allocate \/ SamePort \/ Pick \/ Probe \/ Register \/ ReleaseAllocation
  \/ ReleaseScan \/ ReleaseRoute \/ Removed

ClientStep(c) ==
  \/ Ask(c) \/ JoinSender(c) \/ Bind(c) \/ Close(c) \/ Exit(c) \/ Ends(c)
  \/ Crash(c) \/ RemoveRow(c) \/ \E k \in Clients : HandOver(c, k)

Next ==
  \/ QueueStep \/ UseCache \/ Expires \/ GraceEnds \/ daemonStatus
  \/ ForeignBinds \/ ForeignEnds \/ DaemonRestarts
  \/ \E s \in DOMAIN snap : Scan(s) \/ Scanned(s) \/ Recover(s) \/ Snapshot(s)
  \/ \E c \in Clients : ClientStep(c) \/ Deliver(c)

Spec == Init /\ [][Next]_vars

\* The event loop serves the queue and finishes what it began, polls come
\* periodically while a window is attached, time passes, sent messages arrive.
\* Processes, windows and users owe nothing.
FairSpec ==
  /\ Spec
  /\ WF_vars(QueueStep)
  /\ WF_vars("poll" \in DOMAIN snap /\ Scan("poll"))
  /\ \A s \in {"poll", "view"} : WF_vars(s \in DOMAIN snap /\ (Scanned(s) \/ Recover(s) \/ Snapshot(s)))
  /\ WF_vars(Expires) /\ SF_vars(GraceEnds)
  /\ \A c \in Clients : WF_vars(Deliver(c))

-----------------------------------------------------------------------------
Hosts == {Host[c] : c \in Clients}
Nets  == {Net[c] : c \in Clients}

Reservation == [id : Nat, port : Nat, net : Nets, host : Hosts,
                dir : {"send", "listen"}, actual : Nat, fresh : BOOLEAN]
Row == [id : Nat, pid : Clients \cup {Foreign}, port : Nat, net : Nets,
        term : {Terminal[c] : c \in Clients}, host : Hosts, actual : Nat,
        missing : 0..Threshold, aged : BOOLEAN]
Socket == [pid : Clients \cup {Foreign}, port : Nat, host : Hosts]
Request == [what : {"allocate", "register", "release", "exit", "remove"},
            who : Clients, arg : Nat \cup {None}]
Stage == [pc : {"begin", "same", "pick", "probe", "decide"}, at : Nat, seen : SUBSET Socket]

TypeOK ==
  /\ pending \subseteq Reservation /\ rows \subseteq Row /\ sockets \subseteq Socket
  /\ queue \in Seq(Request) /\ stage \in Stage
  /\ sent \subseteq Clients /\ lastId \in Nat

\* "without this queue, two requests can observe the same candidate port as free
\* before either pending allocation is recorded": no two reservations hold the
\* same actual endpoint, and both sides of a logical endpoint share one.
PendingExclusive ==
  \A a, b \in pending :
    \/ <<a.net, a.port>> = <<b.net, b.port>>
    \/ a.actual = b.actual /\ HostMatches(a.host, b.host)
    => a = b

\* A process that listens on the endpoint of its row keeps a row for it,
\* whatever scans were under way when it registered; only a daemon restart or
\* the user takes it away.
LiveRowKept ==
  [][faults' = faults /\ ~At("remove", "begin") =>
       \A r \in rows :
         (\E l \in ListenerOn(sockets, r.actual, r.host) : l.pid = r.pid /\ l.pid # Foreign /\ client[l.pid].pc = "bound")
         => \E q \in rows' : q.actual = r.actual /\ q.port = r.port /\ q.net = r.net]_vars

\* Every request for a port is answered.
AsksAnswered == \A c \in Clients : client[c].pc = "asking" ~> client[c].pc # "asking"

\* When processes come to rest, routes and sockets agree: each listening process
\* has a row, each row has a listener, and a reservation is only kept for one.
EventuallyConsistent ==
  <>[](/\ \A l \in sockets : l.pid # Foreign => \E r \in rows : SameRoute(r, l.pid, l.port)
       /\ \A r \in rows : ListenerOn(sockets, r.actual, r.host) # {}
       /\ \A a \in pending : ListenerOn(sockets, a.actual, a.host) # {})

\* The rows, reservations and requests are typed, and the row of a server that is bound
\* stays.
LiveRowsStay == []TypeOK /\ LiveRowKept
=============================================================================
