----------------------- MODULE RouteTablePublication -----------------------
(***************************************************************************)
(* How PortManagerAgent keeps the sharded route files that native hooks    *)
(* read in step with its memory, across failed writes, daemon crashes and  *)
(* two daemon generations that overlap.                                    *)
(*                                                                         *)
(* A route has an entry file, a file per Compose claim and, when scoped, a *)
(* network table; PathsOf lists them.  A file holds the routes of its path *)
(* and the generation that wrote it; of a generation only the daemon is    *)
(* kept, because a daemon's own sequence numbers only grow.  A file is     *)
(* `due` once its TTL metadata asks for a rewrite.  Writing a file is two  *)
(* steps, the generation check and the rename, because another daemon may  *)
(* act between them.                                                       *)
(***************************************************************************)
EXTENDS Naturals, FiniteSets

CONSTANTS
  Routes,        \* possible logical routes
  Paths,         \* route files
  NetworkPaths,  \* the paths that are network tables
  ClaimPaths,    \* the paths that are Compose claim files
  PathsOf,       \* PathsOf[r]: the files that list route r
  IdentityOf,    \* IdentityOf[r]: r's network, logical port and direction
  Daemons,       \* 1..n in order of writerStartedAtMs
  Budgets,       \* what a behaviour may use, see Init
  None

ASSUME RouteBudgets ==
  Budgets \subseteq
    [routes    : SUBSET Routes,    \* the routes that operations may set,
     live      : Nat,              \* how many daemons may run at once,
     ops       : Nat,              \* and how many route changes,
     snapshots : Nat,              \* snapshots whose routes are published later,
     faults    : Nat,              \* failed writes and removals,
     crashes   : Nat]              \* and crashes there may be

VARIABLES
  files,   \* path -> None or [routes, writer, due]
  daemon,  \* daemon -> its memory
  pub,     \* daemon -> None or the publication in progress
  budget   \* what is left of the bounds

vars == <<files, daemon, pub, budget>>

\* The phases of a publication: entry files, claim files, network tables.
PathsOfKind(k) ==
  CASE k = 1 -> Paths \ (NetworkPaths \cup ClaimPaths)
    [] k = 2 -> ClaimPaths
    [] k = 3 -> NetworkPaths

RoutesFor(path, routes) == {r \in routes : path \in PathsOf[r]}
CurrentPaths(routes) == UNION {PathsOf[r] : r \in routes}

\* A daemon's memory; one that has not started or has exited has none.
Fresh(tracked) ==
  [state |-> "up", routes |-> {}, written |-> tracked,
   signatures |-> [p \in Paths |-> None], dirty |-> FALSE,
   flushTimer |-> FALSE, flushInFlight |-> FALSE, snapshot |-> None]

Up(d) == daemon[d].state = "up"

Init ==
  /\ files = [p \in Paths |-> None]
  /\ daemon = [d \in Daemons |-> IF d = 1 THEN Fresh({}) ELSE [state |-> "new"]]
  /\ pub = [d \in Daemons |-> None]
  /\ budget \in Budgets

Spend(what) == budget[what] > 0 /\ budget' = [budget EXCEPT ![what] = @ - 1]

\* Daemon d runs an event-loop turn of its own: it is up and not inside a
\* synchronous publication.
Idle(d) == Up(d) /\ pub[d] = None

-----------------------------------------------------------------------------
(* Starting a publication.                                                 *)

\* isRouteTablePathNewerThanGeneration: a newer generation blocks only while
\* its owner process is alive.
NewerThan(path, d) ==
  files[path] # None /\ files[path].writer > d /\ Up(files[path].writer)

\* canPublishRouteTableGeneration: the network tables own the generation.
canPublishRouteTableGeneration(d, written, routes) ==
  \A p \in NetworkPaths \cap (written \cup CurrentPaths(routes)) : ~NewerThan(p, d)

\* The paths writeRouteTableGeneration rewrites in phase k: the files of the
\* current routes and, for network tables, also the ones written before.
ToWrite(k, written, routes) ==
  PathsOfKind(k) \cap
    (CurrentPaths(routes) \cup IF k = 3 THEN written ELSE {})

\* writeRouteTable starts publishing routes; `then` is what its caller does
\* with the result.
Publication(routes, written, then) ==
  [routes |-> routes, kind |-> 1, todo |-> ToWrite(1, written, routes),
   current |-> {}, removing |-> FALSE, stale |-> {}, checked |-> None,
   ok |-> TRUE, then |-> then]

\* The process of d ends, wherever its publication is.
Exit(d) ==
  /\ daemon' = [daemon EXCEPT ![d] = [state |-> "dead"]]
  /\ pub' = [pub EXCEPT ![d] = None]

\* d's memory becomes mem and it publishes routes, or the publication throws
\* because a newer generation owns a network table.  The throw is the response
\* of a client's request; for a background caller it is a server error, on
\* which the daemon exits.
PublishRouteTable(d, mem, routes, then, caller) ==
  IF canPublishRouteTableGeneration(d, mem.written, routes)
  THEN /\ daemon' = [daemon EXCEPT ![d] = mem]
       /\ pub' = [pub EXCEPT ![d] = Publication(routes, mem.written, then)]
  ELSE IF caller = "request"
  THEN daemon' = [daemon EXCEPT ![d] = mem] /\ UNCHANGED pub
  ELSE Exit(d)

-----------------------------------------------------------------------------
(* The steps of a publication.                                             *)

SkipsSameSignature(d, path, content) == daemon[d].signatures[path] = content

\* writeRouteTableFile up to its generation check: refuse, keep an unchanged
\* file, or decide to write.
SkipsUnchanged(d, path, content) ==
  /\ daemon[d].signatures[path] = content /\ files[path] # None
  /\ ~files[path].due \/ content = {}

CheckFile(d, path) ==
  /\ Up(d) /\ pub[d] # None /\ pub[d].checked = None /\ path \in pub[d].todo
  /\ LET content == RoutesFor(path, pub[d].routes)
     IN pub' = [pub EXCEPT ![d] =
          IF NewerThan(path, d)
          THEN [@ EXCEPT !.todo = @ \ {path}, !.ok = FALSE]
          ELSE IF SkipsUnchanged(d, path, content)
          THEN [@ EXCEPT !.todo = @ \ {path}, !.current = @ \cup {path}]
          ELSE [@ EXCEPT !.checked = path]]
  /\ UNCHANGED <<files, daemon, budget>>

\* writeAtomicRouteTableFile renames the new file into place, or throws.
RenameFile(d) ==
  /\ Up(d) /\ pub[d] # None /\ pub[d].checked \in pub[d].todo
  /\ LET path    == pub[d].checked
         content == RoutesFor(path, pub[d].routes)
     IN \/ /\ files' = [files EXCEPT ![path] =
                          [routes |-> content, writer |-> d, due |-> FALSE]]
           /\ daemon' = [daemon EXCEPT ![d].signatures[path] = content]
           /\ pub' = [pub EXCEPT ![d].todo = @ \ {path}, ![d].checked = None,
                                 ![d].current = @ \cup {path}]
           /\ UNCHANGED budget
        \/ /\ Spend("faults")
           /\ pub' = [pub EXCEPT ![d].todo = @ \ {path}, ![d].checked = None,
                                 ![d].ok = FALSE]
           /\ UNCHANGED <<files, daemon>>

\* All files of the kind are written: its other tracked files are stale, except
\* that network tables were rewritten as empty tables instead.
StaleFiles(d) ==
  IF pub[d].kind = 3 THEN {}
  ELSE (daemon[d].written \cap PathsOfKind(pub[d].kind)) \ pub[d].current

FindStale(d) ==
  /\ Up(d) /\ pub[d] # None /\ pub[d].todo = {} /\ ~pub[d].removing
  /\ pub' = [pub EXCEPT ![d].removing = TRUE, ![d].stale = StaleFiles(d)]
  /\ UNCHANGED <<files, daemon, budget>>

\* One stale file: a newer generation keeps it; otherwise it is checked and
\* then removed, or the removal throws.
CheckStale(d, path) ==
  /\ Up(d) /\ pub[d] # None /\ pub[d].checked = None /\ path \in pub[d].stale
  /\ pub' = [pub EXCEPT ![d] =
       IF NewerThan(path, d) THEN [@ EXCEPT !.stale = @ \ {path}, !.ok = FALSE]
       ELSE [@ EXCEPT !.checked = path]]
  /\ UNCHANGED <<files, daemon, budget>>

RemoveStale(d) ==
  /\ Up(d) /\ pub[d] # None /\ pub[d].checked \in pub[d].stale
  /\ LET path == pub[d].checked
     IN \/ /\ files' = [files EXCEPT ![path] = None]
           /\ daemon' = [daemon EXCEPT ![d].signatures[path] = None]
           /\ pub' = [pub EXCEPT ![d].stale = @ \ {path}, ![d].checked = None]
           /\ UNCHANGED budget
        \/ /\ Spend("faults")
           /\ pub' = [pub EXCEPT ![d].stale = @ \ {path}, ![d].checked = None,
                                 ![d].ok = FALSE]
           /\ UNCHANGED <<files, daemon>>

\* What the daemon tracks after a phase: exactly the files it wrote, whatever
\* became of the stale ones; a network table it failed to write stays tracked.
Tracked(written, p) ==
  IF p.kind = 3
  THEN (written \ p.current) \cup (p.current \cap CurrentPaths(p.routes))
  ELSE (written \ PathsOfKind(p.kind)) \cup p.current

\* markRouteTableDirty and queueRouteTableFlush
QueueFlush(mem) ==
  [mem EXCEPT !.dirty = TRUE, !.flushTimer = @ \/ ~mem.flushInFlight]

\* The caller of writeRouteTable: publishRouteTableBestEffort,
\* flushQueuedRouteTable or the constructor, which ignores the result.
Finish(mem, p) ==
  CASE p.then = "start" -> mem
    [] p.then = "bestEffort" ->
         IF p.ok THEN [mem EXCEPT !.dirty = FALSE] ELSE QueueFlush(mem)
    [] p.then = "flush" ->
         LET settled == [mem EXCEPT !.flushInFlight = FALSE]
         IN  IF p.ok THEN [settled EXCEPT !.dirty = FALSE] ELSE QueueFlush(settled)

NextPhase(d) ==
  /\ Up(d) /\ pub[d] # None /\ pub[d].removing /\ pub[d].stale = {}
  /\ LET p   == pub[d]
         mem == [daemon[d] EXCEPT !.written = Tracked(@, p)]
         k   == p.kind + 1
     IN  IF p.kind = 3
         THEN /\ daemon' = [daemon EXCEPT ![d] = Finish(mem, p)]
              /\ pub' = [pub EXCEPT ![d] = None]
         ELSE /\ daemon' = [daemon EXCEPT ![d] = mem]
              /\ pub' = [pub EXCEPT ![d] =
                   [p EXCEPT !.kind = k, !.todo = ToWrite(k, mem.written, p.routes),
                             !.current = {}, !.removing = FALSE]]
  /\ UNCHANGED <<files, budget>>

-----------------------------------------------------------------------------
(* What makes a daemon publish.                                            *)

Callers == {"request", "background"}

\* dedupeLogicalRoutes keeps one route per identity.
Tables == {R \in SUBSET Routes :
             \A r, s \in R : IdentityOf[r] = IdentityOf[s] => r = s}

\* Any operation that changes the routes and publishes them: a request
\* (allocate, register, release, stop...), a child's exit or the reconciliation
\* of listeners.
Operation(d, routes, caller) ==
  /\ Idle(d) /\ routes # daemon[d].routes /\ routes \subseteq budget.routes
  /\ Spend("ops")
  /\ PublishRouteTable(d, [daemon[d] EXCEPT !.routes = routes], routes,
                       "bestEffort", caller)
  /\ UNCHANGED files

\* flushRouteTables: a request that publishes the routes as they are.
FlushRouteTables(d) ==
  /\ Idle(d)
  /\ PublishRouteTable(d, daemon[d], daemon[d].routes, "bestEffort", "request")
  /\ UNCHANGED <<files, budget>>

HeartbeatWhenDirty(d) ==
  /\ Idle(d) /\ daemon[d].dirty
  /\ PublishRouteTable(d, daemon[d], daemon[d].routes, "bestEffort", "background")
  /\ UNCHANGED <<files, budget>>

\* refreshRouteTableHeartbeat
Heartbeat(d) ==
  /\ Idle(d) /\ daemon[d].routes # {}
  /\ PublishRouteTable(d, daemon[d], daemon[d].routes, "bestEffort", "background")
  /\ UNCHANGED <<files, budget>>

\* buildSnapshot computes the routes, awaits the OS connection table, and only
\* then are those routes published: by itself, for a request or a poll, or by
\* refreshSnapshot.
SnapshotBuilt(d) ==
  /\ Idle(d) /\ daemon[d].snapshot = None /\ Spend("snapshots")
  /\ daemon' = [daemon EXCEPT ![d].snapshot = daemon[d].routes]
  /\ UNCHANGED <<files, pub>>

SnapshotPublished(d, caller) ==
  /\ Idle(d) /\ daemon[d].snapshot # None
  /\ PublishRouteTable(d, [daemon[d] EXCEPT !.snapshot = None], daemon[d].snapshot,
                       "bestEffort", caller)
  /\ UNCHANGED <<files, budget>>

\* repairRoutingState forgets the signatures before it publishes.
RepairRoutingState(d) ==
  /\ Idle(d) /\ daemon[d].snapshot # None
  /\ PublishRouteTable(d,
       [daemon[d] EXCEPT !.snapshot = None, !.signatures = [p \in Paths |-> None]],
       daemon[d].snapshot, "bestEffort", "request")
  /\ UNCHANGED <<files, budget>>

FlushTimerFires(d) ==
  /\ Idle(d) /\ daemon[d].flushTimer
  /\ daemon' = [daemon EXCEPT ![d].flushTimer = FALSE,
                              ![d].flushInFlight = @ \/ daemon[d].dirty]
  /\ UNCHANGED <<files, pub, budget>>

\* flushQueuedRouteTable when its turn in the exclusive queue comes.
FlushQueuedRouteTable(d) ==
  /\ Idle(d) /\ daemon[d].flushInFlight
  /\ IF daemon[d].dirty
     THEN PublishRouteTable(d, daemon[d], daemon[d].routes, "flush", "background")
     ELSE /\ daemon' = [daemon EXCEPT ![d].flushInFlight = FALSE]
          /\ UNCHANGED pub
  /\ UNCHANGED <<files, budget>>

adoptNothing == {}

\* The files of earlier generations a new daemon finds and tracks.
adoptPreviousGenerationRouteFiles == {p \in Paths : files[p] # None}

\* A new daemon: the constructor publishes its empty table over what it adopts.
DaemonStarts(d) ==
  /\ daemon[d].state = "new" /\ \A e \in 1..(d - 1) : daemon[e].state # "new"
  /\ Cardinality({e \in Daemons : Up(e)}) < budget.live
  /\ PublishRouteTable(d, Fresh(adoptPreviousGenerationRouteFiles), {}, "start", "background")
  /\ UNCHANGED <<files, budget>>

\* A crash, a kill or the end of shutdownDaemon.
DaemonCrashes(d) == Up(d) /\ Spend("crashes") /\ Exit(d) /\ UNCHANGED files

\* The client that starts a daemon has sent SIGTERM to its older siblings.
SupersededExits(d) ==
  /\ Up(d) /\ \E e \in Daemons : e > d /\ Up(e)
  /\ Exit(d)
  /\ UNCHANGED <<files, budget>>

\* The TTL metadata of a file asks for a rewrite.
FileFallsDue(path) ==
  /\ files[path] # None /\ ~files[path].due
  /\ files' = [files EXCEPT ![path].due = TRUE]
  /\ UNCHANGED <<daemon, pub, budget>>

-----------------------------------------------------------------------------
PublicationStep(d) ==
  \/ \E path \in Paths : CheckFile(d, path) \/ CheckStale(d, path)
  \/ RenameFile(d)
  \/ FindStale(d)
  \/ RemoveStale(d)
  \/ NextPhase(d)

DaemonStep(d) ==
  \/ \E routes \in Tables, caller \in Callers : Operation(d, routes, caller)
  \/ FlushRouteTables(d)
  \/ Heartbeat(d)
  \/ SnapshotBuilt(d)
  \/ \E caller \in Callers : SnapshotPublished(d, caller)
  \/ RepairRoutingState(d)
  \/ FlushTimerFires(d)
  \/ FlushQueuedRouteTable(d)
  \/ DaemonStarts(d)
  \/ DaemonCrashes(d)
  \/ SupersededExits(d)

Next ==
  \/ \E d \in Daemons : PublicationStep(d) \/ DaemonStep(d)
  \/ \E path \in Paths : FileFallsDue(path)

Spec == Init /\ [][Next]_vars

\* A running daemon finishes what it publishes, its timers and its heartbeat
\* fire, files age, and a daemon that was sent SIGTERM exits.
Fairness ==
  /\ \A d \in Daemons :
       /\ WF_vars(PublicationStep(d))
       /\ WF_vars(Heartbeat(d))
       /\ WF_vars(FlushTimerFires(d))
       /\ WF_vars(FlushQueuedRouteTable(d))
       /\ WF_vars(SupersededExits(d))
  /\ \A path \in Paths : WF_vars(FileFallsDue(path))

FairSpec == Spec /\ Fairness

-----------------------------------------------------------------------------
TypeOK ==
  /\ files \in [Paths -> {None} \cup
       [routes : SUBSET Routes, writer : Daemons, due : BOOLEAN]]
  /\ \A d \in Daemons :
       /\ daemon[d].state \in {"new", "up", "dead"}
       /\ Up(d) =>
            /\ daemon[d].routes \in Tables
            /\ daemon[d].written \subseteq Paths
            /\ daemon[d].signatures \in [Paths -> {None} \cup SUBSET Routes]
       /\ pub[d] # None =>
            /\ Up(d) /\ pub[d].routes \in Tables
            /\ pub[d].todo \cup pub[d].stale \cup pub[d].current
                 \subseteq PathsOfKind(pub[d].kind)

\* routeTableDirty is "true when in-memory routing state has not yet been
\* published to route files": when the only daemon is not dirty, every file
\* lists exactly the routes of its memory and no file of a removed route, of an
\* interrupted publication or of a dead daemon is left.
CleanMeansPublished ==
  \A d \in Daemons :
    Idle(d) /\ ~daemon[d].dirty /\ (\A e \in Daemons \ {d} : ~Up(e)) =>
      \A p \in Paths :
        RoutesFor(p, daemon[d].routes) = IF files[p] = None THEN {} ELSE files[p].routes

\* ... always, in a daemon whose writes and removals succeed and which reads no
\* snapshot older than its memory, across crashes and successors.
PublishedWhenClean ==
  (budget.live = 1 /\ budget.faults = 0 /\ budget.snapshots = 0) => []CleanMeansPublished

\* A failed publication is always retried: a dirty table has its flush timer
\* armed or a flush waiting for its turn (markRouteTableDirty).
DirtyIsRetried ==
  \A d \in Daemons :
    Up(d) /\ daemon[d].dirty => daemon[d].flushTimer \/ daemon[d].flushInFlight

\* Native readers find every live route: once operations and faults stop, the
\* newest daemon's routes are in all their files, whatever write failed, stale
\* snapshot was published or older daemon overwrote or removed them.
Serves(d) ==
  \A r \in daemon[d].routes : \A p \in PathsOf[r] :
    files[p] # None /\ r \in files[p].routes

EventuallyServed ==
  <>[](\A d \in Daemons : Up(d) /\ (\A e \in Daemons : Up(e) => e <= d) => Serves(d))

\* The publication is typed, a dirty table is on its way to be written, and a clean one
\* is what the files say.
TableIsSound == [](TypeOK /\ DirtyIsRetried) /\ PublishedWhenClean
=============================================================================
