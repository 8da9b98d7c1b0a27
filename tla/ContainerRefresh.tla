--------------------------- MODULE ContainerRefresh ---------------------------
(***************************************************************************)
(* How changes of containers reach the routes of the owner window: the      *)
(* event stream of src/platform/network/container-events-watcher.ts, and in *)
(* src/extension/network-service.ts the reaction to a batch of events, the  *)
(* background poll with its slot on disk, the scoped refresh after another  *)
(* window wrote the shared state, and the two passes all of them share.     *)
(*                                                                          *)
(* A network is one Compose project with one container; its version counts  *)
(* the changes of that container.  What a pass does to the routes of one    *)
(* attachment is in ComposeAttachments.                                     *)
(***************************************************************************)
EXTENDS Naturals, Sequences, FiniteSets, SequencesExt, Maps

CONSTANTS
  RuntimeOf,   \* network -> the runtime of its attachment
  Mapped,      \* the networks whose container id is in their attachment
  MaxScopes    \* unique scopes a pending batch keeps (256)

VARIABLES
  stream,          \* the watcher and its child
  pipe,            \* events the child has written and nobody has read
  pendingChanges,  \* runtime -> scopes of the next batch
  containerWorld,  \* network -> the version that runs
  routedAt,        \* network -> the version its routes were made for
  refreshes,       \* the reaction, the two passes, the poll and the scoped refresh
  sharedScopes,    \* networks whose rows another window changed
  refreshTurns,    \* what may still happen; ownership; the slot on disk
  announced        \* networks with a change the stream has to tell of
refreshVars == <<stream, pipe, pendingChanges, containerWorld, routedAt, refreshes, sharedScopes,
                 refreshTurns, announced>>

Containers == DOMAIN RuntimeOf
Unknown == "?"
IdleRefresh == [at |-> "idle", waits |-> Unknown, changes |-> {}, nets |-> {}, session |-> <<>>, by |-> Unknown]
Tasks == {"reaction", "candidates", "reconcile", "poll", "shared"}
Refreshing(t) == refreshes[t].at # "idle"
RefreshAt(t, at) == refreshes[t].at = at /\ refreshes[t].waits = Unknown
Owns == refreshTurns.owns
Uses(what) == refreshTurns[what] > 0 /\ refreshTurns' = [refreshTurns EXCEPT ![what] = @ - 1]

-----------------------------------------------------------------------------
(* Scopes                                                                   *)

NoScopes == [projects |-> {}, containers |-> <<>>, unscoped |-> FALSE]
PendingOf(runtime) == IF runtime \in DOMAIN pendingChanges THEN pendingChanges[runtime] ELSE NoScopes

\* queueEventNotification: an event without project or container covers the runtime,
\* and so do too many of them.
Queued(scopes, e) ==
  LET known == IF e.container \in DOMAIN scopes.containers THEN scopes.containers[e.container] ELSE Unknown
      told == CASE e.container # Unknown ->
                     [scopes EXCEPT !.containers =
                        Put(@, e.container, IF e.project = Unknown THEN known ELSE e.project)]
                [] e.project # Unknown -> [scopes EXCEPT !.projects = @ \cup {e.project}]
                [] OTHER -> [scopes EXCEPT !.unscoped = TRUE]
  IN  IF scopes.unscoped THEN scopes
      ELSE IF told.unscoped \/ Cardinality(told.projects) + Cardinality(DOMAIN told.containers) > MaxScopes
      THEN [NoScopes EXCEPT !.unscoped = TRUE] ELSE told

Change(runtime, project, container) == [runtime |-> runtime, project |-> project, container |-> container]
\* deliverEventNotification: the changes of a batch.
ChangesOf(pending) ==
  UNION {LET s == pending[r]
             none == {c \in DOMAIN s.containers : s.containers[c] = Unknown}
             named == s.projects \cup {s.containers[c] : c \in DOMAIN s.containers \ none}
         IN  IF s.unscoped THEN {Change(r, Unknown, Unknown)}
             ELSE {Change(r, p, Unknown) : p \in named} \cup {Change(r, Unknown, c) : c \in none}
         : r \in DOMAIN pending}

\* An id nobody knows may belong to any attached project of the runtime.
containerRuntimeChangeNetworkIds(changes) ==
  UNION {LET affected == {n \in Containers : RuntimeOf[n] = c.runtime}
             known == affected \cap Mapped \cap {c.container}
         IN  CASE c.project # Unknown -> affected \cap {c.project}
               [] c.project = Unknown /\ known # {} -> known
               [] OTHER -> affected
         : c \in changes}

-----------------------------------------------------------------------------
(* ContainerEventsWatcher                                                   *)

NoStream == [on |-> FALSE, child |-> Unknown, healthy |-> FALSE, next |-> <<>>, restart |-> FALSE,
             reconnect |-> FALSE, debounce |-> FALSE]
runtimeExecutableCandidates == <<"docker", "podman">>

\* scheduleEventNotification
Scheduled(s, pending, reacting) ==
  [s EXCEPT !.debounce = @ \/ (s.on /\ ~reacting /\ pending # <<>>)]

\* startNextCandidate; after the last one the restart is scheduled.
Started(s, candidates) ==
  IF candidates = <<>> THEN [s EXCEPT !.next = <<>>, !.restart = TRUE]
  ELSE [s EXCEPT !.child = Head(candidates), !.next = Tail(candidates), !.healthy = FALSE]

\* markStreamHealthy and the event that proves it, if any: a stream that comes back
\* asks for everything.
Proven(events) ==
  LET runtime == stream.child
      all == (IF stream.reconnect THEN <<[project |-> Unknown, container |-> Unknown]>> ELSE <<>>) \o events
      scopes == FoldLeft(Queued, PendingOf(runtime), all)
  IN  /\ pendingChanges' = IF all = <<>> THEN pendingChanges ELSE Put(pendingChanges, runtime, scopes)
      /\ stream' = Scheduled([stream EXCEPT !.healthy = TRUE, !.reconnect = FALSE], pendingChanges', Refreshing("reaction"))
      /\ announced' = {n \in announced : stream.reconnect => RuntimeOf[n] = runtime}

ReadEvent ==
  /\ stream.child # Unknown /\ pipe # <<>> /\ pipe' = Tail(pipe)
  /\ Proven(<<Head(pipe)>>)
  /\ UNCHANGED <<containerWorld, routedAt, refreshes, sharedScopes, refreshTurns>>
Survives ==
  /\ stream.child # Unknown /\ ~stream.healthy /\ Proven(<<>>)
  /\ UNCHANGED <<pipe, containerWorld, routedAt, refreshes, sharedScopes, refreshTurns>>

\* Mutant: what was missed while the stream was down is not asked for.
StreamDownQuietly(s) == [s EXCEPT !.child = Unknown, !.healthy = FALSE]
\* handleChildEnd: what it wrote and nobody read is lost.
StreamDown(s) == [s EXCEPT !.child = Unknown, !.healthy = FALSE, !.reconnect = @ \/ s.healthy]
ChildEnds ==
  /\ stream.child # Unknown /\ Uses("deaths")
  /\ pipe' = <<>>
  /\ stream' = IF ~stream.healthy /\ stream.next # <<>> THEN Started(StreamDown(stream), stream.next)
               ELSE [StreamDown(stream) EXCEPT !.restart = TRUE]
  /\ UNCHANGED <<pendingChanges, containerWorld, routedAt, refreshes, sharedScopes, announced>>
Restart ==
  /\ stream.on /\ stream.restart
  /\ stream' = IF stream.child # Unknown THEN [stream EXCEPT !.restart = FALSE]
               ELSE Started([stream EXCEPT !.restart = FALSE], runtimeExecutableCandidates)
  /\ UNCHANGED <<pipe, pendingChanges, containerWorld, routedAt, refreshes, sharedScopes, refreshTurns, announced>>

\* deliverEventNotification.
Deliver ==
  /\ stream.debounce
  /\ stream' = [stream EXCEPT !.debounce = FALSE] /\ pendingChanges' = <<>>
  /\ refreshes' = [refreshes EXCEPT !["reaction"] =
       [IdleRefresh EXCEPT !.at = "wait1", !.changes = ChangesOf(pendingChanges)]]
  /\ UNCHANGED <<pipe, containerWorld, routedAt, sharedScopes, refreshTurns, announced>>

-----------------------------------------------------------------------------
(* Tasks                                                                    *)

\* A pass is over: who awaits it goes on.
RefreshOver(tasks, t) ==
  [x \in Tasks |-> IF x = t THEN IdleRefresh ELSE [tasks[x] EXCEPT !.waits = IF @ = t THEN Unknown ELSE @]]
\* t awaits pass s, which it begins unless it is in flight.
Asks(t, at, s, nets, session) ==
  LET waiting == [refreshes EXCEPT ![t].at = at, ![t].waits = s]
  IN  IF Refreshing(s) THEN waiting
      ELSE [waiting EXCEPT ![s] = [IdleRefresh EXCEPT !.at = "reading", !.nets = nets, !.session = session, !.by = t]]
\* A pass for other networks that is in flight is taken for the own one.
Narrowed(nets) == IF Refreshing("reconcile") THEN announced \ (nets \ refreshes["reconcile"].nets) ELSE announced

\* The runtime is listed; a network of another runtime is listed by the pass.
Listed(t) ==
  LET missing == {n \in Containers : n \notin DOMAIN refreshes[t].session}
  IN  [n \in missing |-> containerWorld[n]] @@ refreshes[t].session
ReadContainers(t) ==
  /\ t \in {"candidates", "reconcile"} /\ RefreshAt(t, "reading")
  /\ \/ /\ refreshes' = [refreshes EXCEPT ![t].at = "read", ![t].session = Listed(t)]
        /\ UNCHANGED refreshTurns
     \/ Uses("faults") /\ refreshes' = [refreshes EXCEPT ![t].at = "read"]
  /\ UNCHANGED <<stream, pipe, pendingChanges, containerWorld, routedAt, sharedScopes, announced>>

\* refreshContainerServicesExclusive: the session stays with the task that began it.
CandidatesEnd ==
  /\ RefreshAt("candidates", "read")
  /\ LET by == refreshes["candidates"].by
         done == RefreshOver(refreshes, "candidates")
     IN  refreshes' = IF by \in Tasks THEN [done EXCEPT ![by].session = refreshes["candidates"].session] ELSE done
  /\ UNCHANGED <<stream, pipe, pendingChanges, containerWorld, routedAt, sharedScopes, refreshTurns, announced>>

\* reconcileComposeAttachmentPublishedPorts: the routes of the networks it is for.
ReconcileEnd ==
  /\ RefreshAt("reconcile", "read")
  /\ LET pass == refreshes["reconcile"]
         seen == pass.nets \cap DOMAIN pass.session
     IN  /\ routedAt' = [n \in Containers |-> IF n \in seen THEN pass.session[n] ELSE routedAt[n]]
         /\ announced' = announced \ (pass.nets \ seen)
  /\ refreshes' = RefreshOver(refreshes, "reconcile")
  /\ UNCHANGED <<stream, pipe, pendingChanges, containerWorld, sharedScopes, refreshTurns>>

-----------------------------------------------------------------------------
(* handleContainerRuntimeEvent                                              *)

Waits == <<"shared", "poll", "candidates", "reconcile">>
InFlight(t) == IF t = "poll" THEN refreshes[t].at \in {"candidates", "reconcile"} ELSE Refreshing(t)
\* Older reads are waited for, one after the other.
ReactionWaits ==
  /\ \E k \in 1..4 :
       /\ RefreshAt("reaction", "wait" \o ToString(k))
       /\ refreshes' = [refreshes EXCEPT !["reaction"].at = IF k = 4 THEN "ready" ELSE "wait" \o ToString(k + 1),
                          !["reaction"].waits = IF InFlight(Waits[k]) THEN Waits[k] ELSE Unknown]
  /\ UNCHANGED <<stream, pipe, pendingChanges, containerWorld, routedAt, sharedScopes, refreshTurns, announced>>
\* The batch is done; what came meanwhile is scheduled.
ReactionEnds ==
  /\ refreshes' = RefreshOver(refreshes, "reaction")
  /\ stream' = Scheduled(stream, pendingChanges, FALSE)
React ==
  /\ RefreshAt("reaction", "ready")
  /\ LET nets == containerRuntimeChangeNetworkIds(refreshes["reaction"].changes)
         asked == Asks("reaction", "listed", "candidates", {}, <<>>)
     IN  IF ~Owns \/ (nets = {} /\ ~refreshTurns.sidebar) THEN ReactionEnds
         ELSE refreshes' = [asked EXCEPT !["reaction"].nets = nets] /\ UNCHANGED stream
  /\ UNCHANGED <<pipe, pendingChanges, containerWorld, routedAt, sharedScopes, refreshTurns, announced>>
ReactionReconciles ==
  /\ RefreshAt("reaction", "listed")
  /\ LET task == refreshes["reaction"] IN
     IF task.nets = {} \/ ~Owns THEN ReactionEnds /\ UNCHANGED announced
     ELSE /\ refreshes' = Asks("reaction", "write", "reconcile", task.nets, task.session)
          /\ announced' = Narrowed(task.nets)
          /\ UNCHANGED stream
  /\ UNCHANGED <<pipe, pendingChanges, containerWorld, routedAt, sharedScopes, refreshTurns>>
\* writeComposeProjectRoutingFile
ReactionWrites ==
  /\ RefreshAt("reaction", "write") /\ ReactionEnds
  /\ UNCHANGED <<pipe, pendingChanges, containerWorld, routedAt, sharedScopes, refreshTurns, announced>>

-----------------------------------------------------------------------------
(* refreshBackgroundContainerState, tryAcquireSharedBackgroundContainerRefreshSlot *)

\* A tick of the routing loop first hands on scopes that failed, then polls, if the slot
\* is free or its holder is long gone.
RoutingTick ==
  /\ RefreshAt("poll", "idle") /\ Owns /\ Uses("polls")
  /\ IF sharedScopes.nets # {} /\ ~Refreshing("shared")
     THEN /\ sharedScopes' = [sharedScopes EXCEPT !.queued = TRUE]
          /\ refreshes' = [refreshes EXCEPT !["shared"].at = "begin", !["poll"].at = "due", !["poll"].waits = "shared"]
     ELSE /\ UNCHANGED sharedScopes
          /\ refreshes' = [refreshes EXCEPT !["poll"].at = "due",
                             !["poll"].waits = IF sharedScopes.nets # {} THEN "shared" ELSE Unknown]
  /\ UNCHANGED <<stream, pipe, pendingChanges, containerWorld, routedAt, announced>>
Poll ==
  /\ RefreshAt("poll", "due")
  /\ IF Owns /\ refreshTurns.slot # "foreign"
     THEN /\ refreshes' = Asks("poll", "candidates", "candidates", {}, <<>>)
          /\ refreshTurns' = [refreshTurns EXCEPT !.slot = "mine"]
     ELSE refreshes' = RefreshOver(refreshes, "poll") /\ UNCHANGED refreshTurns
  /\ UNCHANGED <<stream, pipe, pendingChanges, containerWorld, routedAt, sharedScopes, announced>>
PollReconciles ==
  /\ RefreshAt("poll", "candidates") /\ Owns
  /\ refreshes' = Asks("poll", "reconcile", "reconcile", Containers, refreshes["poll"].session)
  /\ announced' = Narrowed(Containers)
  /\ UNCHANGED <<stream, pipe, pendingChanges, containerWorld, routedAt, sharedScopes, refreshTurns>>
PollEnds ==
  /\ RefreshAt("poll", "reconcile") \/ (RefreshAt("poll", "candidates") /\ ~Owns)
  /\ refreshes' = RefreshOver(refreshes, "poll")
  /\ refreshTurns' = [refreshTurns EXCEPT !.slot = "free"]
  /\ UNCHANGED <<stream, pipe, pendingChanges, containerWorld, routedAt, sharedScopes, announced>>

-----------------------------------------------------------------------------
(* refreshSharedNetworkRoutingState                                         *)

\* Another window changed the rows of a network.
SharedStateChanges ==
  /\ Uses("shares") /\ Owns
  /\ \E n \in Containers :
       sharedScopes' = [queued |-> TRUE, nets |-> sharedScopes.nets \cup {n}, changed |-> sharedScopes.changed \cup {n}]
  /\ refreshes' = IF Refreshing("shared") THEN refreshes ELSE [refreshes EXCEPT !["shared"].at = "begin"]
  /\ UNCHANGED <<stream, pipe, pendingChanges, containerWorld, routedAt, announced>>
\* The end of a round: again if asked meanwhile.
SharedOver(scopes) ==
  /\ sharedScopes' = scopes
  /\ refreshes' = IF scopes.queued /\ Owns THEN [refreshes EXCEPT !["shared"] = [IdleRefresh EXCEPT !.at = "begin"]]
                  ELSE RefreshOver(refreshes, "shared")
SharedBegins ==
  /\ RefreshAt("shared", "begin")
  /\ IF Owns
     THEN /\ refreshes' = [refreshes EXCEPT !["shared"].at = "prepare", !["shared"].nets = sharedScopes.nets]
          /\ sharedScopes' = [sharedScopes EXCEPT !.queued = FALSE, !.nets = {}]
     ELSE SharedOver([queued |-> FALSE, nets |-> {}, changed |-> {}])
  /\ UNCHANGED <<stream, pipe, pendingChanges, containerWorld, routedAt, refreshTurns, announced>>
\* Exposures, host access, overrides, or later the files, fail: the scopes are kept.
SharedFails ==
  /\ RefreshAt("shared", "prepare") \/ RefreshAt("shared", "publish")
  /\ Uses("faults")
  /\ SharedOver(IF Owns THEN [sharedScopes EXCEPT !.nets = @ \cup refreshes["shared"].nets] ELSE sharedScopes)
  /\ UNCHANGED <<stream, pipe, pendingChanges, containerWorld, routedAt, announced>>
SharedReconciles ==
  /\ RefreshAt("shared", "prepare")
  /\ LET nets == refreshes["shared"].nets IN
     IF ~Owns THEN SharedOver(sharedScopes) /\ UNCHANGED announced
     ELSE /\ refreshes' = IF nets = {} THEN [refreshes EXCEPT !["shared"].at = "publish"]
                          ELSE Asks("shared", "publish", "reconcile", nets, <<>>)
          /\ announced' = Narrowed(nets)
          /\ UNCHANGED sharedScopes
  /\ UNCHANGED <<stream, pipe, pendingChanges, containerWorld, routedAt, refreshTurns>>
SharedPublishes ==
  /\ RefreshAt("shared", "publish")
  /\ SharedOver([sharedScopes EXCEPT !.changed = IF Owns THEN @ \ (refreshes["shared"].nets \ sharedScopes.nets) ELSE @])
  /\ UNCHANGED <<stream, pipe, pendingChanges, containerWorld, routedAt, refreshTurns, announced>>

-----------------------------------------------------------------------------
(* Ownership and the world                                                  *)

\* demoteControlPlaneOwner stops the stream (dispose).
Demote ==
  /\ Owns /\ refreshTurns.moves > 0
  /\ refreshTurns' = [refreshTurns EXCEPT !.moves = @ - 1, !.owns = FALSE]
  /\ stream' = NoStream /\ pipe' = <<>> /\ pendingChanges' = <<>> /\ announced' = {}
  /\ sharedScopes' = [queued |-> FALSE, nets |-> {}, changed |-> {}]
  /\ UNCHANGED <<containerWorld, routedAt, refreshes>>
\* syncContainerEventsWatcher of a new owner: a new watcher.  Bound: the reaction of the
\* old one has ended.  The passes of the promotion itself are in ControlPlaneOwner.
Promote ==
  /\ ~Owns /\ ~Refreshing("reaction") /\ refreshTurns.moves > 0
  /\ refreshTurns' = [refreshTurns EXCEPT !.moves = @ - 1, !.owns = TRUE]
  /\ stream' = Started([NoStream EXCEPT !.on = TRUE], runtimeExecutableCandidates)
  /\ UNCHANGED <<pipe, pendingChanges, containerWorld, routedAt, refreshes, sharedScopes, announced>>
\* refreshContainerServices of a command.
CommandLists ==
  /\ Uses("lists") /\ ~Refreshing("candidates")
  /\ refreshes' = [refreshes EXCEPT !["candidates"] = [IdleRefresh EXCEPT !.at = "reading"]]
  /\ UNCHANGED <<stream, pipe, pendingChanges, containerWorld, routedAt, sharedScopes, announced>>

\* A container changes.  A healthy stream tells of it, with the project, the container,
\* both or neither; one that is not healthy yet may not have subscribed.
ContainerChanges(n) ==
  /\ n \in refreshTurns.may /\ Uses("changes")
  /\ containerWorld' = [containerWorld EXCEPT ![n] = @ + 1]
  /\ \/ /\ stream.child = RuntimeOf[n]
        /\ \E p, c \in {n, Unknown} : pipe' = Append(pipe, [project |-> p, container |-> c])
     \/ /\ ~(stream.child = RuntimeOf[n] /\ stream.healthy)
        /\ UNCHANGED pipe
  /\ announced' = IF stream.reconnect \/ (stream.child = RuntimeOf[n] /\ stream.healthy)
                  THEN announced \cup {n} ELSE announced
  /\ UNCHANGED <<stream, pendingChanges, routedAt, refreshes, sharedScopes>>

\* An event of a project that is not attached.
OtherChanges ==
  /\ stream.child # Unknown /\ Uses("others")
  /\ pipe' = Append(pipe, [project |-> "other", container |-> Unknown])
  /\ UNCHANGED <<stream, pendingChanges, containerWorld, routedAt, refreshes, sharedScopes, announced>>

RefreshNext ==
  \/ ReadEvent \/ Survives \/ ChildEnds \/ Restart \/ Deliver
  \/ \E t \in Tasks : ReadContainers(t)
  \/ CandidatesEnd \/ ReconcileEnd
  \/ ReactionWaits \/ React \/ ReactionReconciles \/ ReactionWrites
  \/ RoutingTick \/ Poll \/ PollReconciles \/ PollEnds
  \/ SharedStateChanges \/ SharedBegins \/ SharedFails \/ SharedReconciles \/ SharedPublishes
  \/ Demote \/ Promote \/ CommandLists \/ OtherChanges
  \/ \E n \in Containers : ContainerChanges(n)

RefreshInit(scene) ==
  /\ stream = scene.stream /\ pipe = <<>> /\ pendingChanges = <<>>
  /\ containerWorld = [n \in Containers |-> 0] /\ routedAt = containerWorld
  /\ refreshes = [t \in Tasks |-> IdleRefresh]
  /\ sharedScopes = [queued |-> FALSE, nets |-> {}, changed |-> {}]
  /\ refreshTurns = scene.turns /\ announced = {}

-----------------------------------------------------------------------------
(* Properties                                                               *)

\* A batch waits for its timer or for the reaction that runs; a watcher that was
\* disposed has neither timer, child nor batch; the slot is held by a poll alone.
StreamIsConsistent ==
  /\ pendingChanges # <<>> => stream.on /\ (stream.debounce \/ Refreshing("reaction"))
  /\ stream.debounce => ~Refreshing("reaction")
  /\ ~stream.on => stream = NoStream
  /\ stream.on => stream.child # Unknown \/ stream.restart
  /\ (refreshTurns.slot = "mine") <=> InFlight("poll")
  /\ sharedScopes.queued => Refreshing("shared")

\* A change the stream knows of, or missed while it was down, and that is not routed yet,
\* is in an event, in a batch, or in the hands of a pass that has read it or will.
ChangeIsUnderWay(n) ==
  LET Fresh(session) == n \in DOMAIN session => session[n] = containerWorld[n]
      reaction == refreshes["reaction"]
      listing == refreshes["candidates"]
      pass == refreshes["reconcile"]
  IN  \/ stream.reconnect
      \/ \E k \in DOMAIN pipe :
           n \in containerRuntimeChangeNetworkIds(
                   ChangesOf(stream.child :> Queued(PendingOf(stream.child), pipe[k])))
      \/ n \in containerRuntimeChangeNetworkIds(ChangesOf(pendingChanges))
      \/ n \in containerRuntimeChangeNetworkIds(reaction.changes)
         /\ reaction.at \in {"wait1", "wait2", "wait3", "wait4", "ready"}
      \/ /\ reaction.at = "listed" /\ n \in reaction.nets
         /\ Fresh(IF reaction.waits # Unknown /\ listing.by = "reaction" THEN listing.session ELSE reaction.session)
      \/ Refreshing("reconcile") /\ n \in pass.nets /\ Fresh(pass.session)
ChangesAreUnderWay ==
  \A n \in announced : routedAt[n] # containerWorld[n] => ChangeIsUnderWay(n)

\* A network whose rows another window changed is reconciled, or kept for a later tick.
ScopesAreKept ==
  sharedScopes.changed \subseteq sharedScopes.nets \cup refreshes["shared"].nets

\* Every change of a container that the owner can know of reaches the routes.
ChangesReachRoutes == StreamIsConsistent /\ ChangesAreUnderWay /\ ScopesAreKept
=============================================================================
