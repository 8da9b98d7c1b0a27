------------------------ MODULE BrowserProxyTransport ------------------------
(***************************************************************************)
(* The HTTP requests of src/platform/ports/browser-network-proxy-           *)
(* transport.ts: forwardHttp, with the route lookups of resolveTarget and   *)
(* the admission queue of each upstream origin (HttpAdmissionQueue).        *)
(*                                                                          *)
(* A client that goes away destroys its socket first; the close event that  *)
(* cancels what waits for it comes a turn later.  Deadlines are events.     *)
(***************************************************************************)
EXTENDS Naturals, Sequences, FiniteSets

CONSTANTS
  Origins,        \* the upstream origins an endpoint can resolve to
  ActiveLimit,    \* maxConcurrentHttpRequests
  WaitingLimit,   \* maxQueuedHttpRequests
  HttpBudget,     \* httpRequests of ProxyResourceBudget, shared by all origins
  QueuedBudget    \* queuedHttpRequests of ProxyResourceBudget

VARIABLES
  httpRequests,   \* the requests, by number
  httpQueues,     \* origin -> its HttpAdmissionQueue
  httpLeases,     \* the permits of the budget in use
  originNow,      \* the route: its origin, and how often it changed
  httpTurns       \* route changes and failures left
httpVars == <<httpRequests, httpQueues, httpLeases, originNow, httpTurns>>

Requests == DOMAIN httpRequests
InState(s) == {r \in Requests : httpRequests[r].at = s}
clientGone(r) == httpRequests[r].client # "open"

-----------------------------------------------------------------------------
(* The admission queue works on a record of the three pieces of state.      *)

HttpState == [reqs |-> httpRequests, queues |-> httpQueues, leases |-> httpLeases]
HttpBecomes(s) == httpRequests' = s.reqs /\ httpQueues' = s.queues /\ httpLeases' = s.leases

HttpOver(s, r) == [s EXCEPT !.reqs[r].at = "done"]
Admitted(s, r, waited) ==
  [s EXCEPT !.reqs[r].permit = TRUE, !.reqs[r].waited = waited,
            !.reqs[r].grantedAt = originNow.version,
            !.reqs[r].at = IF waited THEN "rechecking" ELSE "sent",
            !.queues[s.reqs[r].origin].active = @ + 1,
            !.leases.http = @ + 1]

\* grant and finish, for the first that waits
Grant(s, r) ==
  LET out == [s EXCEPT !.queues[s.reqs[r].origin].waiting = Tail(@), !.leases.queued = @ - 1]
  IN  IF s.reqs[r].overdue \/ clientGone(r) \/ s.leases.http = HttpBudget THEN HttpOver(out, r)
      ELSE Admitted(out, r, TRUE)

\* The loop of permit: as long as there is room, the next one is granted.
RECURSIVE GrantAll(_, _)
GrantAll(s, o) ==
  IF s.queues[o].active < ActiveLimit /\ s.queues[o].waiting # <<>>
  THEN GrantAll(Grant(s, Head(s.queues[o].waiting)), o) ELSE s

ReleaseSilently(s, r) ==
  IF ~s.reqs[r].permit THEN s
  ELSE [s EXCEPT !.reqs[r].permit = FALSE, !.leases.http = @ - 1,
                 !.queues[s.reqs[r].origin].active = @ - 1]

\* permit: the release, once only
Release(s, r) ==
  IF ~s.reqs[r].permit THEN s
  ELSE GrantAll([s EXCEPT !.reqs[r].permit = FALSE, !.leases.http = @ - 1,
                          !.queues[s.reqs[r].origin].active = @ - 1], s.reqs[r].origin)

\* HttpAdmissionQueue.acquire
acquire(s, r) ==
  LET q == s.queues[s.reqs[r].origin]
  IN  IF clientGone(r) \/ s.reqs[r].overdue THEN HttpOver(s, r)
      ELSE IF q.active < ActiveLimit
           THEN IF s.leases.http = HttpBudget THEN HttpOver(s, r) ELSE Admitted(s, r, FALSE)
      ELSE IF Len(q.waiting) >= WaitingLimit \/ s.leases.queued = QueuedBudget THEN HttpOver(s, r)
      ELSE [s EXCEPT !.reqs[r].at = "queued", !.leases.queued = @ + 1,
                     !.queues[s.reqs[r].origin].waiting = Append(@, r)]

\* A lookup ends with the origin the route has now; forwardHttp asks the queue.
admitHttp(s, r) ==
  acquire([s EXCEPT !.reqs[r].origin = originNow.origin,
                    !.reqs[r].seen = originNow.version], r)

-----------------------------------------------------------------------------
(* forwardHttp                                                              *)

\* The requests are numbered as they arrive.
RequestArrives(r) ==
  /\ httpRequests[r].at = "new" /\ \A q \in 1..(r - 1) : httpRequests[q].at # "new"
  /\ httpRequests' = [httpRequests EXCEPT ![r].at = "resolving"]
  /\ UNCHANGED <<httpQueues, httpLeases, originNow, httpTurns>>

\* The first lookup answers.
Resolved(r) ==
  /\ httpRequests[r].at = "resolving"
  /\ HttpBecomes(IF clientGone(r) THEN HttpOver(HttpState, r) ELSE admitHttp(HttpState, r))
  /\ UNCHANGED <<originNow, httpTurns>>

\* The lookup after a wait answers: a permit of the same origin is used, another
\* one is given back before the request queues for its new origin.
Rechecked(r) ==
  /\ httpRequests[r].at = "rechecking"
  /\ LET same == originNow.origin = httpRequests[r].origin
     IN  HttpBecomes(IF httpRequests[r].overdue \/ (same /\ clientGone(r))
                 THEN Release(HttpOver(HttpState, r), r)
                 ELSE IF same
                 THEN [HttpState EXCEPT !.reqs[r].seen = originNow.version, !.reqs[r].at = "sent"]
                 ELSE admitHttp(Release(HttpState, r), r))
  /\ UNCHANGED <<originNow, httpTurns>>

\* A lookup fails, is refused, or times out; the catch of forwardHttp.
LookupFails(r) ==
  /\ httpRequests[r].at \in {"resolving", "rechecking"} /\ httpTurns.failures > 0
  /\ httpTurns' = [httpTurns EXCEPT !.failures = @ - 1]
  /\ HttpBecomes(Release(HttpOver(HttpState, r), r))
  /\ UNCHANGED originNow

\* The queue's timer, or the admission deadline of a lookup.
DeadlinePasses(r) ==
  /\ httpRequests[r].at \in {"queued", "rechecking"} /\ ~httpRequests[r].overdue
  /\ httpTurns.failures > 0
  /\ httpTurns' = [httpTurns EXCEPT !.failures = @ - 1]
  /\ httpRequests' = [httpRequests EXCEPT ![r].overdue = TRUE]
  /\ UNCHANGED <<httpQueues, httpLeases, originNow>>

\* finish(false): what waited is taken out of the queue.
Unqueued(s, r) ==
  [HttpOver(s, r) EXCEPT !.leases.queued = @ - 1,
     !.queues[s.reqs[r].origin].waiting = SelectSeq(@, LAMBDA x : x # r)]

\* The timer fires for a request that waits.
QueueTimeout(r) ==
  /\ httpRequests[r].at = "queued" /\ httpRequests[r].overdue
  /\ HttpBecomes(Unqueued(HttpState, r))
  /\ UNCHANGED <<originNow, httpTurns>>

\* The socket of the client is destroyed, by the client or with its listener.
SocketDestroyed(r) ==
  /\ httpRequests[r].at \notin {"new", "done"} /\ ~clientGone(r)
  /\ httpTurns.failures > 0
  /\ httpTurns' = [httpTurns EXCEPT !.failures = @ - 1]
  /\ httpRequests' = [httpRequests EXCEPT ![r].client = "destroyed"]
  /\ UNCHANGED <<httpQueues, httpLeases, originNow>>

\* The close event cancels a lookup, a wait, or the request that was sent.
CloseEvent(r) ==
  /\ httpRequests[r].client = "destroyed"
  /\ LET s == [HttpState EXCEPT !.reqs[r].client = "closed"]
         at == httpRequests[r].at
     IN  HttpBecomes(IF at = "queued" THEN Unqueued(s, r)
                 ELSE IF at \in {"resolving", "rechecking"} THEN Release(HttpOver(s, r), r)
                 ELSE IF at = "sent" THEN [s EXCEPT !.reqs[r].at = "closed"]
                 ELSE s)
  /\ UNCHANGED <<originNow, httpTurns>>

\* The upstream request closes; its permit is returned on the next turn.
UpstreamCloses(r) ==
  /\ httpRequests[r].at = "sent"
  /\ httpRequests' = [httpRequests EXCEPT ![r].at = "closed"]
  /\ UNCHANGED <<httpQueues, httpLeases, originNow, httpTurns>>

ReleaseAfterClose(r) ==
  /\ httpRequests[r].at = "closed"
  /\ HttpBecomes(Release(HttpOver(HttpState, r), r))
  /\ UNCHANGED <<originNow, httpTurns>>

\* An autoreload moves the server to another origin.
RouteMoves ==
  /\ httpTurns.moves > 0
  /\ httpTurns' = [httpTurns EXCEPT !.moves = @ - 1]
  /\ \E o \in Origins : o # originNow.origin
       /\ originNow' = [origin |-> o, version |-> originNow.version + 1]
  /\ UNCHANGED <<httpRequests, httpQueues, httpLeases>>

HttpNext ==
  \/ \E r \in Requests :
       \/ RequestArrives(r) \/ Resolved(r) \/ Rechecked(r) \/ LookupFails(r)
       \/ DeadlinePasses(r) \/ QueueTimeout(r) \/ SocketDestroyed(r) \/ CloseEvent(r)
       \/ UpstreamCloses(r) \/ ReleaseAfterClose(r)
  \/ RouteMoves

\* The requests to come, route moves and failures are given by a scene.
HttpInit(scene) ==
  /\ originNow = [origin |-> CHOOSE o \in Origins : TRUE, version |-> 0]
  /\ httpRequests = [r \in 1..scene.requests |->
       [at |-> "new", origin |-> originNow.origin, permit |-> FALSE, waited |-> FALSE,
        client |-> "open", overdue |-> FALSE, grantedAt |-> 0, seen |-> 0]]
  /\ httpQueues = [o \in Origins |-> [active |-> 0, waiting |-> <<>>]]
  /\ httpLeases = [http |-> 0, queued |-> 0]
  /\ httpTurns = [moves |-> scene.moves, failures |-> scene.failures]

-----------------------------------------------------------------------------
(* Properties                                                               *)

\* The state has its types, and the requests of a queue are those that wait
\* there, each once.
HttpTypeOK ==
  /\ \A r \in Requests : httpRequests[r].origin \in Origins
       /\ httpRequests[r].at \in {"new", "resolving", "queued", "rechecking", "sent", "closed", "done"}
       /\ (httpRequests[r].at \in {"rechecking", "sent", "closed"} <=> httpRequests[r].permit)
  /\ \A o \in Origins :
       LET w == httpQueues[o].waiting
       IN  /\ {w[k] : k \in DOMAIN w} = {r \in InState("queued") : httpRequests[r].origin = o}
           /\ Len(w) = Cardinality({w[k] : k \in DOMAIN w}) /\ Len(w) <= WaitingLimit

\* The counts of every queue and of the shared budget are the permits the
\* requests hold: no race of abort, error and close loses a permit or returns one
\* twice, and no limit is passed ("Idempotent release keeps abort/error/close
\* races from manufacturing extra capacity").
PermitsAreCounted ==
  LET Holders(o) == {r \in Requests : httpRequests[r].permit /\ httpRequests[r].origin = o}
  IN  /\ \A o \in Origins : httpQueues[o].active = Cardinality(Holders(o))
                            /\ httpQueues[o].active <= ActiveLimit
      /\ httpLeases.http = Cardinality({r \in Requests : httpRequests[r].permit})
      /\ httpLeases.http <= HttpBudget
      /\ httpLeases.queued = Cardinality(InState("queued"))
      /\ httpLeases.queued <= QueuedBudget

\* Nobody waits at an origin that has room: every release, also one of a request
\* that failed or moved to another origin, lets the next one in.
NobodyWaitsForRoom ==
  \A o \in Origins : httpQueues[o].waiting # <<>> => httpQueues[o].active = ActiveLimit

\* A request that waited is sent to an origin looked up after it was let in, not
\* to the one it queued for ("A queued POST has sent no bytes yet. Recheck after
\* waiting").
SentToAFreshTarget ==
  \A r \in InState("sent") : httpRequests[r].waited => httpRequests[r].seen >= httpRequests[r].grantedAt

\* No request is sent for a client whose socket is already destroyed, or later
\* than its admission deadline, although the close event may still be to come.
SentForAClientThatWaits ==
  [][\A r \in Requests : httpRequests[r].at # "sent" /\ httpRequests'[r].at = "sent"
       => ~clientGone(r) /\ ~httpRequests[r].overdue]_httpVars

\* The permits are those of the requests under way, each request that may go goes,
\* where it goes is known since it was let in, and nobody is sent for in vain.
PermitsFollowRequests ==
  /\ [](HttpTypeOK /\ PermitsAreCounted /\ NobodyWaitsForRoom /\ SentToAFreshTarget)
  /\ SentForAClientThatWaits
=============================================================================
