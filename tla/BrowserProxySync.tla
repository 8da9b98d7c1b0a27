-------------------------- MODULE BrowserProxySync --------------------------
(***************************************************************************)
(* How a window keeps the browser proxies in step with the routes, and lets *)
(* go of them: syncBrowserNetworkProxies, demoteBrowserNetworkProxyOwner,    *)
(* ensureBrowserNetworkProxyEndpointAsOwner and the heartbeat of             *)
(* src/extension/network-service.ts, on BrowserNetworkProxyManager.           *)
(*                                                                          *)
(* One pass runs at a time and one more may be queued.  After every await    *)
(* the pass asks whether the window still has the lease.  The lease file     *)
(* belongs to this window, to another one, or to nobody.                     *)
(***************************************************************************)
EXTENDS Naturals, Sequences, FiniteSets, SequencesExt

-----------------------------------------------------------------------------
(* BrowserNetworkProxyManager (src/platform/ports/browser-network-proxy.ts): *)
(* the listeners a browser reaches a logical network through.                *)
(*                                                                           *)
(* sync and ensure go through mutationTail, one at a time; close, retire,    *)
(* releaseAll and dispose do not wait for it, so they run at the awaits of   *)
(* the running one.  An endpoint is bound to the first free socket of its    *)
(* candidates (listenHost and listenPorts).  A socket of this window may be  *)
(* held by another program.                                                  *)

CONSTANTS
  MaxOpens   \* MAX_CONCURRENT_OPENS

VARIABLES
  bound,       \* listeners: endpoint -> its socket
  wanted,      \* desiredEndpoints: endpoint -> its candidates, a sequence of sockets
  failed,      \* bindFailures: endpoint -> the candidates that failed
  retryTimer,  \* the ownership generation of the armed timer, or 0
  retrying,    \* retryInFlight
  retiring,    \* retireTimers
  mutations,   \* mutationTail, a queue; the first one runs
  at,          \* where the running mutation stands
  opening,     \* endpoint -> the candidates left to bind, while it is opened
  ownership,   \* ownershipGeneration
  disposal,    \* "no", "waiting" or "done"
  foreign,     \* the sockets other programs hold
  proxyFaults  \* what may still happen to sockets
managerVars == <<bound, wanted, failed, retryTimer, retrying, retiring, mutations, at,
                 opening, ownership, disposal, foreign, proxyFaults>>
\* The variables that only a mutation's own steps and the managers' queue change
mutating == <<mutations, at, opening>>
world == <<foreign, proxyFaults>>

disposed == disposal # "no"
Without(f, ids) == [i \in DOMAIN f \ ids |-> f[i]]
With(f, i, v) == [j \in DOMAIN f \cup {i} |-> IF j = i THEN v ELSE f[j]]
Listening == DOMAIN bound

Begin == [pc |-> "begin", todo |-> {}, pending |-> <<>>]
Running1 == mutations[1]
Busy == mutations # <<>>
Current == Running1.gen = ownership

\* scheduleRetry: the timer is armed afresh, unless a retry is under way
scheduleRetry(fs, inFlight) ==
  IF disposed \/ inFlight \/ DOMAIN fs = {} THEN 0 ELSE ownership

\* isEndpointBindCurrent
isEndpointBindCurrent(id, candidates) == bound[id] \in Range(candidates)

-----------------------------------------------------------------------------
(* What may come at any time                                                *)

\* closeListener; the socket is free at once
Closed(ids) == Without(bound, ids)

\* close: not through the queue
close(id) ==
  /\ wanted' = Without(wanted, {id}) /\ failed' = Without(failed, {id})
  /\ retryTimer' = scheduleRetry(failed', retrying)
  /\ bound' = Closed({id})

\* The timer of scheduleRetire
RetireFires(id) ==
  /\ id \in retiring /\ retiring' = retiring \ {id}
  /\ close(id)
  /\ UNCHANGED <<retrying, mutating, ownership, disposal, world>>

\* close, of a host exposure that is removed
CloseEndpoint(id) ==
  /\ proxyFaults.closes > 0 /\ ~disposed
  /\ proxyFaults' = [proxyFaults EXCEPT !.closes = @ - 1]
  /\ close(id) /\ retiring' = retiring \ {id}
  /\ UNCHANGED <<retrying, mutating, ownership, disposal, foreign>>

\* releaseAll
releaseAll ==
  /\ ownership' = ownership + 1
  /\ wanted' = <<>> /\ failed' = <<>> /\ retryTimer' = 0
  /\ bound' = <<>> /\ retiring' = {}

\* dispose, up to the mutations under way
dispose ==
  /\ disposal = "no" /\ disposal' = "waiting"
  /\ releaseAll
  /\ UNCHANGED <<retrying, mutating>>

\* dispose, after them
DisposeEnds ==
  /\ disposal = "waiting" /\ ~Busy
  /\ disposal' = "done" /\ releaseAll
  /\ UNCHANGED <<retrying, mutating, world>>

\* retryFailedEndpointsNow
retryFailedEndpointsNow == failed' = <<>> /\ retryTimer' = 0

\* serialize
serialize(op) == mutations' = Append(mutations, op)
Sync(want, keep) == [kind |-> "sync", n |-> 0, want |-> want, keep |-> keep, gen |-> ownership]
Ensure(n, id, candidates) ==
  [kind |-> "ensure", n |-> n, want |-> (id :> candidates), keep |-> TRUE, gen |-> ownership]

\* Another program takes a socket, or gives one up.
Taken(s) ==
  /\ proxyFaults.taken > 0 /\ \A i \in Listening : bound[i] # s
  /\ foreign' = IF s \in foreign THEN foreign \ {s} ELSE foreign \cup {s}
  /\ proxyFaults' = [proxyFaults EXCEPT !.taken = @ - 1]
  /\ UNCHANGED <<bound, wanted, failed, retryTimer, retrying, retiring, mutating, ownership, disposal>>

-----------------------------------------------------------------------------
(* The running mutation                                                     *)

Finish == mutations' = Tail(mutations) /\ at' = Begin /\ opening' = <<>>

\* A mutation that the disposal or a new generation overtook does nothing.
Overtaken ==
  /\ Busy /\ at.pc = "begin" /\ (disposed \/ ~Current)
  /\ Finish
  /\ UNCHANGED <<bound, wanted, failed, retryTimer, retrying, retiring, ownership, disposal, world>>

\* syncExclusive: the desired endpoints are replaced, or joined while the view
\* is cold, and failures of other coordinates are forgotten.
SyncBegins ==
  /\ Busy /\ at.pc = "begin" /\ Running1.kind = "sync" /\ ~disposed /\ Current
  /\ wanted' = IF Running1.keep THEN Running1.want @@ wanted ELSE Running1.want
  /\ failed' = [i \in {j \in DOMAIN failed : j \in DOMAIN wanted' /\ failed[j] = wanted'[j]}
                  |-> failed[i]]
  /\ at' = [at EXCEPT !.pc = "listeners", !.todo = Listening]
  /\ UNCHANGED <<bound, retryTimer, retrying, retiring, mutations, opening, ownership, disposal, world>>

Stale(id) == id \in Listening /\ id \in DOMAIN wanted /\ ~isEndpointBindCurrent(id, wanted[id])

InOrder(ids) == SetToSortSeq(ids, <)

\* The loop over the listeners, up to one that has to be closed: the others are
\* retired or kept (reconcileListener).  After the loop come the endpoints to
\* open: not listening, and the delay after a failure is over.
SyncListeners ==
  /\ Busy /\ at.pc = "listeners" /\ Current
  /\ \E done \in SUBSET at.todo :
       /\ \A i \in done : ~Stale(i)
       /\ LET rest == at.todo \ done
              gone == {i \in done : i \notin DOMAIN wanted}
          IN  \/ /\ rest = {}
                 /\ retiring' = (retiring \ done) \cup gone
                 /\ \E waiting \in SUBSET DOMAIN failed :
                      at' = [pc |-> "open", todo |-> {},
                             pending |-> InOrder((DOMAIN wanted \ Listening) \ waiting)]
                 /\ UNCHANGED bound
              \/ \E i \in rest :
                   /\ Stale(i) /\ bound' = Closed({i})
                   /\ retiring' = ((retiring \ done) \cup gone) \ {i}
                   /\ at' = [at EXCEPT !.todo = rest \ {i}]
  /\ UNCHANGED <<wanted, failed, retryTimer, retrying, mutations, opening, ownership, disposal, world>>

\* The ownership is lost while a listener is closed: the rest is left as it is.
SyncStops ==
  /\ Busy /\ at.pc = "listeners" /\ ~Current
  /\ retryTimer' = IF at.todo = {} THEN scheduleRetry(failed, retrying) ELSE retryTimer
  /\ Finish
  /\ UNCHANGED <<bound, wanted, failed, retrying, retiring, ownership, disposal, world>>

shareBindCandidate(i, j) == Range(wanted[i]) \cap Range(wanted[j]) # {}

\* openPendingEndpoints: an endpoint that shares a candidate with an earlier one
\* waits for a later batch.
Batch(ids) ==
  LET alone == SelectSeq(ids, LAMBDA i :
        i \notin DOMAIN wanted
        \/ \A k \in DOMAIN ids :
             ids[k] < i => ids[k] \notin DOMAIN wanted \/ ~shareBindCandidate(i, ids[k]))
  IN  SubSeq(alone, 1, IF Len(alone) < MaxOpens THEN Len(alone) ELSE MaxOpens)

\* An endpoint that is not desired any more is skipped.
OpenBatch ==
  /\ Busy /\ at.pc = "open" /\ opening = <<>>
  /\ at.pending # <<>> /\ Current /\ ~disposed
  /\ LET batch == Range(Batch(at.pending))
         ids == batch \cap DOMAIN wanted
     IN  /\ opening' = [i \in ids |-> wanted[i]]
         /\ retiring' = retiring \ ids
         /\ at' = [at EXCEPT !.pending = SelectSeq(@, LAMBDA i : i \notin batch)]
  /\ UNCHANGED <<bound, wanted, failed, retryTimer, retrying, mutations, ownership, disposal, world>>

MutationEnds ==
  /\ Busy /\ at.pc = "open" /\ opening = <<>>
  /\ at.pending = <<>> \/ ~Current \/ disposed
  /\ retryTimer' = scheduleRetry(failed, retrying)
  /\ Finish
  /\ UNCHANGED <<bound, wanted, failed, retrying, retiring, ownership, disposal, world>>

\* ensureExclusive: a listener at one of the candidates is kept, any other one
\* is closed first.
EnsureBegins ==
  /\ Busy /\ at.pc = "begin" /\ Running1.kind = "ensure" /\ ~disposed /\ Current
  /\ LET id == CHOOSE i \in DOMAIN Running1.want : TRUE
         kept == id \in Listening /\ isEndpointBindCurrent(id, Running1.want[id])
     IN  /\ wanted' = Running1.want @@ wanted
         /\ retiring' = retiring \ {id}
         /\ IF kept THEN UNCHANGED <<failed, bound>> /\ Finish
            ELSE /\ failed' = Without(failed, {id}) /\ bound' = Closed({id})
                 /\ at' = [at EXCEPT !.pc = "ensure", !.todo = {id}]
                 /\ UNCHANGED <<mutations, opening>>
  /\ UNCHANGED <<retryTimer, retrying, ownership, disposal, world>>

\* ensureExclusive, after the old listener is closed
EnsureOpens ==
  /\ Busy /\ at.pc = "ensure"
  /\ IF Current /\ at.todo \subseteq DOMAIN wanted
     THEN /\ opening' = [i \in at.todo |-> wanted[i]]
          /\ at' = [at EXCEPT !.pc = "open"] /\ UNCHANGED mutations
     ELSE Finish
  /\ UNCHANGED <<bound, wanted, failed, retryTimer, retrying, retiring, ownership, disposal, world>>

Socket(id) == opening[id][1]
SocketFree(s) == s \notin foreign /\ \A i \in Listening : bound[i] # s

PublishAlways(id) ==
  /\ Busy /\ id \in DOMAIN opening /\ SocketFree(Socket(id))
  /\ opening' = Without(opening, {id})
  /\ bound' = With(bound, id, Socket(id))
  /\ failed' = Without(failed, {id})
  /\ UNCHANGED <<wanted, retryTimer, retrying, retiring, mutations, at, ownership, disposal, world>>

\* open: the probe and the bind succeed.  A listener that was opened for an older
\* generation, or for an endpoint closed meanwhile, is closed again.
Opened(id) ==
  /\ Busy /\ id \in DOMAIN opening /\ SocketFree(Socket(id))
  /\ opening' = Without(opening, {id})
  /\ IF Current /\ id \in DOMAIN wanted
     THEN /\ bound' = With(bound, id, Socket(id))
          /\ failed' = Without(failed, {id})
          /\ UNCHANGED retiring
     ELSE /\ bound' = Closed({id}) /\ retiring' = retiring \ {id} /\ UNCHANGED failed
  /\ UNCHANGED <<wanted, retryTimer, retrying, mutations, at, ownership, disposal, world>>

\* open: the candidate is taken, or it cannot be probed or bound; the next one
\* is tried, and after the last the failure is remembered (recordBindFailure).
OpenFails(id) ==
  /\ Busy /\ id \in DOMAIN opening
  /\ \/ ~SocketFree(Socket(id)) /\ UNCHANGED proxyFaults
     \/ SocketFree(Socket(id)) /\ proxyFaults.binds > 0
        /\ proxyFaults' = [proxyFaults EXCEPT !.binds = @ - 1]
  /\ IF Len(opening[id]) > 1
     THEN opening' = [opening EXCEPT ![id] = Tail(@)] /\ UNCHANGED failed
     ELSE /\ opening' = Without(opening, {id})
          /\ failed' = IF Current /\ id \in DOMAIN wanted THEN With(failed, id, wanted[id])
                       ELSE failed
  /\ UNCHANGED <<bound, wanted, retryTimer, retrying, retiring, mutations, at, ownership,
                 disposal, foreign>>

ManagerStep ==
  \/ \E id \in retiring : RetireFires(id)
  \/ DisposeEnds
  \/ Overtaken \/ SyncBegins \/ SyncListeners \/ SyncStops
  \/ OpenBatch \/ MutationEnds \/ EnsureBegins \/ EnsureOpens
  \/ \E id \in DOMAIN opening : Opened(id) \/ OpenFails(id)

ManagerInit(scene) ==
  /\ bound = <<>> /\ wanted = <<>> /\ failed = <<>>
  /\ retryTimer = 0 /\ retrying = FALSE /\ retiring = {}
  /\ mutations = <<>> /\ at = Begin /\ opening = <<>>
  /\ ownership = 1 /\ disposal = "no"
  /\ foreign = scene.foreign /\ proxyFaults = scene.proxyFaults

-----------------------------------------------------------------------------
(* The pass of the network service and its lease                             *)

CONSTANTS
  Sockets      \* the sockets of the endpoints

VARIABLES
  routes,      \* what is to be served: endpoint -> candidates
  cold,        \* the daemon's routing state is not authoritative
  leaseFile,   \* "mine", "other" or "free"
  owns,        \* ownsBrowserNetworkProxyLease
  demotions,   \* the demotions that wait for sockets to close
  fence,       \* browserNetworkProxyOwnershipGeneration
  pass,        \* the pass under way
  queued,      \* browserProxySyncQueued
  gateways,    \* hostGatewayExposureIds: a gateway is open
  asked,       \* the ensures under way: mutation -> fence
  turns        \* what may still happen
syncVars == <<routes, cold, leaseFile, owns, demotions, fence, pass, queued, gateways, asked, turns>>
browserVars == <<managerVars, syncVars>>

NoPass == [pc |-> "idle", want |-> <<>>, fence |-> 0]

\* tryAcquireBrowserNetworkProxyOwnerLease
CanAcquire == leaseFile # "other"

\* retainsBrowserNetworkProxyOwnership
Retains(generation) == owns /\ generation = fence /\ leaseFile = "mine"

\* demoteBrowserNetworkProxyOwner: the gateways and the listeners are closed
demoteBrowserNetworkProxyOwner ==
  /\ owns' = FALSE /\ fence' = fence + 1
  /\ gateways' = FALSE
  /\ releaseAll
  /\ demotions' = demotions + 1 /\ UNCHANGED leaseFile

\* ... and when they are, the lease is given back, if it is this window's: even
\* one that it took again meanwhile.  A pass that gave up goes on.
DemotionEnds ==
  /\ demotions > 0 /\ demotions' = demotions - 1
  /\ leaseFile' = IF leaseFile = "mine" THEN "free" ELSE leaseFile
  /\ \/ UNCHANGED pass /\ (pass.pc = "demoting" => demotions > 1)
     \/ pass.pc = "demoting" /\ pass' = [pass EXCEPT !.pc = "ends"]
  /\ UNCHANGED <<managerVars, routes, cold, owns, fence, queued, gateways, asked, turns>>

\* A pass begins: it reads the routes, and takes the lease or gives all up.
PassBegins ==
  IF CanAcquire
  THEN /\ leaseFile' = "mine" /\ owns' = TRUE
       /\ pass' = [pc |-> "prepare", want |-> routes, fence |-> fence]
       /\ queued' = FALSE
       /\ UNCHANGED <<demotions, fence, gateways, managerVars>>
  ELSE /\ demoteBrowserNetworkProxyOwner
       /\ pass' = [NoPass EXCEPT !.pc = "demoting"] /\ queued' = FALSE
       /\ UNCHANGED <<retrying, mutating, disposal, world>>

\* syncBrowserNetworkProxies: the routing loop, a route table that changed and
\* many commands call it.
syncBrowserNetworkProxies ==
  /\ turns.triggers > 0 /\ ~disposed
  /\ IF pass.pc # "idle"
     THEN queued' = TRUE /\ UNCHANGED <<pass, leaseFile, owns, demotions, fence, gateways, managerVars>>
     ELSE PassBegins
  /\ turns' = [turns EXCEPT !.triggers = @ - 1]
  /\ UNCHANGED <<routes, cold, asked>>

GiveUp(p) ==
  /\ demoteBrowserNetworkProxyOwner
  /\ pass' = [p EXCEPT !.pc = "demoting"]
  /\ UNCHANGED <<retrying, mutating, disposal, world, queued>>

\* The aliases, the route files and releaseHostGatewayPortsForBrowserEndpoints are
\* awaited; then the manager is to sync.
Prepared ==
  /\ pass.pc = "prepare"
  /\ IF Retains(pass.fence)
     THEN /\ serialize(Sync(pass.want, cold))
          /\ pass' = [pass EXCEPT !.pc = "syncing"]
          /\ UNCHANGED <<leaseFile, owns, demotions, fence, gateways, queued, bound, wanted, failed,
                         retryTimer, retrying, retiring, at, opening, ownership, disposal, world>>
     ELSE GiveUp(pass)
  /\ UNCHANGED <<routes, cold, asked, turns>>

Over(n) == \A k \in DOMAIN mutations : mutations[k].n # n

\* The manager has synced; the endpoints are published, and a gateway is opened.
Synced ==
  /\ pass.pc = "syncing" /\ Over(0)
  /\ IF Retains(pass.fence)
     THEN /\ pass' = [pass EXCEPT !.pc = IF cold THEN "redirects" ELSE "gateways"]
          /\ UNCHANGED <<leaseFile, owns, demotions, fence, gateways, queued, managerVars>>
     ELSE GiveUp(pass)
  /\ UNCHANGED <<routes, cold, asked, turns>>

\* syncHostGatewayProxies: the gateway is open when the await ends.
GatewayOpened ==
  /\ pass.pc = "gateways"
  /\ IF Retains(pass.fence)
     THEN /\ gateways' = TRUE /\ pass' = [pass EXCEPT !.pc = "redirects"]
          /\ UNCHANGED <<leaseFile, owns, demotions, fence, queued, managerVars>>
     ELSE GiveUp(pass)
  /\ UNCHANGED <<routes, cold, asked, turns>>

\* syncHostLocalGatewayRedirects may wait for an administrator.
Redirected ==
  /\ pass.pc = "redirects"
  /\ IF Retains(pass.fence)
     THEN /\ pass' = [pass EXCEPT !.pc = "ends"]
          /\ UNCHANGED <<leaseFile, owns, demotions, fence, gateways, queued, managerVars>>
     ELSE GiveUp(pass)
  /\ UNCHANGED <<routes, cold, asked, turns>>

\* syncBrowserNetworkProxiesQueued: the queued pass follows at once; a retry that
\* waited for the passes is over with the last.
PassEnds ==
  /\ pass.pc = "ends"
  /\ IF queued /\ ~disposed THEN PassBegins
     ELSE /\ pass' = NoPass
          /\ retrying' = FALSE
          /\ retryTimer' = IF retrying THEN scheduleRetry(failed, FALSE) ELSE retryTimer
          /\ UNCHANGED <<queued, leaseFile, owns, demotions, fence, gateways, bound, wanted, failed,
                         retiring, mutating, ownership, disposal, world>>
  /\ UNCHANGED <<routes, cold, asked, turns>>

\* The retry timer: onRetryDue starts a pass, joins the one under way, or gives up
\* the listeners.  A timer of an older generation only arms the next one.
RetryFires ==
  /\ retryTimer # 0
  /\ IF disposed \/ retryTimer # ownership
     THEN /\ retryTimer' = scheduleRetry(failed, FALSE)
          /\ UNCHANGED <<pass, queued, leaseFile, owns, demotions, fence, gateways, bound, wanted, failed,
                         retrying, retiring, mutating, ownership, disposal, world>>
     ELSE IF Retains(fence)
     THEN /\ retryTimer' = 0 /\ retrying' = TRUE
          /\ IF pass.pc = "idle"
             THEN pass' = [pc |-> "prepare", want |-> routes, fence |-> fence]
                  /\ queued' = FALSE
             ELSE queued' = TRUE /\ UNCHANGED pass
          /\ UNCHANGED <<leaseFile, owns, demotions, fence, gateways, bound, wanted, failed, retiring,
                         mutating, ownership, disposal, world>>
     ELSE /\ demoteBrowserNetworkProxyOwner
          /\ UNCHANGED <<pass, queued, retrying, mutating, disposal, world>>
  /\ UNCHANGED <<routes, cold, asked, turns>>

\* ensureBrowserNetworkProxyEndpointAsOwner
ensureBrowserNetworkProxyEndpointAsOwner(id) ==
  /\ turns.ensures > 0 /\ ~disposed
  /\ turns' = [turns EXCEPT !.ensures = @ - 1]
  /\ IF CanAcquire
     THEN /\ leaseFile' = "mine" /\ owns' = TRUE
          /\ serialize(Ensure(turns.ensures, id, routes[id]))
          /\ asked' = With(asked, turns.ensures, fence)
          /\ UNCHANGED <<demotions, fence, gateways, bound, wanted, failed, retryTimer, retrying, retiring,
                         at, opening, ownership, disposal, world>>
     ELSE /\ UNCHANGED <<asked, retrying, mutating, disposal, world>>
          /\ IF owns THEN demoteBrowserNetworkProxyOwner
             ELSE UNCHANGED <<leaseFile, owns, demotions, fence, gateways, bound, wanted, failed,
                              retryTimer, retiring, ownership>>
  /\ UNCHANGED <<routes, cold, pass, queued>>

\* ... after the manager's answer
Ensured(n) ==
  /\ n \in DOMAIN asked /\ Over(n) /\ asked' = Without(asked, {n})
  /\ IF Retains(asked[n])
     THEN UNCHANGED <<leaseFile, owns, demotions, fence, gateways, managerVars>>
     ELSE demoteBrowserNetworkProxyOwner /\ UNCHANGED <<retrying, mutating, disposal, world>>
  /\ UNCHANGED <<routes, cold, pass, queued, turns>>

\* refreshOwnedLeaseHeartbeats and refreshOwnerLeaseFromFileSignal: a lease that
\* another window has is given up at once.
HeartbeatDemotes ==
  /\ owns /\ ~Retains(fence)
  /\ demoteBrowserNetworkProxyOwner
  /\ UNCHANGED <<retrying, mutating, disposal, world, routes, cold, pass, queued, asked, turns>>

\* The routes or the daemon's state change.
RoutesChange(next, c) ==
  /\ turns.changes > 0 /\ <<next, c>> # <<routes, cold>>
  /\ routes' = next /\ cold' = c
  /\ turns' = [turns EXCEPT !.changes = @ - 1]
  /\ UNCHANGED <<managerVars, leaseFile, owns, demotions, fence, pass, queued, gateways, asked>>

\* Another window takes the lease from this one, which was stalled, or gives it up.
LeaseMoves ==
  /\ turns.moves > 0
  /\ leaseFile' = IF leaseFile = "other" THEN "free" ELSE "other"
  /\ turns' = [turns EXCEPT !.moves = @ - 1]
  /\ UNCHANGED <<managerVars, routes, cold, owns, demotions, fence, pass, queued, gateways, asked>>

\* refreshOwnerLeaseFromFileSignal, scheduleOwnerLeaseHandoffRetry: the lease is
\* free again, failed endpoints are tried at once.
LeaseSignal ==
  /\ turns.signals > 0 /\ ~owns /\ leaseFile = "free" /\ ~disposed /\ pass.pc = "idle"
  /\ turns' = [turns EXCEPT !.signals = @ - 1]
  /\ leaseFile' = "mine" /\ owns' = TRUE /\ retryFailedEndpointsNow
  /\ pass' = [pc |-> "prepare", want |-> routes, fence |-> fence]
  /\ queued' = FALSE
  /\ UNCHANGED <<demotions, fence, gateways, bound, wanted, retrying, retiring, mutating, ownership,
                 disposal, world, routes, cold, asked>>

\* dispose of the network service
DisposeService ==
  /\ turns.disposals > 0 /\ dispose
  /\ turns' = [turns EXCEPT !.disposals = 0]
  /\ owns' = FALSE /\ fence' = fence + 1 /\ gateways' = FALSE /\ UNCHANGED demotions
  /\ leaseFile' = IF leaseFile = "mine" THEN "free" ELSE leaseFile
  /\ UNCHANGED <<world, routes, cold, pass, queued, asked>>

BrowserNext ==
  \/ (ManagerStep \/ \E id \in DOMAIN routes : CloseEndpoint(id)) /\ UNCHANGED syncVars
  \/ (\E s \in Sockets : Taken(s)) /\ UNCHANGED syncVars
  \/ syncBrowserNetworkProxies \/ Prepared \/ Synced \/ GatewayOpened \/ Redirected \/ PassEnds
  \/ RetryFires \/ HeartbeatDemotes \/ DemotionEnds
  \/ \E id \in DOMAIN routes : ensureBrowserNetworkProxyEndpointAsOwner(id)
  \/ \E n \in DOMAIN asked : Ensured(n)
  \/ \E next \in turns.routes, c \in turns.cold : RoutesChange(next, c)
  \/ LeaseMoves \/ LeaseSignal \/ DisposeService

BrowserInit(scene) ==
  /\ ManagerInit(scene)
  /\ routes \in scene.turns.routes /\ cold = FALSE
  /\ leaseFile = "free" /\ owns = FALSE /\ demotions = 0 /\ fence = 1 /\ pass = NoPass /\ queued = FALSE
  /\ gateways = FALSE /\ asked = <<>> /\ turns = scene.turns

-----------------------------------------------------------------------------
(* Properties                                                               *)

\* The state has its type.  A timer that retires a listener, a candidate that is
\* bound and a failure that is remembered are of endpoints the routes can name,
\* and no two listeners have one socket.
BrowserTypeOK ==
  /\ leaseFile \in {"mine", "other", "free"} /\ disposal \in {"no", "waiting", "done"}
  /\ \A i \in Listening : bound[i] \in Sockets \ foreign
  /\ \A i, j \in Listening : bound[i] = bound[j] => i = j
  /\ DOMAIN opening \cap Listening = {}
  /\ opening # <<>> => Busy /\ at.pc = "open"

\* Whenever no mutation runs, every listener is wanted, or on its way to be
\* retired: a listener that was being bound while its endpoint was closed, or
\* while the lease was lost, does not stay (browser-network-proxy.ts,
\* openPendingEndpoints and ensureExclusive after the bind).
OpenIsWanted ==
  ~Busy => Listening \subseteq DOMAIN wanted \cup retiring

\* Whenever no mutation runs, an endpoint that could not be bound is going to be
\* tried again: the retry timer is armed or a retry is under way (scheduleRetry),
\* whatever closes, releases and other mutations came in between.
FailuresAreRetried ==
  ~Busy /\ ~disposed /\ DOMAIN failed # {} => retryTimer = ownership \/ retrying

\* A window that has given up the lease and has no mutation, pass or request under
\* way serves nothing: neither a listener nor a gateway, nor a timer that could
\* bring one back (demoteBrowserNetworkProxyOwner: "repeat cleanup catches host
\* gateways opened by an old reconciliation").
NothingServedAfterDemotion ==
  ~owns /\ ~Busy /\ pass.pc = "idle" /\ asked = <<>>
    => Listening = {} /\ ~gateways /\ failed = <<>> /\ wanted = <<>>

\* After dispose has ended nothing listens and nothing is going to.
DisposedIsSilent ==
  disposal = "done" => Listening = {} /\ retryTimer = 0 /\ retiring = {}

\* Of two endpoints opened together the earlier one has the candidate both would
\* take, in a calm scene, where nothing is taken, closed or changed: "every earlier overlapping
\* candidate retains priority" (openPendingEndpoints).
EarlierGoesFirst ==
  \A i, j \in Listening :
    i < j /\ turns.calm /\ i \in DOMAIN wanted =>
      LET mine == wanted[i]
      IN  \A k \in DOMAIN mine :
            mine[k] = bound[j] => \E m \in 1..k : mine[m] = bound[i]

\* Whenever no mutation runs the listeners are those that are wanted, those that
\* failed are tried again, the earlier endpoint has the better candidate, and after
\* a demotion or the disposal there are none.
ListenersFollowWishes ==
  /\ BrowserTypeOK
  /\ OpenIsWanted
  /\ FailuresAreRetried
  /\ NothingServedAfterDemotion
  /\ DisposedIsSilent
  /\ EarlierGoesFirst
=============================================================================
