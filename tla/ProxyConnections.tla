-------------------------- MODULE ProxyConnections --------------------------
(***************************************************************************)
(* The sockets of the Node proxies and what they hold of the shared budget: *)
(* ProxyNetworkResources of src/platform/ports/proxy-network-resources.ts    *)
(* on ProxyResourceBudget, and the connections that                         *)
(* browser-network-proxy-transport.ts sniffs, probes for a server greeting  *)
(* and forwards raw.  Requests that turn out to be HTTP leave this module   *)
(* (BrowserProxyTransport); the sockets of their pools are here.            *)
(*                                                                          *)
(* destroy() on a socket is one event and its close event a later one.      *)
(***************************************************************************)
EXTENDS Naturals, Sequences, FiniteSets

CONSTANTS ProxyLimits   \* the limits: connections, upstreams, routeJobs, dnsJobs, idleSockets

VARIABLES
  conns,       \* accepted clients, by number
  ups,         \* upstream sockets, in the order they were created
  routeJobs,   \* the route lookups that run: the client and what it is for
  dnsRuns,     \* dnsJobs: whether the OS works on a lookup
  idleSockets, \* idle pooled sockets, the oldest first
  idleTimer,   \* whether the expiry timer is armed
  occupied,    \* ProxyResourceBudget.occupied
  socketTurns  \* clients, pool sockets and faults still to come
socketVars == <<conns, ups, routeJobs, dnsRuns, idleSockets, idleTimer,
                occupied, socketTurns>>

Clients == DOMAIN conns
UpstreamSockets == DOMAIN ups
Live(u) == ups[u].state \in {"dns", "connecting", "connected"}
Open(c) == conns[c].client \in {"open", "ended"}

\* tryAcquire of one unit, and release
Room(resource) == occupied[resource] < ProxyLimits[resource]
Taking(resource) == [occupied EXCEPT ![resource] = @ + 1]
Returning(resource) == [occupied EXCEPT ![resource] = @ - 1]

\* destroy() of the wrapped upstream sockets: one that waits for the lookup leaves
\* its waiters, while the OS works on
DestroyedUps(us) ==
  [u \in UpstreamSockets |-> IF u \in us /\ Live(u) THEN [ups[u] EXCEPT !.state = "destroyed"] ELSE ups[u]]
DestroyedClient(c) == [conns EXCEPT ![c].client = IF Open(c) THEN "destroyed" ELSE @]
OfClient(c, kinds) == {u \in UpstreamSockets : ups[u].client = c /\ ups[u].kind \in kinds}

Fault == /\ socketTurns.faults > 0
         /\ socketTurns' = [socketTurns EXCEPT !.faults = @ - 1]

-----------------------------------------------------------------------------
(* Clients: admitClient and sniffBrowserProxyConnection                     *)

\* The listener admits a client, or destroys it at once.
admitClient ==
  /\ socketTurns.clients > 0
  /\ socketTurns' = [socketTurns EXCEPT !.clients = @ - 1]
  /\ IF Room("connections")
     THEN /\ conns' = Append(conns, [client |-> "open", mode |-> "sniffing", prefix |-> FALSE,
                                     waits |-> "none", aborted |-> FALSE])
          /\ occupied' = Taking("connections")
     ELSE UNCHANGED <<conns, occupied>>
  /\ UNCHANGED <<ups, routeJobs, dnsRuns, idleSockets, idleTimer>>

\* runRoute with resolveTarget, for a probe or a raw stream: without room the
\* client is destroyed.
StartsRoute(c, kind, cs) ==
  IF Room("routeJobs")
  THEN /\ routeJobs' = Append(routeJobs, [client |-> c, kind |-> kind])
       /\ occupied' = Taking("routeJobs")
       /\ conns' = [cs EXCEPT ![c].waits = kind]
  ELSE /\ conns' = [cs EXCEPT ![c].client = "destroyed", ![c].waits = "none"]
       /\ UNCHANGED <<routeJobs, occupied>>

\* greetingTimer: nothing came from the client, so the server may speak first.
probeServerGreeting(c) ==
  /\ conns[c].mode = "sniffing" /\ Open(c) /\ ~conns[c].prefix /\ ~conns[c].aborted
  /\ conns[c].waits = "none" /\ OfClient(c, {"probe"}) = {}
  /\ StartsRoute(c, "probe", conns)
  /\ UNCHANGED <<ups, dnsRuns, idleSockets, idleTimer, socketTurns>>

\* cleanup of the sniffer: the greeting probe is aborted, its socket destroyed.
Aborted(c, cs) ==
  [cs EXCEPT ![c].aborted = TRUE, ![c].waits = IF @ = "probe" THEN "none" ELSE @]

\* onReadable: bytes come.  They are HTTP or TLS, not HTTP, or too few to tell.
onReadable(c) ==
  /\ conns[c].mode = "sniffing" /\ Open(c)
  /\ LET cs == [Aborted(c, conns) EXCEPT ![c].prefix = TRUE]
     IN  \/ conns' = [cs EXCEPT ![c].mode = "http"] /\ UNCHANGED <<routeJobs, occupied>>
         \/ StartsRoute(c, "raw", [cs EXCEPT ![c].mode = "raw"])
         \/ ~conns[c].prefix /\ conns' = cs /\ UNCHANGED <<routeJobs, occupied>>
  /\ ups' = DestroyedUps(OfClient(c, {"probe"}))
  /\ UNCHANGED <<dnsRuns, idleSockets, idleTimer, socketTurns>>

\* dispatchRaw by the sniff timer: an ambiguous prefix is raw in the end.
SniffTimeout(c) ==
  /\ conns[c].mode = "sniffing" /\ Open(c) /\ conns[c].prefix
  /\ StartsRoute(c, "raw", [conns EXCEPT ![c].mode = "raw"])
  /\ UNCHANGED <<ups, dnsRuns, idleSockets, idleTimer, socketTurns>>

\* onEnd: FIN.  While sniffing, a prefix is dispatched raw and an empty
\* connection is destroyed; later it ends one direction of the stream.
ClientEnds(c) ==
  /\ conns[c].client = "open"
  /\ IF conns[c].mode # "sniffing"
     THEN conns' = [conns EXCEPT ![c].client = "ended"] /\ UNCHANGED <<ups, routeJobs, occupied>>
     ELSE IF conns[c].prefix
     THEN /\ StartsRoute(c, "raw", [conns EXCEPT ![c].mode = "raw", ![c].client = "ended"])
          /\ UNCHANGED ups
     ELSE /\ conns' = [Aborted(c, conns) EXCEPT ![c].client = "destroyed"]
          /\ ups' = DestroyedUps(OfClient(c, {"probe"}))
          /\ UNCHANGED <<routeJobs, occupied>>
  /\ UNCHANGED <<dnsRuns, idleSockets, idleTimer, socketTurns>>

\* The client resets its connection, or its listener closes.
ClientResets(c) ==
  /\ Open(c) /\ Fault
  /\ conns' = DestroyedClient(c)
  /\ UNCHANGED <<ups, routeJobs, dnsRuns, idleSockets, idleTimer, occupied>>

CloseLeavesUpstream(c) ==
  /\ conns[c].client = "destroyed"
  /\ conns' = [Aborted(c, conns) EXCEPT ![c].client = "closed", ![c].waits = "none"]
  /\ occupied' = Returning("connections")
  /\ ups' = DestroyedUps(OfClient(c, {"probe"}))
  /\ UNCHANGED <<routeJobs, dnsRuns, idleSockets, idleTimer, socketTurns>>

\* The close event of a client: its permit is returned, its waits end, and what
\* it had upstream is destroyed.
ClientCloses(c) ==
  /\ conns[c].client = "destroyed"
  /\ conns' = [Aborted(c, conns) EXCEPT ![c].client = "closed", ![c].waits = "none"]
  /\ occupied' = Returning("connections")
  /\ ups' = DestroyedUps(OfClient(c, {"probe", "raw"}))
  /\ UNCHANGED <<routeJobs, dnsRuns, idleSockets, idleTimer, socketTurns>>

-----------------------------------------------------------------------------
(* Upstream sockets: createUpstream, ownUpstream, lookupFor                 *)

\* connect: a permit, then the lookup.  A name joins the lookup that runs, or
\* starts one if there is a permit for it; an address needs none.
Created(c, kind, occ, cs) ==
  LET Made(state) == ups' = Append(ups, [client |-> c, kind |-> kind, state |-> state,
                                         handed |-> FALSE])
      withUp == [occ EXCEPT !.upstreams = @ + 1]
  IN  IF occ.upstreams = ProxyLimits.upstreams
      THEN /\ conns' = IF c = 0 THEN cs ELSE [cs EXCEPT ![c].client = "destroyed"]
           /\ occupied' = occ /\ UNCHANGED <<ups, dnsRuns>>
      ELSE /\ conns' = cs
           /\ \/ Made("connecting") /\ occupied' = withUp /\ UNCHANGED dnsRuns
              \/ /\ dnsRuns \/ occ.dnsJobs < ProxyLimits.dnsJobs
                 /\ Made("dns") /\ dnsRuns' = TRUE
                 /\ occupied' = IF dnsRuns THEN withUp ELSE [withUp EXCEPT !.dnsJobs = @ + 1]
              \/ /\ ~dnsRuns /\ occ.dnsJobs = ProxyLimits.dnsJobs
                 /\ Made("destroyed") /\ occupied' = withUp /\ UNCHANGED dnsRuns

Remaining(j) == [k \in 1..(Len(routeJobs) - 1) |-> routeJobs[IF k < j THEN k ELSE k + 1]]

\* A route lookup ends: the permit of the job is returned now, whether or not
\* somebody still waits for it (finish, settled).
RouteEnds(j, found) ==
  LET c == routeJobs[j].client
      kind == routeJobs[j].kind
      awaited == conns[c].waits = kind /\ (kind = "probe" => ~conns[c].aborted)
      occ == Returning("routeJobs")
      cs == [conns EXCEPT ![c].waits = "none"]
  IN  /\ routeJobs' = Remaining(j)
      /\ IF ~awaited \/ ~Open(c)
         THEN conns' = (IF awaited THEN cs ELSE conns) /\ occupied' = occ
              /\ UNCHANGED <<ups, dnsRuns>>
         ELSE IF found THEN Created(c, kind, occ, cs)
         ELSE /\ conns' = [cs EXCEPT ![c].client = "destroyed"]
              /\ occupied' = occ /\ UNCHANGED <<ups, dnsRuns>>
      /\ UNCHANGED <<idleSockets, idleTimer, socketTurns>>

\* The deadline of a lookup: the client is destroyed, the job runs on.
RouteTimeout(c) ==
  /\ conns[c].waits # "none" /\ Fault
  /\ conns' = [DestroyedClient(c) EXCEPT ![c].waits = "none"]
  /\ UNCHANGED <<ups, routeJobs, dnsRuns, idleSockets, idleTimer, occupied>>

\* The callback of the OS: one lookup answers all sockets that still wait.  A
\* socket whose lookup failed is destroyed.
DnsEnds(found) ==
  /\ dnsRuns /\ dnsRuns' = FALSE
  /\ occupied' = Returning("dnsJobs")
  /\ ups' = [u \in UpstreamSockets |-> IF ups[u].state = "dns"
               THEN [ups[u] EXCEPT !.state = IF found THEN "connecting" ELSE "destroyed"]
               ELSE ups[u]]
  /\ UNCHANGED <<conns, routeJobs, idleSockets, idleTimer, socketTurns>>

\* "connect": forwardSockets pipes a raw stream, a probe keeps listening.
Connects(u) ==
  /\ ups[u].state = "connecting"
  /\ IF ups[u].kind = "raw" /\ ~Open(ups[u].client)
     THEN ups' = DestroyedUps({u})
     ELSE ups' = [ups EXCEPT ![u].state = "connected"]
  /\ UNCHANGED <<conns, routeJobs, dnsRuns, idleSockets, idleTimer, occupied, socketTurns>>

HandOverAborts(u) ==
  /\ ups[u].kind = "probe" /\ ups[u].state = "connected" /\ ~ups[u].handed
  /\ LET c == ups[u].client
     IN  IF conns[c].aborted \/ ~Open(c) THEN ups' = DestroyedUps({u}) /\ UNCHANGED conns
         ELSE /\ ups' = [ups EXCEPT ![u].handed = TRUE, ![u].state = "destroyed"]
              /\ conns' = [conns EXCEPT ![c].mode = "raw", ![c].aborted = TRUE]
  /\ UNCHANGED <<routeJobs, dnsRuns, idleSockets, idleTimer, occupied, socketTurns>>

\* The server speaks first: the probe's socket becomes the raw stream, if the
\* client did not speak meanwhile.
ServerGreets(u) ==
  /\ ups[u].kind = "probe" /\ ups[u].state = "connected" /\ ~ups[u].handed
  /\ LET c == ups[u].client
     IN  IF conns[c].aborted \/ ~Open(c) THEN ups' = DestroyedUps({u}) /\ UNCHANGED conns
         ELSE /\ ups' = [ups EXCEPT ![u].handed = TRUE, ![u].kind = "raw"]
              /\ conns' = [conns EXCEPT ![c].mode = "raw", ![c].aborted = TRUE]
  /\ UNCHANGED <<routeJobs, dnsRuns, idleSockets, idleTimer, occupied, socketTurns>>

\* An error, a reset or the connection deadline of an upstream socket.  Both
\* sides end, except that an aborted probe leaves its client alone.
UpstreamFails(u) ==
  /\ Live(u) /\ Fault
  /\ ups' = DestroyedUps({u})
  /\ conns' = IF ups[u].kind = "pool" \/ (ups[u].kind = "probe" /\ conns[ups[u].client].aborted)
              THEN conns ELSE DestroyedClient(ups[u].client)
  /\ UNCHANGED <<routeJobs, dnsRuns, idleSockets, idleTimer, occupied>>

\* Both directions of a raw stream ended and are flushed: both sockets close.
StreamEnds(u) ==
  /\ ups[u].kind = "raw" /\ ups[u].state = "connected" /\ conns[ups[u].client].client = "ended"
  /\ ups' = DestroyedUps({u}) /\ conns' = DestroyedClient(ups[u].client)
  /\ UNCHANGED <<routeJobs, dnsRuns, idleSockets, idleTimer, occupied, socketTurns>>

Removing(s, u) == SelectSeq(s, LAMBDA x : x # u)
IdleSet == {idleSockets[k] : k \in DOMAIN idleSockets}

\* The close event of an upstream socket: activateSocket, then its permit.  A
\* client that is not aborted or piped loses its connection with the socket.
UpstreamClosed(u) ==
  /\ ups[u].state = "destroyed"
  /\ ups' = [ups EXCEPT ![u].state = "closed"]
  /\ idleSockets' = Removing(idleSockets, u)
  /\ idleTimer' = IF u \in IdleSet THEN Removing(idleSockets, u) # <<>> ELSE idleTimer
  /\ occupied' = IF u \in IdleSet THEN [Returning("upstreams") EXCEPT !.idleSockets = @ - 1]
                 ELSE Returning("upstreams")
  /\ conns' = IF ups[u].kind = "pool" \/ (ups[u].kind = "probe" /\ conns[ups[u].client].aborted)
              THEN conns ELSE DestroyedClient(ups[u].client)
  /\ UNCHANGED <<routeJobs, dnsRuns, socketTurns>>

-----------------------------------------------------------------------------
(* The pools of the HTTP agents: configureAgent, keepIdle, activateSocket   *)

\* createConnection of a decorated agent
createConnection ==
  /\ socketTurns.pool > 0
  /\ socketTurns' = [socketTurns EXCEPT !.pool = @ - 1]
  /\ Created(0, "pool", occupied, conns)
  /\ UNCHANGED <<routeJobs, idleSockets, idleTimer>>

\* "free": the socket is kept for a while if there is a permit, or destroyed.
keepIdle(u) ==
  /\ ups[u].kind = "pool" /\ ups[u].state = "connected" /\ u \notin IdleSet
  /\ IF Room("idleSockets")
     THEN /\ idleSockets' = Append(idleSockets, u) /\ idleTimer' = TRUE
          /\ occupied' = Taking("idleSockets") /\ UNCHANGED ups
     ELSE ups' = DestroyedUps({u}) /\ UNCHANGED <<idleSockets, idleTimer, occupied>>
  /\ UNCHANGED <<conns, routeJobs, dnsRuns, socketTurns>>

\* reuseSocket: activateSocket and scheduleIdleExpiry
reuseSocket(u) ==
  /\ u \in IdleSet /\ Live(u)
  /\ idleSockets' = Removing(idleSockets, u) /\ idleTimer' = (Removing(idleSockets, u) # <<>>)
  /\ occupied' = Returning("idleSockets")
  /\ UNCHANGED <<conns, ups, routeJobs, dnsRuns, socketTurns>>

\* The timer of scheduleIdleExpiry: the oldest ones that are due are destroyed.
IdleExpiry ==
  /\ idleTimer
  /\ \E n \in 1..Len(idleSockets) :
       /\ idleSockets' = SubSeq(idleSockets, n + 1, Len(idleSockets))
       /\ ups' = DestroyedUps({idleSockets[k] : k \in 1..n})
       /\ occupied' = [occupied EXCEPT !.idleSockets = @ - n]
       /\ idleTimer' = (n < Len(idleSockets))
  /\ UNCHANGED <<conns, routeJobs, dnsRuns, socketTurns>>

SocketNext ==
  \/ admitClient \/ createConnection \/ IdleExpiry
  \/ \E c \in Clients :
       \/ probeServerGreeting(c) \/ onReadable(c) \/ SniffTimeout(c) \/ ClientEnds(c)
       \/ ClientResets(c) \/ ClientCloses(c) \/ RouteTimeout(c)
  \/ \E j \in DOMAIN routeJobs, found \in BOOLEAN : RouteEnds(j, found)
  \/ \E found \in BOOLEAN : DnsEnds(found)
  \/ \E u \in UpstreamSockets :
       \/ Connects(u) \/ ServerGreets(u) \/ UpstreamFails(u) \/ StreamEnds(u)
       \/ UpstreamClosed(u) \/ keepIdle(u) \/ reuseSocket(u)

\* What comes is given by a scene.
SocketInit(scene) ==
  /\ conns = <<>> /\ ups = <<>> /\ routeJobs = <<>> /\ dnsRuns = FALSE
  /\ idleSockets = <<>> /\ idleTimer = FALSE
  /\ occupied = [r \in DOMAIN ProxyLimits |-> 0]
  /\ socketTurns = [clients |-> scene.clients, pool |-> scene.pool, faults |-> scene.faults]

-----------------------------------------------------------------------------
(* Properties                                                               *)

\* The state has its types; a client is dispatched at most once, so that it has
\* never two raw streams, and a timer is armed exactly while a socket is idle.
SocketTypeOK ==
  /\ \A c \in Clients : conns[c].client \in {"open", "ended", "destroyed", "closed"}
       /\ conns[c].mode \in {"sniffing", "http", "raw"}
       /\ Cardinality({u \in OfClient(c, {"raw"}) : Live(u)}) <= 1
  /\ \A u \in UpstreamSockets : ups[u].kind \in {"probe", "raw", "pool"}
  /\ idleTimer = (idleSockets # <<>>)

\* What is occupied is what clients, sockets and jobs really hold, and within the
\* limits: a permit follows the close event or the end of the job, never the
\* cancellation of the one who asked (ProxyNetworkResources: "returned by close,
\* never by destroy alone").
LeasesFollowWork ==
  /\ occupied.connections = Cardinality({c \in Clients : conns[c].client # "closed"})
  /\ occupied.upstreams = Cardinality({u \in UpstreamSockets : ups[u].state # "closed"})
  /\ occupied.routeJobs = Len(routeJobs)
  /\ occupied.dnsJobs = (IF dnsRuns THEN 1 ELSE 0)
  /\ occupied.idleSockets = Len(idleSockets)
  /\ \A u \in IdleSet : ups[u].state # "closed"
  /\ \A r \in DOMAIN occupied : occupied[r] \in 0..ProxyLimits[r]

\* An upstream socket that lives serves a client that did not close: a late route
\* or DNS answer never opens or keeps a socket for a client that is gone.
NoUpstreamWithoutClient ==
  \A u \in UpstreamSockets : Live(u) /\ ups[u].kind # "pool" => conns[ups[u].client].client # "closed"

\* Once a client spoke, no probe works for it any more: its server is reached by
\* one socket only, and a probe that is handed over is not torn down by the abort
\* that ends the sniffing (probeServerGreeting, dispatch).
ProbeYields ==
  /\ \A u \in UpstreamSockets : Live(u) /\ ups[u].kind = "probe" => ~conns[ups[u].client].aborted
  /\ \A u \in UpstreamSockets : ups[u].handed => ups[u].kind = "raw"

\* Sockets and permits follow the clients and the work done for them, in every order of
\* data, answers, ends and closes.
SocketsFollowClients == SocketTypeOK /\ LeasesFollowWork /\ NoUpstreamWithoutClient /\ ProbeYields
=============================================================================
