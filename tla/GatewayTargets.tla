---------------------------- MODULE GatewayTargets ----------------------------
(***************************************************************************)
(* What the gateways listen on and where they send a client: the functions *)
(* of src/extension/network-service.ts from the daemon's routes and         *)
(* listeners, the networks, the Compose attachments and the settings to the *)
(* ports of the localhost router, the endpoints of the browser proxy, the   *)
(* raw gateways and the packet redirects, and the choice of the backend of  *)
(* one connection; with src/core/networks/host-default-gateway.ts and       *)
(* logical-route-selection.ts.                                              *)
(*                                                                          *)
(* An address is <<kind, network>>.  Every network has an address for its   *)
(* servers, one for browsers and a hidden one; the allocator of network ids *)
(* keeps them distinct.  input is one observation: the daemon keeps one     *)
(* listen route per network and port, and two live servers never share a    *)
(* socket, so first match and last match are the same row.                  *)
(***************************************************************************)
EXTENDS Naturals, FiniteSets, SequencesExt, Functions

CONSTANTS
  Networks,           \* the networks of the registry in their order
  FixedPorts,         \* settings.fixedProtocolPorts
  AddressOrder        \* every address, in the order of their text

VARIABLE input

\* routes, files: [net, owner, logical, actual, host, live] of the daemon's snapshot and of
\* the generated tables; owner is the network of the process behind a route without one.
\* listeners: [host, port, router, scope]; compose: [net, logical, host, actual, attached];
\* generated: [net, logical, host, actual] of the override files; exposures: [net, hostPort,
\* target]; web: <<network, port>> of the web processes; clients: networks with a
\* hookless client; dialled: ports that clients dial; preferred: the window's network or
\* none; gateway, global: settings.
Known == Range(Networks)
Global == "global"
Nowhere == "none"
Loop(n) == <<"loop", n>>
Alias(n) == <<"alias", n>>
Hidden(n) == <<"hidden", n>>
Local == <<"127.0.0.1", "">>
Local6 == <<"::1", "">>
Any4 == <<"0.0.0.0", "">>
Any6 == <<"::", "">>
AnyHost == <<"*", "">>

SameEndpoint(r, q) == r.net = q.net /\ r.logical = q.logical
\* A row of the snapshot hides the row of the file, live or not.
mergeLogicalPortRoutes(routes, files) ==
  routes \cup {f \in files : \A r \in routes : ~SameEndpoint(f, r)}
LiveOf(routes) == {r \in routes : r.live}
LiveRoutes == LiveOf(mergeLogicalPortRoutes(input.routes, input.files))

At2(host, port) == [host |-> host, port |-> port]
Refused == At2(<<"refused", "">>, 0)

-----------------------------------------------------------------------------
(* Addresses                                                                *)

normalizeEndpointHostKey(h) == IF h \in {Any4, Any6} THEN AnyHost ELSE h
isHostLocalAddress(h) == h \in {Local, Local6, Any4, Any6}
normalizeBrowserProxyTargetHost(h) ==
  IF h \in {Any4, AnyHost} THEN Local ELSE IF h = Any6 THEN Local6 ELSE h

endpointHostMatches(listenerHost, routeHost) ==
  LET l == normalizeEndpointHostKey(listenerHost)
      r == normalizeEndpointHostKey(routeHost)
  IN  AnyHost \in {l, r} \/ l = r \/ {l, r} = {Local, Local6}

-----------------------------------------------------------------------------
(* The localhost router                                                     *)

routeNeedsLogicalRouter(r) ==
  r.actual # r.logical \/ ~(endpointHostMatches(r.host, Local) \/ endpointHostMatches(r.host, Local6))

\* Ports that another process holds on both localhost addresses.
collectExternallyCoveredLogicalRouterPorts(listeners) ==
  LET On(hosts) == {l.port : l \in {x \in listeners : ~x.router /\ x.host \in hosts}}
  IN  On({AnyHost, Any4, Local}) \cap On({AnyHost, Any6, Local6})

collectLogicalRouterPorts(in) ==
  LET covered == collectExternallyCoveredLogicalRouterPorts(in.listeners)
      routed == {r.logical : r \in {x \in in.routes :
                   x.live /\ routeNeedsLogicalRouter(x)
                   /\ (in.gateway \/ x.net = Nowhere \/ x.net \in in.clients)}}
      global == {l.port : l \in {x \in in.listeners : x.host = Loop(Global)}}
  IN  (routed \cup (IF in.gateway /\ in.global THEN global ELSE {})
              \cup (IF in.gateway THEN {c.logical : c \in in.compose} ELSE {})) \ covered

-----------------------------------------------------------------------------
(* Exposures of the hosts' default network: Map from id to exposure         *)

Exposure(id, n, p, host, port) == [id |-> id, net |-> n, hostPort |-> p, host |-> host, port |-> port]
hostGatewayExposureId(n, p) == <<"gateway", n, p>>
browserNetworkProxyEndpointId(n, p) == <<"browser", n, p>>

Fronted(row, taken) ==
  row.net \in Known /\ browserNetworkProxyEndpointId(row.net, row.logical) \notin taken
AsExposure(row) ==
  Exposure(hostGatewayExposureId(row.net, row.logical), row.net, row.logical, row.host, row.actual)

\* A Compose row replaces the route of its network and port.
collectHostGatewayExposures(routes, compose, taken) ==
  LET published == {c \in compose : c.attached /\ Fronted(c, taken)}
      routed == {r \in routes : Fronted(r, taken) /\ \A c \in published : ~SameEndpoint(r, c)}
  IN  {AsExposure(row) : row \in published \cup routed}

\* Rows recovered from the override files, also of networks that are gone.
collectGeneratedComposeHostGatewayExposures(p) ==
  LET rows == {g \in input.generated : g.logical = p}
  IN  {Exposure(<<"generated", g.net, p, g.host, g.actual>>, g.net, p, g.host, g.actual) : g \in rows}

-----------------------------------------------------------------------------
(* host-default-gateway.ts                                                  *)

isSelfLoopingLocalhostTarget(e) == e.port = e.hostPort /\ isHostLocalAddress(e.host)

IndexIn(seq, x) == IF x \in Range(seq) THEN CHOOSE i \in 1..Len(seq) : seq[i] = x ELSE Len(seq) + 1
SortKey(e) ==
  <<IndexIn(Networks, e.net), IndexIn(AddressOrder, Loop(e.net)), IndexIn(AddressOrder, e.host), e.port,
    IF e.id[1] = "gateway" THEN 1 ELSE 2>>
Precedes(x, y) ==
  \E i \in 1..5 : SortKey(x)[i] < SortKey(y)[i] /\ \A j \in 1..(i - 1) : SortKey(x)[j] = SortKey(y)[j]
Earliest(es) == CHOOSE e \in es : \A f \in es \ {e} : Precedes(e, f)

\* The network of the window first, then what is seen to listen, then the order of
\* the networks.
selectHostDefaultGatewayExposure(es, preferred, observed) ==
  LET candidates == {e \in es : ~isSelfLoopingLocalhostTarget(e)}
      mine == {e \in candidates : e.net = preferred}
      seen == {e \in candidates : e.id \in observed}
  IN  IF candidates = {} THEN {}
      ELSE {Earliest(IF mine # {} THEN mine ELSE IF seen # {} THEN seen ELSE candidates)}

collectObservedHostGatewayExposureIds(es) ==
  {e.id : e \in {x \in es : \E l \in input.listeners :
                   l.port = x.port /\ endpointHostMatches(l.host, x.host)}}

-----------------------------------------------------------------------------
(* The browser proxy, the raw gateways and the packet redirects             *)

Endpoint(id, n, p, host, port) == [id |-> id, net |-> n, logical |-> p, host |-> host, port |-> port]
AliasEndpoint(n, p) == Endpoint(browserNetworkProxyEndpointId(n, p), n, p, Alias(n), p)

collectBrowserProxyEndpoints == {AliasEndpoint(w[1], w[2]) : w \in {x \in input.web : x[1] \in Known}}
collectBrowserProxyRouteEndpoints ==
  {AliasEndpoint(r.net, r.logical) : r \in {x \in LiveRoutes : x.net \in Known}}
collectBrowserProxyComposeEndpoints ==
  {AliasEndpoint(c.net, c.logical) : c \in {x \in input.compose : x.attached /\ x.net \in Known}}
ExposureEndpoints ==
  {Endpoint(<<"exposure", x.hostPort, 0>>, x.net, x.target, Local, x.hostPort) : x \in input.exposures}

\* Mutant: a server on the global address does not stop the redirect.
RedirectsOverGlobal ==
  LET es == collectHostGatewayExposures(LiveRoutes, input.compose, {})
      Chosen(p) == selectHostDefaultGatewayExposure({e \in es : e.hostPort = p}, input.preferred, {})
  IN  UNION {{[port |-> p, net |-> e.net, target |-> Hidden(e.net)] : e \in Chosen(p)} : p \in FixedPorts}

\* One redirect for a port of a fixed protocol, unless a global server has the port.
selectHostLocalGatewayRedirects ==
  LET es == collectHostGatewayExposures(LiveRoutes, input.compose, {})
      global == {l.port : l \in {x \in input.listeners : x.host = Loop(Global)}}
      ports == ({e.hostPort : e \in es} \cap FixedPorts) \ global
      Chosen(p) == selectHostDefaultGatewayExposure(
                     {e \in es : e.hostPort = p}, input.preferred,
                     collectObservedHostGatewayExposureIds(es))
  IN  UNION {{[port |-> p, net |-> e.net, target |-> Hidden(e.net)] : e \in Chosen(p)} : p \in ports}
collectHostLocalGatewayRedirectEndpoints ==
  {Endpoint(<<"redirect", r.net, r.port>>, r.net, r.port, r.target, r.port) : r \in selectHostLocalGatewayRedirects}

Endpoints ==
  ExposureEndpoints \cup collectBrowserProxyEndpoints \cup collectBrowserProxyRouteEndpoints
    \cup collectBrowserProxyComposeEndpoints \cup collectHostLocalGatewayRedirectEndpoints
HostGateways ==
  collectHostGatewayExposures(LiveRoutes, input.compose, {e.id : e \in Endpoints})

-----------------------------------------------------------------------------
(* The backend of one connection                                            *)

To(row) == At2(row.host, row.actual)
Pick1(rows) == IF rows = {} THEN Refused ELSE To(CHOOSE r \in rows : TRUE)

\* The network's own row, else a row without network of a process of the network.
findNetworkRouteForRouter(n, p) ==
  LET candidates == {r \in LiveOf(input.routes) : r.logical = p}
      exact == {r \in candidates : r.net = n}
  IN  IF exact # {} THEN exact ELSE {r \in candidates : r.net = Nowhere /\ r.owner = n}

isComposeLogicalPortForNetwork(n, p) == \E c \in input.compose : c.net = n /\ c.logical = p

resolveNetworkClientTarget(n, p) ==
  LET routes == findNetworkRouteForRouter(n, p)
  IN  IF routes # {} THEN Pick1(routes)
      ELSE IF p \in FixedPorts /\ ~isComposeLogicalPortForNetwork(n, p) THEN Refused
      ELSE At2(Loop(n), p)

resolveGlobalSamePortClientTarget(p) ==
  LET rows == {r \in findNetworkRouteForRouter(Global, p) : r.host = Loop(Global)}
      listening == \E l \in input.listeners : l.port = p /\ l.host = Loop(Global) /\ l.scope = Global
  IN  IF rows # {} THEN Pick1(rows) ELSE IF listening THEN At2(Loop(Global), p) ELSE Refused

resolveHostDefaultGatewayClientTarget(p) ==
  LET routes == IF p \in FixedPorts THEN collectHostGatewayExposures(LiveOf(input.routes), {}, {}) ELSE {}
      compose == collectHostGatewayExposures({}, input.compose, {})
      kept == compose \cup {e \in routes : \A c \in compose : c.id # e.id}
      es == {e \in kept : e.hostPort = p} \cup collectGeneratedComposeHostGatewayExposures(p)
      chosen == selectHostDefaultGatewayExposure(es, input.preferred, collectObservedHostGatewayExposureIds(es))
  IN  IF chosen = {} THEN Refused ELSE LET e == CHOOSE x \in chosen : TRUE IN At2(e.host, e.port)

selectNonNetworkOwnerRoute(p) ==
  LET candidates == {r \in LiveOf(input.routes) : r.logical = p /\ r.net = Nowhere}
  IN  IF Cardinality(candidates) = 1 THEN Pick1(candidates) ELSE Refused

resolveNonNetworkClientTarget(p) ==
  LET global == IF input.global THEN resolveGlobalSamePortClientTarget(p) ELSE Refused
      default == IF input.global THEN resolveHostDefaultGatewayClientTarget(p) ELSE Refused
  IN  IF global # Refused THEN global
      ELSE IF default # Refused THEN default
      ELSE selectNonNetworkOwnerRoute(p)

\* A client that the daemon's terminals label global is a host client.
resolveLogicalPortRouterTarget(n, p) ==
  IF n \in {Nowhere, Global} THEN resolveNonNetworkClientTarget(p) ELSE resolveNetworkClientTarget(n, p)

\* Route, Compose row, then a listener of a process of the network.
resolveBrowserNetworkProxyTarget(n, p) ==
  LET routes == {r \in LiveRoutes : r.net = n /\ r.logical = p}
      compose == {c \in input.compose : c.attached /\ c.net = n /\ c.logical = p}
      own == {l \in input.listeners : l.port = p /\ l.scope = n}
  IN  IF routes # {} THEN {To(r) : r \in routes}
      ELSE IF compose # {} THEN {To(c) : c \in compose}
      ELSE {At2(normalizeBrowserProxyTargetHost(l.host), l.port) : l \in own}

TargetsInit(scene) == input \in scene
targetVars == <<input>>

-----------------------------------------------------------------------------
(* Properties                                                               *)

\* Clients of two networks that dial localhost are never sent to the same backend,
\* whatever the ports, though the rows of all networks come in one table
\* (resolveNetworkClientTarget, findNetworkRouteForRouter).
NetworksStayApart ==
  \A n, m \in Known : \A p, q \in input.dialled :
    n # m /\ resolveNetworkClientTarget(n, p) = resolveNetworkClientTarget(m, q)
      => resolveNetworkClientTarget(n, p) = Refused

\* A client outside every network is sent to a server of a network only on a port of
\* a fixed protocol or on a port that a Compose service publishes
\* (resolveNonNetworkClientTarget).
HostSeesOnlyPublished ==
  \A r \in LiveOf(input.routes) : \A p \in input.dialled :
    r.net \in Known /\ resolveNonNetworkClientTarget(p) = To(r)
      => p \in FixedPorts \/ \E c \in input.compose \cup input.generated : c.logical = p /\ To(c) = To(r)

\* The localhost router never dials the localhost port it listens on: where a backend
\* is that coordinate, another process is seen to hold it.
NoSelfDial ==
  \A p \in collectLogicalRouterPorts(input) : \A n \in Known \cup {Nowhere} :
    LET t == resolveLogicalPortRouterTarget(n, p)
    IN  t.port = p /\ isHostLocalAddress(t.host)
          => \E l \in input.listeners : ~l.router /\ l.port = p /\ endpointHostMatches(l.host, t.host)

\* A localhost port is taken only where some client gets an answer on it: every port
\* of collectLogicalRouterPorts has a client that is not refused.
RouterPortsServe ==
  \A p \in collectLogicalRouterPorts(input) :
    \E n \in Known \cup {Nowhere} : resolveLogicalPortRouterTarget(n, p) # Refused

\* Every live server and every published Compose port of a network has one front on the
\* browser address of the network, and no two fronts bind one socket: a raw gateway
\* never takes the port of a sniffing endpoint, nor a redirect that of an alias.
OneFrontEach ==
  LET fronts == [e \in Endpoints |-> <<e.host, e.port>>]
      raw == {<<Alias(g.net), g.hostPort>> : g \in HostGateways}
      services == {r \in LiveRoutes : r.net \in Known} \cup {c \in input.compose : c.attached /\ c.net \in Known}
  IN  /\ IsInjective(fronts)
      /\ Range(fronts) \cap raw = {}
      /\ \A s \in services : <<Alias(s.net), s.logical>> \in Range(fronts) \cup raw

\* A packet redirect of localhost leads to a listening endpoint with a backend in the
\* network, never back to the redirected coordinate unless a server and a Compose service of the
\* network contest the port, and never hides a server that is seen on
\* the global address (selectHostLocalGatewayRedirects).
Contested(n, p) ==
  \E r \in LiveRoutes, c \in input.compose : {<<r.net, r.logical>>, <<c.net, c.logical>>} = {<<n, p>>} /\ To(r) # To(c)
RedirectsAreServed ==
  \A r \in selectHostLocalGatewayRedirects :
    LET backends == resolveBrowserNetworkProxyTarget(r.net, r.port)
    IN  /\ \E e \in Endpoints : e.host = r.target /\ e.port = r.port /\ e.net = r.net
        /\ backends # {}
        /\ \A t \in backends : t.port = r.port /\ isHostLocalAddress(t.host) => Contested(r.net, r.port)
        /\ ~\E l \in input.listeners : l.host = Loop(Global) /\ l.port = r.port

\* Whoever dials is led to a backend of their own network or to a published one, never
\* in a circle, and every service has one front.
GatewaysLeadHome ==
  /\ NetworksStayApart
  /\ HostSeesOnlyPublished
  /\ NoSelfDial
  /\ RouterPortsServe
  /\ OneFrontEach
  /\ RedirectsAreServed
=============================================================================
