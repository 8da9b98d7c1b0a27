---------------------------- MODULE MCListeners ----------------------------
(* Who listens: the daemon's allocation of actual ports, the processes it    *)
(* launches, the proxies of exposed ports and of the browser's requests, the *)
(* native router, and where the gateways lead.  A scene plays in one of the  *)
(* parts; in the others nothing is asked.                                    *)
EXTENDS RouteAllocation, PortRouting, ManagedProcesses, HostPortProxy, BrowserProxyTransport,
        NativeLogicalRouter, GatewayTargets, BrowserDnsSetup

(* Servers of one logical port in two networks that share the range of       *)
(* actual ports, a worker of one of them, and clients in and outside of them. *)
\* Two servers a, b and a sender s of the logical port 1, which hash to
\* neighbouring slots of the virtual range 2..3; w is a worker of a, and o a
\* sender that belongs to no network.
Everybody == {"a", "b", "s", "w", "o"}
Servers == {"a", "b", "w"}
One == [c \in Everybody |-> 1]
Shell == [c \in Everybody |-> "t"]

\* b is another network whose server binds every address.
TwoNets == [c \in Everybody |-> CASE c = "b" -> "m" [] c = "o" -> None [] OTHER -> "n"]
TwoHosts == [c \in Everybody |-> IF c = "b" THEN "*" ELSE "n1"]
Slots == [c \in Everybody |-> buildHashedPortCandidates(IF c = "b" THEN 1 ELSE 0, 1, 2, 3)]

\* Each live client asks once; a worker is only ever handed a socket.
Budget(live, worker, snaps, n) ==
  [live |-> live, snaps |-> snaps, faults |-> n,
   asks |-> [c \in Everybody |-> IF c \in worker THEN 0 ELSE 1]]

\* Two servers that want one slot; a server and a sender; scans and faults around one
\* server; a worker that takes over; a sender of no network.
SafetyBudgets ==
  {Budget({"a", "b"}, {}, {}, 0), Budget({"a", "s"}, {}, {}, 0), Budget({"a"}, {}, {"poll", "view"}, 0),
   Budget({"a"}, {}, {"poll"}, 1), Budget({"a"}, {}, {"view"}, 1),
   Budget({"a", "w"}, {"w"}, {"poll"}, 0), Budget({"a", "o"}, {}, {"poll"}, 0),
   Budget({"a", "o"}, {}, {}, 1)}
NoAllocation == Budget({}, {}, {}, 0)
AllBudgets == SafetyBudgets \cup {NoAllocation}

AllKinds == {"start", "stop", "restart", "remove"}
ManagedScenes == {[kinds |-> AllKinds, left |-> 4, failures |-> 1]}
NoManaged == [kinds |-> {}, left |-> 0, failures |-> 0]

\* Two exposures of one host port.
TwoExposures == {"e1", "e2"}
SameHostPort == [e \in TwoExposures |-> "p1"]
NoHost == [opens |-> 0, closes |-> 0, disposals |-> 0, clients |-> 0, faults |-> 0]
HostScenes == {
  [NoHost EXCEPT !.opens = 3, !.closes = 1],
  [NoHost EXCEPT !.opens = 2, !.closes = 1, !.disposals = 1, !.faults = 1],
  [NoHost EXCEPT !.opens = 1, !.closes = 1, !.clients = 3]}

TwoOrigins == {"o1", "o2"}
NoHttp == [requests |-> 0, moves |-> 0, failures |-> 0]
HttpScenes == {
  [requests |-> 4, moves |-> 0, failures |-> 1],
  [requests |-> 3, moves |-> 1, failures |-> 2]}

TwoPorts == {1, 2}
NoNative == [opens |-> 0, closes |-> 0, timeouts |-> 0, losses |-> 0, exits |-> 0]
NativeScenes == {
  [opens |-> 3, closes |-> 2, timeouts |-> 2, losses |-> 1, exits |-> 0],
  [opens |-> 3, closes |-> 1, timeouts |-> 1, losses |-> 0, exits |-> 1]}

\* Observations: up to two routes out of a pool, with the listeners of the servers that
\* hold localhost themselves.
TargetNetworks == <<"a", "b">>
Route1(n, o, l, x, h, v) ==
  [net |-> n, owner |-> o, logical |-> l, actual |-> x, host |-> h, live |-> v]
RoutePool == {
  Route1("a", "a", 1, 1, Loop("a"), TRUE), Route1("a", "a", 2, 2, Local, TRUE),
  Route1("a", "a", 2, 3, Local, TRUE), Route1("b", "b", 1, 4, Local, TRUE),
  Route1("b", "b", 2, 2, Loop("b"), TRUE), Route1(Nowhere, "a", 1, 5, Local, TRUE),
  Route1(Nowhere, Nowhere, 2, 6, Local, TRUE), Route1(Nowhere, Nowhere, 2, 2, Local, TRUE),
  Route1(Nowhere, Nowhere, 2, 7, Local, FALSE), Route1("gone", "gone", 1, 8, Local, TRUE),
  Route1("global", "global", 2, 2, Loop("global"), TRUE)}
Routings ==
  {rs \in UNION {kSubset(k, RoutePool) : k \in 0..2} :
     \A r, q \in rs : r # q => ~SameEndpoint(r, q) /\ To(r) # To(q)}
Listener1(h, p, r, s) == [host |-> h, port |-> p, router |-> r, scope |-> s]
Holding(rs) ==
  {Listener1(r.host, r.actual, FALSE, r.owner) :
     r \in {q \in rs : q.live /\ q.actual = q.logical /\ q.host = Local}}
ListenerSets == {
  {}, {Listener1(Loop("global"), 1, FALSE, "global"), Listener1(Loop("global"), 2, FALSE, "global")},
  {Listener1(Local, 2, TRUE, Nowhere), Listener1(Hidden("b"), 9, FALSE, Nowhere)},
  {Listener1(Any4, 2, FALSE, Nowhere), Listener1(Any6, 2, FALSE, Nowhere)},
  {Listener1(AnyHost, 2, FALSE, "b")}}
Published(n, l, h, x) == [net |-> n, logical |-> l, host |-> h, actual |-> x]
ComposeRow(n, l, h, x, v) == [net |-> n, logical |-> l, host |-> h, actual |-> x, attached |-> v]
ComposeRows == {
  {}, {ComposeRow("a", 2, Local, 9, TRUE)}, {ComposeRow("b", 2, Hidden("b"), 9, FALSE)},
  {ComposeRow("b", 1, Loop("b"), 1, TRUE), ComposeRow("a", 2, Local, 2, TRUE)}}
Observations ==
  {[routes |-> rs, files |-> f, listeners |-> l \cup Holding(rs), compose |-> c, generated |-> g,
    exposures |-> {[net |-> "a", hostPort |-> 3, target |-> 1]}, web |-> {<<"b", 2>>},
    clients |-> {"b"}, dialled |-> {1, 2}, preferred |-> n, gateway |-> s, global |-> s] :
     rs \in Routings, f \in {{}, {Route1("a", "a", 1, 10, Local, TRUE)}}, l \in ListenerSets,
     c \in ComposeRows, g \in {{}, {Published("gone", 2, Local, 2), Published("b", 2, Hidden("b"), 9)}},
     n \in {Nowhere, "b"}, s \in BOOLEAN}
NoObservation ==
  {[routes |-> {}, files |-> {}, listeners |-> {}, compose |-> {}, generated |-> {}, exposures |-> {},
    web |-> {}, clients |-> {}, dialled |-> {}, preferred |-> Nowhere, gateway |-> FALSE, global |-> FALSE]}
AddressesInOrder ==
  <<Local, Any4, Loop("a"), Loop("b"), Loop("global"), Loop("gone"), Hidden("a"), Hidden("b"), Local6>>

VARIABLE playing    \* the part in which something happens

\* One or two aliases; the address of a name moves when its network is made anew.
MapA == ("a" :> 1)
MapAB == ("a" :> 1) @@ ("b" :> 2)
SomeMaps == {<<>>, MapA, ("a" :> 2), MapAB}
NoSetupTurns ==
  [installs |-> 0, repairs |-> 0, cleanups |-> 0, attaches |-> 0, syncs |-> 0, faults |-> 0,
   reboots |-> 0, drops |-> 0, stops |-> 0, ages |-> 0, edits |-> 0, remaps |-> 0, lapses |-> 0,
   answers |-> 0, looks |-> 0]
NoSetup == [map |-> <<>>, installed |-> FALSE, left |-> NoSetupTurns]
Fresh(m, turns) == [map |-> m, installed |-> FALSE, left |-> turns]
Installed(m, turns) == [map |-> m, installed |-> TRUE, left |-> turns]
SetupScenes == {
  \* a clean computer
  Fresh(MapA, [NoSetupTurns EXCEPT !.installs = 2, !.faults = 1]),
  Fresh(MapAB, [NoSetupTurns EXCEPT !.installs = 1, !.faults = 1, !.looks = 1]),
  Fresh(MapAB, [NoSetupTurns EXCEPT !.looks = 2, !.answers = 2]),
  \* what was installed is lost, ages, is edited or is no longer what is asked for
  Installed(MapA, [NoSetupTurns EXCEPT !.repairs = 2, !.reboots = 1, !.faults = 1]),
  Installed(MapA, [NoSetupTurns EXCEPT !.repairs = 1, !.ages = 2, !.faults = 1]),
  Installed(MapAB, [NoSetupTurns EXCEPT !.repairs = 1, !.edits = 2]),
  Installed(MapA, [NoSetupTurns EXCEPT !.repairs = 1, !.drops = 1, !.stops = 1, !.lapses = 1]),
  Installed(MapA, [NoSetupTurns EXCEPT !.remaps = 2, !.installs = 1]),
  \* two jobs at once
  Installed(MapA, [NoSetupTurns EXCEPT !.repairs = 1, !.cleanups = 1]),
  Installed(MapA, [NoSetupTurns EXCEPT !.cleanups = 1, !.faults = 1]),
  Installed(MapA, [NoSetupTurns EXCEPT !.attaches = 1, !.drops = 1, !.repairs = 1]),
  Installed(MapA, [NoSetupTurns EXCEPT !.drops = 1, !.syncs = 1, !.lapses = 1, !.looks = 1,
                                       !.answers = 1]),
  Installed(<<>>, [NoSetupTurns EXCEPT !.attaches = 2, !.drops = 1, !.faults = 1, !.lapses = 1,
                                       !.installs = 1])}

Parts == {"alloc", "managed", "host", "http", "native", "targets", "setup"}
Scenes(part, this, scenes, none) == IF part = this THEN scenes ELSE {none}
Quiet == (\A c \in Clients : client[c].pc = "dead") /\ faults = 0 /\ snap = <<>>
ListenersInit ==
  \E part \in Parts :
    /\ playing = part
    /\ Init /\ (Quiet <=> part # "alloc")
    /\ \E s \in Scenes(part, "managed", ManagedScenes, NoManaged) : ManagedInit(s)
    /\ \E s \in Scenes(part, "host", HostScenes, NoHost) : HostInit(s)
    /\ \E s \in Scenes(part, "http", HttpScenes, NoHttp) : HttpInit(s)
    /\ \E s \in Scenes(part, "native", NativeScenes, NoNative) : NativeRouterInit(s)
    /\ \E s \in Scenes(part, "targets", {Observations}, NoObservation) : TargetsInit(s)
    /\ \E s \in Scenes(part, "setup", SetupScenes, NoSetup) : DnsSetupInit(s)

Rest(part) ==
  /\ UNCHANGED <<playing, targetVars>>
  /\ IF part = "alloc" THEN TRUE ELSE UNCHANGED vars
  /\ IF part = "managed" THEN TRUE ELSE UNCHANGED managedVars
  /\ IF part = "host" THEN TRUE ELSE UNCHANGED hostVars
  /\ IF part = "http" THEN TRUE ELSE UNCHANGED httpVars
  /\ IF part = "native" THEN TRUE ELSE UNCHANGED nativeRouterVars
  /\ IF part = "setup" THEN TRUE ELSE UNCHANGED dnsSetupVars
ListenersNext ==
  \/ playing = "alloc" /\ Next /\ Rest("alloc")
  \/ playing = "managed" /\ ManagedNext /\ Rest("managed")
  \/ playing = "host" /\ HostNext /\ Rest("host")
  \/ playing = "http" /\ HttpNext /\ Rest("http")
  \/ playing = "native" /\ NativeRouterNext /\ Rest("native")
  \/ playing = "setup" /\ DnsSetupNext /\ Rest("setup")
ListenersSpec ==
  ListenersInit
  /\ [][ListenersNext]_<<playing, vars, managedVars, hostVars, httpVars, nativeRouterVars, targetVars,
            dnsSetupVars>>
=============================================================================
