---------------------------- MODULE MCServices ----------------------------
(* The services of one window.  A scene plays in one of the parts; in the    *)
(* others nothing is asked.                                                  *)
EXTENDS PortRoutingService, ComposePublishMutator, BrowserProxySync, ProxyConnections,
        RouterClients, ComposeAttachments, ContainerRefresh, Commands, WorktreeSetup,
        AgentStream

\* A request that has been answered.
RequestDone ==
  /\ request = [mode |-> "nearest", port |-> 1, range |-> 0, direction |-> "up"]
  /\ free = {1} /\ tried = <<1>> /\ decision = 1 /\ changes = 0

NoCompose ==
  [commands |-> 0, failed |-> 0, renamed |-> FALSE, late |-> FALSE, attaches |-> 0,
   removes |-> 0, attachFails |-> 0, renames |-> 0, repairs |-> 0, cleanings |-> 0]
Twice == [NoCompose EXCEPT !.attaches = 2, !.removes = 2, !.renames = 1]
ComposeScenes == {
  [Twice EXCEPT !.commands = 2, !.attachFails = 1],
  [Twice EXCEPT !.commands = 2, !.late = TRUE],
  [Twice EXCEPT !.commands = 1, !.repairs = 1, !.cleanings = 2]}

R0 == <<>>
R1 == (1 :> <<1, 2>>)
R2 == (1 :> <<1, 2>>) @@ (2 :> <<1, 2>>)
R3 == (1 :> <<3>>) @@ (2 :> <<2>>)
ProxyFaults(t, b, c) == [taken |-> t, binds |-> b, closes |-> c]
NoTurns ==
  [triggers |-> 0, routes |-> {R0}, cold |-> {FALSE}, changes |-> 0, ensures |-> 0, moves |-> 0,
   signals |-> 0, disposals |-> 0, calm |-> FALSE]
NoBrowser == [foreign |-> {}, proxyFaults |-> ProxyFaults(0, 0, 0), turns |-> NoTurns]
BrowserScenes == {
  \* two triggers and nothing else
  [NoBrowser EXCEPT !.turns = [NoTurns EXCEPT !.triggers = 2, !.routes = {R2}, !.calm = TRUE]],
  \* the candidates change, a close fails, the browser asks for an endpoint
  [NoBrowser EXCEPT !.proxyFaults.closes = 1,
     !.turns = [NoTurns EXCEPT !.triggers = 2, !.routes = {R2, R3}, !.changes = 1, !.ensures = 1]],
  \* the port is taken, and the proxies change hands
  [foreign |-> {1}, proxyFaults |-> ProxyFaults(1, 1, 0),
   turns |-> [NoTurns EXCEPT !.triggers = 2, !.routes = {R1}, !.moves = 1, !.signals = 1]],
  \* routes vanish, maybe because they are not known yet, and the window closes
  [NoBrowser EXCEPT !.proxyFaults.binds = 1,
     !.turns = [NoTurns EXCEPT !.triggers = 2, !.routes = {R0, R1}, !.cold = BOOLEAN,
                               !.changes = 1, !.disposals = 1]],
  \* the proxies come back
  [NoBrowser EXCEPT !.proxyFaults.binds = 1,
     !.turns = [NoTurns EXCEPT !.triggers = 1, !.routes = {R1}, !.ensures = 1, !.moves = 2,
                               !.signals = 1]]}

Limits == [connections |-> 2, upstreams |-> 3, routeJobs |-> 1, dnsJobs |-> 1, idleSockets |-> 2]
NoSockets == [clients |-> 0, pool |-> 0, faults |-> 0]
SocketScenes == {
  [clients |-> 2, pool |-> 0, faults |-> 1],
  [clients |-> 1, pool |-> 2, faults |-> 0],
  [clients |-> 0, pool |-> 3, faults |-> 1]}

\* Shells 1 and 2 below the window 4; the client is a child of shell 1, then another process.
Process(p, g, t) == [parent |-> p, group |-> g, tty |-> t]
Shells ==
  (1 :> Process(4, "g1", "t1")) @@ (2 :> Process(4, "g2", "t2")) @@ (4 :> Process(0, "g4", None))
ClientTables ==
  (1 :> ((9 :> Process(1, "g1", "t1")) @@ Shells)) @@ (2 :> ((9 :> Process(0, "g9", "t2")) @@ Shells))
ClientEnvironments == (1 :> "a") @@ (2 :> "none")
Label(r, g, t, n, i) == [root |-> r, group |-> g, tty |-> t, network |-> n, isolated |-> i]
ShellInA == Label(1, "g1", None, "a", TRUE)
ShellInB == Label(1, "g1", None, "b", TRUE)
TtyInB == Label(2, None, "t2", "b", TRUE)
WindowInA == Label(4, None, None, "a", FALSE)
Labels == {ShellInA, ShellInB, TtyInB, WindowInA}
Ttls == [network |-> 1, nonNetwork |-> 2]
ThreeConnections == 1..3
NoClientTurns ==
  [guarded |-> FALSE, tracks |-> FALSE, known |-> {TRUE}, hints |-> {None}, accepts |-> 0,
   timeouts |-> 0, deaths |-> 0, failures |-> 0, changes |-> 0, ticks |-> 0, births |-> 0,
   attachments |-> {}]
NoClients == [labelled |-> {}, turns |-> NoClientTurns]
ClientScenes == {
  \* the cache of verdicts, and a pid that is used again
  [labelled |-> {ShellInA},
   turns |-> [NoClientTurns EXCEPT !.accepts = 3, !.ticks = 2, !.births = 1, !.hints = {None, "a"}]],
  \* the process tracker dies while attachments change
  [labelled |-> {ShellInA},
   turns |-> [NoClientTurns EXCEPT !.tracks = TRUE, !.accepts = 1, !.deaths = 1, !.timeouts = 1,
                !.changes = 2, !.attachments = {ShellInA, ShellInB, TtyInB}]],
  \* the client is looked up in the list of sockets
  [labelled |-> {ShellInA},
   turns |-> [NoClientTurns EXCEPT !.accepts = 2, !.known = {FALSE}, !.failures = 1, !.ticks = 1,
                !.births = 1]],
  \* connections of guarded terminals
  [labelled |-> {},
   turns |-> [NoClientTurns EXCEPT !.guarded = TRUE, !.accepts = 2, !.known = BOOLEAN,
                !.hints = {None, "b"}, !.failures = 1, !.births = 1]],
  \* attachments change under the client
  [labelled |-> {},
   turns |-> [NoClientTurns EXCEPT !.accepts = 2, !.changes = 1, !.births = 1,
                !.attachments = {ShellInA, TtyInB, WindowInA}]]}

VARIABLE playing    \* the part in which something happens

ComposeTurns(n) == [faults |-> 0, passes |-> 1, lastId |-> n, docker |-> TRUE, backoff |-> FALSE, events |-> {}, moves |-> <<>>, clones |-> {"a", "b", "c"}]
\* a row whose ports lead to the given container ports
ComposeAt(net, project, kind, ports) ==
  [net |-> net, project |-> project, kind |-> kind, status |-> "attached",
   ports |-> [p \in DOMAIN ports |-> [actual |-> ports[p], pid |-> p]]]
RoutesOf(row) == [p \in DOMAIN row.ports |-> RouteOf(row, p, row.ports[p].actual)]
PortsOn(ps, q) == [p \in ps |-> q]
RunningProjects(a, b, c) == [a |-> a, b |-> b, c |-> c]
Stopped == <<>>
TwoServices == ComposeAt("n", "a", "clone", PortsOn({1, 2}, 2))
OneService == ComposeAt("n", "a", "clone", PortsOn({1}, 2))
ComposeJob(kind, id, project) ==
  [kind |-> kind, id |-> id, from |-> 1, net |-> "n", project |-> project, row |-> "clone", ports |-> {2}, named |-> FALSE,
   made |-> FALSE, existing |-> FALSE]
AttachmentScene(row, jobs, left) ==
  [rows |-> (1 :> row), processes |-> RoutesOf(row), running |-> RunningProjects(Actuals(row.ports), Stopped, Stopped),
   overrides |-> {row.project}, jobs |-> jobs, strays |-> {}, turns |-> left]
NothingAttached(jobs, left) ==
  [rows |-> <<>>, processes |-> <<>>, running |-> RunningProjects(Stopped, Stopped, Stopped), overrides |-> {},
   jobs |-> jobs, strays |-> {}, turns |-> left]
AttachmentScenes == {
  [AttachmentScene(TwoServices, <<>>, [ComposeTurns(2) EXCEPT !.faults = 1, !.events = {"restart"}, !.passes = 2]) EXCEPT !.running.a = (1 :> 3 @@ 2 :> 2)],
  AttachmentScene(TwoServices, [c1 |-> ComposeJob("detach", 1, "a")], [ComposeTurns(2) EXCEPT !.moves = [a |-> PortsOn({1, 2}, 3)]]),
  AttachmentScene(OneService, [c1 |-> ComposeJob("attach", 2, "b")], [ComposeTurns(2) EXCEPT !.faults = 1]),
  NothingAttached([c1 |-> ComposeJob("attach", 1, "b"), c2 |-> ComposeJob("attach", 2, "c")], [ComposeTurns(0) EXCEPT !.faults = 1, !.passes = 0]),
  NothingAttached([c1 |-> ComposeJob("attach", 1, "b"), c2 |-> [ComposeJob("attach", 2, "b") EXCEPT !.net = "m"]], [ComposeTurns(0) EXCEPT !.passes = 0]),
  AttachmentScene(OneService, [c1 |-> ComposeJob("rename", 1, "b")], [ComposeTurns(2) EXCEPT !.faults = 1, !.clones = {}]),
  AttachmentScene(OneService, [c1 |-> ComposeJob("remove", 1, "a")], [ComposeTurns(2) EXCEPT !.faults = 1, !.moves = [a |-> PortsOn({1, 2}, 2)], !.events = {"cleaning"}]),
  [AttachmentScene(OneService, [c1 |-> [ComposeJob("attach", 2, "b") EXCEPT !.existing = TRUE]], [ComposeTurns(2) EXCEPT !.events = {"restart"}])
     EXCEPT !.running.b = PortsOn({2}, 2), !.strays = {"b"}],
  AttachmentScene([OneService EXCEPT !.kind = "adopted"], <<>>, [ComposeTurns(2) EXCEPT !.clones = {}, !.passes = 2, !.events = {"cleaning", "outage"}]),
  AttachmentScene(OneService, [c1 |-> [ComposeJob("attach", 2, "a") EXCEPT !.ports = {1}]], [ComposeTurns(2) EXCEPT !.passes = 1, !.events = {"cleaning", "outage"}]),
  AttachmentScene([OneService EXCEPT !.kind = "plain"], [c1 |-> [ComposeJob("attach", 2, "b") EXCEPT !.row = "plain"]], [ComposeTurns(2) EXCEPT !.clones = {}, !.faults = 1]),
  AttachmentScene(OneService, [c1 |-> [ComposeJob("copy", 2, "b") EXCEPT !.net = "m"], c2 |-> ComposeJob("detach", 1, "a")], [ComposeTurns(2) EXCEPT !.passes = 0]),
  AttachmentScene([OneService EXCEPT !.kind = "plain"], [c1 |-> [ComposeJob("copy", 2, "b") EXCEPT !.net = "m", !.row = "plain"]], [ComposeTurns(2) EXCEPT !.clones = {}]),
  AttachmentScene([OneService EXCEPT !.kind = "plain"], [c1 |-> ComposeJob("remove", 1, "a"), c2 |-> ComposeJob("detach", 1, "a")], [ComposeTurns(2) EXCEPT !.clones = {}])}
NoAttachments == NothingAttached(<<>>, [ComposeTurns(0) EXCEPT !.passes = 0])

RuntimesOfNetworks == [a |-> "docker", b |-> "docker", c |-> "podman"]
RefreshTurns == [owns |-> TRUE, sidebar |-> FALSE, slot |-> "free", changes |-> 0, deaths |-> 0, polls |-> 0, faults |-> 0,
          shares |-> 0, moves |-> 0, lists |-> 0, others |-> 0, may |-> {"a"}]
LiveStream == [NoStream EXCEPT !.on = TRUE, !.child = "docker", !.healthy = TRUE, !.next = <<"podman">>]
NewStream == [LiveStream EXCEPT !.healthy = FALSE]
RefreshScene(s, t) == [stream |-> s, turns |-> t]
RefreshScenes == {
  \* two changes and a poll; two containers fill a batch
  RefreshScene(LiveStream, [RefreshTurns EXCEPT !.changes = 2, !.polls = 1]),
  RefreshScene(LiveStream, [RefreshTurns EXCEPT !.changes = 2, !.may = {"a", "b"}]),
  \* the stream breaks, also before it is healthy, and the other runtime is tried
  RefreshScene(LiveStream, [RefreshTurns EXCEPT !.changes = 2, !.deaths = 1, !.may = {"b"}]),
  RefreshScene(NewStream, [RefreshTurns EXCEPT !.changes = 1, !.deaths = 3, !.may = {"a", "c"}]),
  \* another window writes; rounds fail; the slot on disk is taken
  RefreshScene(LiveStream, [RefreshTurns EXCEPT !.changes = 1, !.shares = 1, !.polls = 1, !.may = {"b"}]),
  RefreshScene(LiveStream, [RefreshTurns EXCEPT !.changes = 1, !.polls = 1, !.faults = 1]),
  RefreshScene(LiveStream, [RefreshTurns EXCEPT !.shares = 2, !.polls = 1, !.faults = 1, !.others = 1, !.slot = "foreign", !.sidebar = TRUE]),
  \* the ownership moves away and back
  RefreshScene(LiveStream, [RefreshTurns EXCEPT !.changes = 1, !.polls = 1, !.moves = 2, !.slot = "stale"]),
  RefreshScene(LiveStream, [RefreshTurns EXCEPT !.changes = 1, !.lists = 1, !.shares = 1, !.moves = 1])}
NoRefresh == RefreshScene(NoStream, RefreshTurns)

CommandRows ==
  {Row("network", "n1", {}), Row("network", "n2", {}), Row("exposure", "e1", {"n1"}),
   Row("binding", "b1", {"n2"}), Row("compose", "c1", {"n1"}), Row("window", "w1", {}),
   Row("attachment", "t1", {"n1", "w1"}), Row("candidate", "s1", {}), Row("process", "p1", {})}
NoCommand == [rows |-> {}, lease |-> "me", meddling |-> 0]
CommandScenes ==
  {[rows |-> CommandRows, lease |-> "me", meddling |-> 2]}
  \union {[rows |-> CommandRows, lease |-> l, meddling |-> 1] : l \in {"other", "nobody"}}

\* A clone of c1 is attached, and c1 itself runs too; c2 has two containers.
AttachedProjects == <<[names |-> {"c1", "c1-clone"}, here |-> TRUE], [names |-> {"c3"}, here |-> FALSE]>>
FoundOne(p, inside, files) == [project |-> p, inside |-> inside, files |-> files]
FoundContainers ==
  <<FoundOne("c1", TRUE, TRUE), FoundOne("c2", TRUE, TRUE), FoundOne("c2", TRUE, TRUE), FoundOne("c4", TRUE, FALSE),
    FoundOne("c5", FALSE, TRUE)>>
NoWorktree ==
  [folders |-> {}, branches |-> {"b1"}, creates |-> 0, fails |-> 0, born |-> 0, resumes |-> 0,
   inits |-> 0, removals |-> 0, additions |-> 0, deletions |-> 0, removed |-> FALSE, explicit |-> FALSE]
WorktreeScenes == {
  \* two interruptions; an initialization in the new window; a network removed
  [NoWorktree EXCEPT !.creates = 3, !.fails = 2, !.born = 2, !.resumes = 2],
  [NoWorktree EXCEPT !.creates = 2, !.fails = 1, !.born = 3, !.resumes = 1, !.inits = 1],
  [NoWorktree EXCEPT !.creates = 2, !.fails = 1, !.born = 3, !.resumes = 1, !.inits = 1, !.removals = 1,
     !.explicit = TRUE],
  \* a folder in the way, and one that is deleted; a network of the same name
  [NoWorktree EXCEPT !.folders = {"f2"}, !.branches = {"b1", "b2"}, !.creates = 2, !.fails = 1,
     !.born = 2, !.resumes = 1, !.deletions = 1],
  [NoWorktree EXCEPT !.branches = {"b1", "b2"}, !.creates = 2, !.fails = 1, !.born = 3, !.additions = 1]}

Unasked ==
  [register |-> 0, remove |-> 0, refresh |-> 0, status |-> 0, stop |-> 0, start |-> 0, dispose |-> 0,
   refusals |-> 0, timeouts |-> 0, failures |-> 0, polls |-> 0, hooks |-> 0, deaths |-> 0, starts |-> 0,
   drops |-> 0, others |-> 0, cuts |-> 0]
Streaming(left) == [connected |-> TRUE, others |-> TRUE, left |-> left]
Alone(left) == [connected |-> TRUE, others |-> FALSE, left |-> left]
Unconnected(left) == [connected |-> FALSE, others |-> TRUE, left |-> left]
NoRequests == Unconnected(Unasked)
StreamScenes == {
  \* answers and snapshots overtake each other
  Alone([Unasked EXCEPT !.refresh = 1, !.hooks = 1, !.register = 1]),
  Streaming([Unasked EXCEPT !.register = 1, !.failures = 1, !.remove = 1]),
  Streaming([Unasked EXCEPT !.polls = 1, !.hooks = 1, !.failures = 1]),
  \* the stream breaks
  Alone([Unasked EXCEPT !.drops = 1, !.refresh = 1]),
  Alone([Unasked EXCEPT !.drops = 1, !.register = 1]),
  Alone([Unasked EXCEPT !.drops = 1, !.hooks = 1, !.cuts = 1]),
  Streaming([Unasked EXCEPT !.drops = 1, !.dispose = 1, !.refresh = 1, !.refusals = 1]),
  Streaming([Unasked EXCEPT !.deaths = 1, !.starts = 1, !.refresh = 1, !.timeouts = 1]),
  Unconnected([Unasked EXCEPT !.refresh = 1, !.drops = 1]),
  Unconnected([Unasked EXCEPT !.status = 1, !.others = 1, !.drops = 1]),
  \* Stops and Starts
  Streaming([Unasked EXCEPT !.stop = 1, !.start = 1, !.starts = 1, !.hooks = 1, !.cuts = 1]),
  Unconnected([Unasked EXCEPT !.stop = 2, !.start = 1, !.status = 1]),
  Streaming([Unasked EXCEPT !.stop = 1, !.drops = 1, !.refresh = 1]),
  Streaming([Unasked EXCEPT !.stop = 1, !.register = 1, !.timeouts = 1]),
  Streaming([Unasked EXCEPT !.others = 2, !.start = 1, !.drops = 1]),
  Streaming([Unasked EXCEPT !.others = 2, !.status = 1, !.drops = 1])}

Parts == {"ports", "compose", "browser", "sockets", "clients", "attachments", "refresh", "commands",
          "worktree", "stream"}
Scenes(part, this, scenes, none) == IF part = this THEN scenes ELSE {none}
ServicesInit ==
  \E part \in Parts :
    /\ playing = part
    /\ IF part = "ports" THEN Init ELSE RequestDone
    /\ \E s \in Scenes(part, "compose", ComposeScenes, NoCompose) : MutatorInit(s)
    /\ \E s \in Scenes(part, "browser", BrowserScenes, NoBrowser) : BrowserInit(s)
    /\ \E s \in Scenes(part, "sockets", SocketScenes, NoSockets) : SocketInit(s)
    /\ \E s \in Scenes(part, "clients", ClientScenes, NoClients) : ClientsInit(s)
    /\ \E s \in Scenes(part, "attachments", AttachmentScenes, NoAttachments) : AttachmentsInit(s)
    /\ \E s \in Scenes(part, "refresh", RefreshScenes, NoRefresh) : RefreshInit(s)
    /\ \E s \in Scenes(part, "commands", CommandScenes, NoCommand) : CommandsInit(s)
    /\ \E s \in Scenes(part, "worktree", WorktreeScenes, NoWorktree) : WtInit(s)
    /\ \E s \in Scenes(part, "stream", StreamScenes, NoRequests) : StreamInit(s)

Rest(part) ==
  /\ UNCHANGED playing
  /\ IF part = "ports" THEN TRUE ELSE UNCHANGED vars
  /\ IF part = "compose" THEN TRUE ELSE UNCHANGED mutatorVars
  /\ IF part = "browser" THEN TRUE ELSE UNCHANGED browserVars
  /\ IF part = "sockets" THEN TRUE ELSE UNCHANGED socketVars
  /\ IF part = "clients" THEN TRUE ELSE UNCHANGED clientVars
  /\ IF part = "attachments" THEN TRUE ELSE UNCHANGED attachmentVars
  /\ IF part = "refresh" THEN TRUE ELSE UNCHANGED refreshVars
  /\ IF part = "commands" THEN TRUE ELSE UNCHANGED commandVars
  /\ IF part = "worktree" THEN TRUE ELSE UNCHANGED wtVars
  /\ IF part = "stream" THEN TRUE ELSE UNCHANGED streamVars
ServicesNext ==
  \/ playing = "ports" /\ Next /\ Rest("ports")
  \/ playing = "compose" /\ MutatorNext /\ Rest("compose")
  \/ playing = "browser" /\ BrowserNext /\ Rest("browser")
  \/ playing = "sockets" /\ SocketNext /\ Rest("sockets")
  \/ playing = "clients" /\ ClientsNext /\ Rest("clients")
  \/ playing = "attachments" /\ AttachmentsNext /\ Rest("attachments")
  \/ playing = "refresh" /\ RefreshNext /\ Rest("refresh")
  \/ playing = "commands" /\ CommandsNext /\ Rest("commands")
  \/ playing = "worktree" /\ WtNext /\ Rest("worktree")
  \/ playing = "stream" /\ StreamNext /\ Rest("stream")
ServicesSpec ==
  ServicesInit
  /\ [][ServicesNext]_<<playing, vars, mutatorVars, browserVars, socketVars, clientVars, attachmentVars,
            refreshVars, commandVars, wtVars, streamVars>>
=============================================================================
