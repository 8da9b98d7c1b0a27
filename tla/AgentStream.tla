---------------------------- MODULE AgentStream ----------------------------
(* The connection of a window to the daemon: requests and their answers,     *)
(* the stream of snapshots, and its resumption (local-agent-client.ts; the   *)
(* daemon's side is port-manager-agent.ts).                                   *)
(*                                                                            *)
(* What runs between two awaits is one step.  An answer settles a promise;    *)
(* what waits for the promise runs after the whole chunk was read: win.todo   *)
(* holds it, and nothing else moves before it is empty.  How a daemon comes   *)
(* and goes is the subject of DaemonLifecycle; here it may happen any time.   *)
EXTENDS Integers, Sequences, FiniteSets, SequencesExt

CONSTANTS
  StreamCalls,   \* the calls that a window may have under way
  Streams,       \* names for sockets, used again once closed
  RowIds         \* ids of managed processes

VARIABLES
  win,        \* the LocalAgentClient of the window
  wire,       \* per socket: its state, and the frames on their way up and down
  agent,      \* the daemon
  marker,     \* the Stops that the windows asked for, and those taken back
  streamLeft  \* how often each disturbance may still happen

streamVars == <<win, wire, agent, marker, streamLeft>>

Reconnect == 0
Askers == StreamCalls \union {Reconnect}
MaxDelay == 2

NoRequest == [pc |-> "idle", kind |-> "none", row |-> {}, gen |-> 0, at |-> 0, n |-> 0, seen |-> 0]
FreeSocket ==
  [st |-> "free", by |-> -1, gen |-> 0, up |-> <<>>, down |-> <<>>, wants |-> FALSE, cut |-> FALSE]
NoRows == [rows |-> {}, of |-> 0, seen |-> 0]
NoBuild == [stage |-> "none", rows |-> {}, seen |-> 0]
\* A daemon that has just started: nothing registered, nothing sent.
NewAgent(n, seen, others) ==
  [n |-> n, up |-> TRUE, dying |-> FALSE, rows |-> {}, seen |-> seen, last |-> {"nothing"},
   cached |-> FALSE, timer |-> FALSE, pending |-> FALSE, work |-> {}, others |-> others,
   flush |-> NoBuild, poll |-> NoBuild]

isAutomaticStartSuspended == win.disposed \/ marker.made > marker.undone
Quiescent == win.todo = <<>>
StreamSpend(what) == streamLeft[what] > 0 /\ streamLeft' = [streamLeft EXCEPT ![what] = @ - 1]
Task(who, what, load) == [who |-> who, what |-> what, load |-> load]
TasksOf(whos, what) == [i \in 1..Cardinality(whos) |-> Task(SetToSeq(whos)[i], what, NoRows)]

---------------------------------------------------------------------------
(* The window.                                                              *)

\* The tree is repainted some milliseconds later, once for a burst.
queueChangeEvent(w) == IF w.disposed THEN w ELSE [w EXCEPT !.notify = TRUE]
\* What a snapshot says, apart from its time.
buildClientSnapshotSignature(view) == [view EXCEPT !.seen = 0]
applySnapshot(w, view) ==
  IF buildClientSnapshotSignature(view) = buildClientSnapshotSignature(w.view)
  THEN [w EXCEPT !.view = view]
  ELSE queueChangeEvent([w EXCEPT !.view = view])
upsertKnownProcess(w, row) == applySnapshot(w, [w.view EXCEPT !.rows = @ \union row])
removeKnownProcess(w, row) == applySnapshot(w, [w.view EXCEPT !.rows = @ \ row])
applyDaemonStatus(w, n) == applySnapshot(w, [w.view EXCEPT !.of = n])

enableAutomaticEventReconnect(w) ==
  IF w.enabled THEN w ELSE [w EXCEPT !.enabled = TRUE, !.delay = 0]
disableAutomaticEventReconnect(w) ==
  [w EXCEPT !.enabled = FALSE, !.awaiting = FALSE, !.timer = FALSE]
scheduleEventReconnect(w) ==
  IF isAutomaticStartSuspended \/ ~w.enabled \/ w.timer \/ w.sock # 0 THEN w
  ELSE [w EXCEPT !.timer = TRUE]
BackOff(w) == [w EXCEPT !.delay = IF @ < MaxDelay THEN @ + 1 ELSE @]

\* The promises are settled at once; what waits for them runs later.
rejectAllPending(w) ==
  LET asking == {a \in Askers : w.req[a].pc = "sent"}
  IN [w EXCEPT !.todo = @ \o TasksOf(asking, "rejected"),
               !.req = [a \in Askers |-> IF a \in asking THEN [@[a] EXCEPT !.pc = "settled"] ELSE @[a]]]

Destroyed(net, s) == IF s = 0 THEN net ELSE [net EXCEPT ![s] = FreeSocket]
Opening(net, s, by, gen) ==
  [net EXCEPT ![s] = [FreeSocket EXCEPT !.st = "opening", !.by = by, !.gen = gen]]
AttachKeepsBuffer(w, s) == [w EXCEPT !.sock = s, !.owed = ~isAutomaticStartSuspended]
attachSocketHandlers(w, s) == [w EXCEPT !.sock = s, !.half = FALSE, !.owed = ~isAutomaticStartSuspended]
StreamOpen(net, s) == [net EXCEPT ![s].st = "open"]

\* A call has returned, whatever its result.
CallEnds(w, a) == [w EXCEPT !.req[a] = [NoRequest EXCEPT !.n = w.req[a].n]]

\* The first call that is not under way: they are alike.
Spare(c) == win.req[c].pc = "idle" /\ \A d \in 1..(c - 1) : win.req[d].pc # "idle"

\* The frame of a request, and the promise of its answer.
RequestSent(w, net, a) ==
  /\ win' = [w EXCEPT !.req[a] = [@ EXCEPT !.pc = "sent", !.at = w.sock, !.n = @ + 1, !.seen = agent.seen]]
  /\ wire' = [net EXCEPT ![w.sock].up =
       Append(@, [who |-> a, n |-> w.req[a].n + 1, kind |-> w.req[a].kind, row |-> w.req[a].row])]

\* A call comes by while there is a stream, while one is resumed, while one is opened, or opens one.
ensureConnected(w, net, a) ==
  \/ w.sock # 0 /\ RequestSent(w, net, a)
  \/ /\ w.sock = 0 /\ w.req[Reconnect].pc # "idle"
     /\ win' = [w EXCEPT !.req[a].pc = "afterReconnect"] /\ wire' = net
  \/ /\ w.sock = 0 /\ w.req[Reconnect].pc = "idle"
     /\ w.connecting # 0 /\ net[w.connecting].gen = w.gen
     /\ win' = [w EXCEPT !.req[a].pc = "connecting", !.req[a].at = w.connecting] /\ wire' = net
  \/ /\ w.sock = 0 /\ w.req[Reconnect].pc = "idle"
     /\ ~(w.connecting # 0 /\ net[w.connecting].gen = w.gen)
     /\ \E s \in Streams :
          /\ net[s].st = "free" /\ \A r \in 1..(s - 1) : net[r].st # "free"
          /\ win' = [w EXCEPT !.req[a].pc = "connecting", !.req[a].at = s, !.connecting = s]
          /\ wire' = Opening(net, s, 1, w.gen)

\* The end of a resumption, however it ended.
ReconnectEnds(w) ==
  LET wait == {a \in StreamCalls : w.req[a].pc = "afterReconnect"}
      ended == CallEnds(w, Reconnect)
  IN scheduleEventReconnect([ended EXCEPT !.todo = @ \o TasksOf(wait, "again")])
openSocket(w, net) ==
  \E s \in Streams :
    /\ net[s].st = "free" /\ \A r \in 1..(s - 1) : net[r].st # "free"
    /\ win' = [w EXCEPT !.req[Reconnect].pc = "opens", !.req[Reconnect].at = s]
    /\ wire' = Opening(net, s, Reconnect, w.req[Reconnect].gen)
\* The stream that was being resumed is given up, if it still is the stream.
GivenUp(w, s) ==
  IF w.sock # s THEN w
  ELSE LET r == rejectAllPending(w)
       IN BackOff([r EXCEPT !.sock = 0, !.half = FALSE, !.awaiting = FALSE])

reconnectEventStreamToExistingAgent ==
  /\ Quiescent /\ win.timer
  /\ LET w == [win EXCEPT !.timer = FALSE]
         started == [w EXCEPT !.req[Reconnect].gen = w.gen, !.req[Reconnect].kind = "status"]
     IN \/ /\ \/ isAutomaticStartSuspended \/ ~w.enabled \/ w.sock # 0
              \/ w.req[Reconnect].pc # "idle"
           /\ win' = w /\ wire' = wire
        \/ /\ ~isAutomaticStartSuspended /\ w.enabled /\ w.sock = 0 /\ w.req[Reconnect].pc = "idle"
           /\ IF w.connecting # 0
              THEN /\ win' = [started EXCEPT !.req[Reconnect].pc = "waits",
                                             !.req[Reconnect].at = w.connecting]
                   /\ wire' = wire
              ELSE openSocket(started, wire)
  /\ UNCHANGED <<agent, marker, streamLeft>>

\* A call of the window: what it asks of the daemon, and for which row.
requestOf(c, kind, row) ==
  /\ Quiescent /\ Spare(c) /\ ~isAutomaticStartSuspended
  \* a refresh joins the one under way
  /\ ~(kind = "refresh" /\ \E d \in StreamCalls : /\ win.req[d].pc # "idle" /\ win.req[d].kind = kind
                                                  /\ win.req[d].gen = win.gen)
  /\ StreamSpend(kind)
  /\ LET w == [win EXCEPT !.req[c].kind = kind, !.req[c].row = row, !.req[c].gen = win.gen]
     IN ensureConnected(enableAutomaticEventReconnect(w), wire, c)
  /\ UNCHANGED <<agent, marker>>

\* Everything of the last connection goes: what was shown, and who waited for answers.
Cleared(w) == queueChangeEvent([rejectAllPending(w) EXCEPT !.sock = 0, !.view = NoRows])
AgentGone(a) == [NewAgent(a.n, a.seen, a.others) EXCEPT !.up = FALSE]
Hangup(net) == [s \in Streams |-> IF net[s].st = "open" THEN [net[s] EXCEPT !.st = "gone"] ELSE net[s]]
KillsIt == win.view.of = agent.n /\ agent.up

\* A Stop: a request when there is a stream, a signal to the process otherwise.
stopAgent(c) ==
  /\ Quiescent /\ Spare(c) /\ ~win.disposed /\ StreamSpend("stop")
  /\ marker' = [marker EXCEPT !.made = @ + 1]
  /\ LET w == [disableAutomaticEventReconnect(win) EXCEPT !.gen = @ + 1, !.owed = FALSE,
                                                          !.req[c].kind = "stop"]
     IN IF w.sock # 0 THEN RequestSent(w, wire, c) /\ UNCHANGED agent
        ELSE /\ win' = Cleared(CallEnds(w, c))
             /\ agent' = IF KillsIt THEN AgentGone(agent) ELSE agent
             /\ wire' = IF KillsIt THEN Hangup(wire) ELSE wire

\* An explicit Start after a Stop drops the old stream and waits for the old daemon to leave.
start(c) ==
  /\ Quiescent /\ Spare(c) /\ ~win.disposed
  /\ marker.made > marker.undone /\ StreamSpend("start")
  /\ LET w == disableAutomaticEventReconnect([win EXCEPT !.gen = @ + 1])
         r == [NoRequest EXCEPT !.pc = "exitWait", !.kind = "status", !.gen = w.gen, !.seen = marker.made,
                                !.n = w.req[c].n]
     IN win' = Cleared([w EXCEPT !.req[c] = r])
  /\ wire' = Destroyed(wire, win.sock)
  /\ UNCHANGED <<agent, marker>>
\* A Stop that came later wins.
waitForPreviousDaemonExit(c) ==
  /\ Quiescent /\ win.req[c].pc = "exitWait"
  /\ IF win.disposed \/ win.req[c].gen # win.gen \/ marker.made # win.req[c].seen
     THEN win' = CallEnds(win, c) /\ UNCHANGED <<wire, marker>>
     ELSE /\ marker' = [marker EXCEPT !.undone = marker.made]
          /\ ensureConnected(enableAutomaticEventReconnect(win), wire, c)
  /\ UNCHANGED <<agent, streamLeft>>

disposeClient ==
  /\ Quiescent /\ ~win.disposed /\ StreamSpend("dispose")
  /\ LET w == disableAutomaticEventReconnect([win EXCEPT !.disposed = TRUE, !.gen = @ + 1, !.notify = FALSE])
     IN win' = [rejectAllPending(w) EXCEPT !.sock = 0]
  /\ wire' = Destroyed(wire, win.sock)
  /\ UNCHANGED <<agent, marker>>

\* A connection is there or is not: those who waited for it go on.
ConnectSettles(w, s, what) ==
  LET wait == {a \in StreamCalls : w.req[a].pc = "connecting" /\ w.req[a].at = s}
      resumer == {a \in {Reconnect} : w.req[a].pc = "waits" /\ w.req[a].at = s}
  IN [w EXCEPT !.connecting = IF @ = s THEN 0 ELSE @,
               !.todo = @ \o TasksOf(wait, what) \o TasksOf(resumer, "again")]

\* A socket opened for a call is the stream only if no Stop came between, and none was there first.
attachConnectedSocket(s) ==
  /\ Quiescent /\ wire[s].st = "opening" /\ wire[s].by # Reconnect /\ agent.up
  /\ \/ /\ isAutomaticStartSuspended \/ wire[s].gen # win.gen
        /\ win' = ConnectSettles(win, s, "rejected") /\ wire' = Destroyed(wire, s)
     \/ /\ ~isAutomaticStartSuspended /\ wire[s].gen = win.gen
        /\ win' = ConnectSettles(IF win.sock # 0 THEN win ELSE attachSocketHandlers(win, s), s, "connected")
        /\ wire' = IF win.sock # 0 THEN Destroyed(wire, s) ELSE StreamOpen(wire, s)
  /\ UNCHANGED <<agent, marker, streamLeft>>

\* A socket opened to resume the stream: its first request subscribes it.
resubscribe(s) ==
  /\ Quiescent /\ wire[s].st = "opening" /\ wire[s].by = Reconnect /\ agent.up
  /\ \/ /\ win.disposed \/ ~win.enabled \/ wire[s].gen # win.gen \/ win.sock # 0
        /\ win' = ReconnectEnds(win) /\ wire' = Destroyed(wire, s)
     \/ /\ ~win.disposed /\ win.enabled /\ wire[s].gen = win.gen /\ win.sock = 0
        /\ LET w == [attachSocketHandlers(win, s) EXCEPT !.awaiting = TRUE]
           IN IF isAutomaticStartSuspended
              THEN win' = ReconnectEnds(GivenUp(w, s)) /\ wire' = Destroyed(wire, s)
              ELSE RequestSent(w, StreamOpen(wire, s), Reconnect)
  /\ UNCHANGED <<agent, marker, streamLeft>>

\* Nobody listens, or the daemon is too slow to accept.
ConnectFails(s) ==
  /\ Quiescent /\ wire[s].st = "opening"
  /\ IF agent.up THEN StreamSpend("refusals") ELSE UNCHANGED streamLeft
  /\ win' = IF wire[s].by # Reconnect THEN ConnectSettles(win, s, "rejected") ELSE ReconnectEnds(BackOff(win))
  /\ wire' = Destroyed(wire, s)
  /\ UNCHANGED <<agent, marker>>

\* The window learns that its stream is closed.
CloseEvent(s) ==
  /\ Quiescent /\ wire[s].st = "gone"
  /\ wire' = Destroyed(wire, s)
  /\ win' = IF win.sock # s THEN win
            ELSE LET w == [win EXCEPT !.sock = 0, !.half = FALSE, !.awaiting = FALSE]
                 IN scheduleEventReconnect(rejectAllPending(IF win.awaiting THEN BackOff(w) ELSE w))
  /\ UNCHANGED <<agent, marker, streamLeft>>

\* A chunk holds some whole frames, and perhaps the beginning of the next.  Snapshots are applied
\* as they are read.
handleData(s, k, part) ==
  /\ Quiescent /\ win.sock = s /\ wire[s].st \in {"open", "gone"}
  /\ k > 0 \/ (part /\ ~wire[s].cut)
  /\ IF part THEN k < Len(wire[s].down) /\ StreamSpend("cuts") ELSE UNCHANGED streamLeft
  /\ LET frames == SubSeq(wire[s].down, IF win.half = wire[s].cut THEN 1 ELSE 2, k)
         snapshots == SelectSeq(frames, LAMBDA m : m.type = "snapshot")
         answers == SelectSeq(frames, LAMBDA m :
             m.type # "snapshot" /\ win.req[m.who].pc = "sent" /\ win.req[m.who].n = m.n)
         read == FoldLeft(LAMBDA w, m : applySnapshot(w, m.load), win, snapshots)
         whos == {answers[i].who : i \in 1..Len(answers)}
     IN win' = [read EXCEPT
          !.awaiting = @ /\ snapshots = <<>>,
          !.delay = IF win.awaiting /\ snapshots # <<>> THEN 0 ELSE @,
          !.half = part,
          !.todo = [i \in 1..Len(answers) |-> Task(answers[i].who, answers[i].type, answers[i].load)],
          !.req = [a \in Askers |-> IF a \in whos THEN [@[a] EXCEPT !.pc = "settled"] ELSE @[a]]]
  /\ wire' = [wire EXCEPT ![s].down = SubSeq(@, k + 1, Len(@)), ![s].cut = part]
  /\ UNCHANGED <<agent, marker>>

\* What a call does with the answer.
handleResponse(w, a, load) ==
  LET r == w.req[a]
      over == CallEnds(w, a)
  IN CASE r.kind = "refresh" ->
            IF ~w.disposed /\ r.gen = w.gen THEN applySnapshot(over, load) ELSE over
       [] r.kind = "register" -> upsertKnownProcess(over, r.row)
       [] r.kind = "remove" -> removeKnownProcess(over, r.row)
       [] r.kind = "status" -> applyDaemonStatus(over, load.of)

\* What waited for a promise runs.
Continue ==
  /\ ~Quiescent
  /\ LET t == Head(win.todo)
         a == t.who
         w == [win EXCEPT !.todo = Tail(@)]
         r == win.req[a]
         stops == r.kind = "stop" /\ t.what = "rejected" /\ KillsIt
     IN \/ /\ t.what = "connected"
           /\ IF isAutomaticStartSuspended \/ w.sock = 0 THEN win' = CallEnds(w, a) /\ wire' = wire
              ELSE RequestSent(w, wire, a)
           /\ UNCHANGED agent
        \/ /\ t.what = "again" /\ a # Reconnect
           /\ IF w.disposed \/ r.gen # w.gen THEN win' = CallEnds(w, a) /\ wire' = wire
              ELSE ensureConnected(w, wire, a)
           /\ UNCHANGED agent
        \/ /\ t.what = "again" /\ a = Reconnect
           /\ IF r.gen # w.gen \/ w.sock # 0 THEN win' = ReconnectEnds(w) /\ wire' = wire
              ELSE openSocket(w, wire)
           /\ UNCHANGED agent
        \/ /\ t.what \in {"answer", "rejected"} /\ r.kind = "stop"
           /\ win' = Cleared(CallEnds(w, a))
           /\ agent' = IF stops THEN AgentGone(agent) ELSE agent
           /\ wire' = LET net == IF stops THEN Hangup(wire) ELSE wire IN Destroyed(net, w.sock)
        \/ /\ t.what = "answer" /\ a = Reconnect
           /\ win' = ReconnectEnds(applyDaemonStatus(w, t.load.of)) /\ UNCHANGED <<wire, agent>>
        \/ /\ t.what = "rejected" /\ a = Reconnect
           /\ win' = ReconnectEnds(GivenUp(w, r.at))
           /\ wire' = IF w.sock = r.at THEN Destroyed(wire, r.at) ELSE wire
           /\ UNCHANGED agent
        \/ /\ t.what = "answer" /\ a # Reconnect /\ r.kind # "stop"
           /\ win' = handleResponse(w, a, t.load) /\ UNCHANGED <<wire, agent>>
        \/ /\ t.what = "rejected" /\ a # Reconnect /\ r.kind # "stop"
           /\ win' = CallEnds(w, a) /\ UNCHANGED <<wire, agent>>
  /\ UNCHANGED <<marker, streamLeft>>

\* Ten seconds without an answer.
RequestTimer(a) ==
  /\ Quiescent /\ win.req[a].pc = "sent" /\ StreamSpend("timeouts")
  /\ win' = [win EXCEPT !.req[a].pc = "settled", !.todo = <<Task(a, "rejected", NoRows)>>]
  /\ UNCHANGED <<wire, agent, marker>>

\* The tree is painted from what the window has now.
ChangeEvent ==
  /\ Quiescent /\ win.notify
  /\ win' = [win EXCEPT !.notify = FALSE, !.shown = buildClientSnapshotSignature(win.view)]
  /\ UNCHANGED <<wire, agent, marker, streamLeft>>

---------------------------------------------------------------------------
(* The daemon.                                                              *)

hasEventClients(a, net) == a.others \/ \E s \in Streams : net[s].st = "open" /\ net[s].wants
queueSnapshotBroadcast(a, net) ==
  IF ~hasEventClients(a, net) THEN [a EXCEPT !.pending = FALSE]
  ELSE [a EXCEPT !.pending = TRUE, !.timer = @ \/ a.flush.stage = "none"]

\* A snapshot goes to every subscriber, unless it says what the last one said.
buildSnapshotSignature(b) == b.rows
SnapshotSent(net, a, b) ==
  IF buildSnapshotSignature(b) = a.last THEN net
  ELSE [s \in Streams |->
         IF net[s].st # "open" \/ ~net[s].wants THEN net[s]
         ELSE [net[s] EXCEPT !.down = Append(@, [type |-> "snapshot", who |-> Reconnect, n |-> 0,
                 load |-> [rows |-> b.rows, of |-> a.n, seen |-> b.seen]])]]
broadcastSnapshotIfChanged(a, b) == [a EXCEPT !.last = buildSnapshotSignature(b)]

\* The answer of a request, if its client is still there.
writeClientMessage(net, x, type, load) ==
  IF net[x.at].st # "open" \/ win.req[x.who].pc # "sent" \/ win.req[x.who].n # x.n THEN net
  ELSE [net EXCEPT ![x.at].down =
         Append(@, [type |-> type, who |-> x.who, n |-> x.n, load |-> load])]

\* A request arrives; the first one of a window subscribes it.
handleClientMessage(s) ==
  /\ Quiescent /\ agent.up /\ wire[s].st = "open" /\ wire[s].up # <<>>
  /\ LET m == Head(wire[s].up)
         net == [wire EXCEPT ![s].up = Tail(@), ![s].wants = TRUE]
         a == IF wire[s].wants THEN agent ELSE queueSnapshotBroadcast(agent, net)
         x == [at |-> s, who |-> m.who, n |-> m.n, kind |-> m.kind, row |-> m.row, stage |-> "new",
               rows |-> {}, seen |-> 0]
     IN wire' = net /\ agent' = [a EXCEPT !.work = @ \union {x}]
  /\ UNCHANGED <<win, marker, streamLeft>>

Changed(a, net, rows) == queueSnapshotBroadcast([a EXCEPT !.rows = rows, !.seen = @ + 1], net)
Status(a) == [rows |-> {}, of |-> a.n, seen |-> 0]

\* Its operation, which may have waited for others.
dispatchRequest(x) ==
  /\ Quiescent /\ x \in agent.work
  /\ LET a == [agent EXCEPT !.work = @ \ {x}]
         answered == writeClientMessage(wire, x, "answer", Status(a))
     IN \/ x.kind = "status" /\ agent' = a /\ wire' = answered
        \/ /\ x.kind = "register" /\ agent' = Changed(a, wire, a.rows \union x.row)
           /\ wire' = answered
        \/ /\ x.kind = "remove" /\ wire' = answered
           /\ agent' = IF x.row \subseteq a.rows THEN Changed(a, wire, a.rows \ x.row) ELSE a
        \/ x.kind = "stop" /\ agent' = [a EXCEPT !.dying = TRUE] /\ wire' = answered
        \* a refresh reads the registry after its scan, and answers after another
        \/ /\ x.kind = "refresh" /\ x.stage = "new"
           /\ agent' = [a EXCEPT !.cached = TRUE,
                !.work = @ \union {[x EXCEPT !.stage = "seen", !.rows = a.rows, !.seen = a.seen]}]
           /\ wire' = wire
        \/ /\ x.kind = "refresh" /\ x.stage = "seen"
           /\ agent' = broadcastSnapshotIfChanged(a, x)
           /\ wire' = writeClientMessage(SnapshotSent(wire, a, x), x, "answer",
                         [rows |-> x.rows, of |-> a.n, seen |-> x.seen])
  /\ UNCHANGED <<win, marker, streamLeft>>
\* A command of the system that it needs fails.
RequestFails(x) ==
  /\ Quiescent /\ x \in agent.work /\ x.kind # "stop" /\ x.kind # "status" /\ StreamSpend("failures")
  /\ agent' = [agent EXCEPT !.work = @ \ {x}]
  /\ wire' = writeClientMessage(wire, x, "rejected", NoRows)
  /\ UNCHANGED <<win, marker>>

\* The queued broadcast: once from the listeners known already, then from a new scan.
flushQueuedSnapshotBroadcast ==
  /\ Quiescent /\ agent.timer
  /\ LET a == [agent EXCEPT !.timer = FALSE]
     IN agent' = IF ~hasEventClients(a, wire) THEN [a EXCEPT !.pending = FALSE]
                 ELSE [a EXCEPT !.pending = FALSE,
                                !.flush.stage = IF a.cached THEN "fast" ELSE "scan"]
  /\ UNCHANGED <<win, wire, marker, streamLeft>>
FlushEnds(a) ==
  LET ended == [a EXCEPT !.flush = NoBuild]
  IN IF a.pending /\ hasEventClients(a, wire) THEN queueSnapshotBroadcast(ended, wire) ELSE ended
Registry(stage) == [stage |-> stage, rows |-> agent.rows, seen |-> agent.seen]
FlushStep ==
  /\ Quiescent
  /\ \/ /\ agent.flush.stage = "fast"
        /\ wire' = SnapshotSent(wire, agent, Registry("fast"))
        /\ agent' = [broadcastSnapshotIfChanged(agent, Registry("fast")) EXCEPT !.flush.stage = "scan"]
     \/ /\ agent.flush.stage = "scan" /\ wire' = wire
        /\ agent' = [agent EXCEPT !.flush = Registry("seen"), !.cached = TRUE]
     \/ /\ agent.flush.stage = "seen"
        /\ wire' = SnapshotSent(wire, agent, agent.flush)
        /\ agent' = FlushEnds(broadcastSnapshotIfChanged(agent, agent.flush))
  /\ UNCHANGED <<win, marker, streamLeft>>
FlushFails ==
  /\ Quiescent /\ agent.flush.stage # "none" /\ StreamSpend("failures")
  /\ agent' = FlushEnds(agent)
  /\ UNCHANGED <<win, wire, marker>>

\* The listeners are polled, one poll at a time.
pollListeningPorts ==
  /\ Quiescent /\ agent.up
  /\ \/ /\ agent.poll.stage = "none" /\ StreamSpend("polls") /\ wire' = wire
        /\ agent' = [agent EXCEPT !.poll.stage = "scan"]
     \/ /\ agent.poll.stage = "scan" /\ wire' = wire /\ UNCHANGED streamLeft
        /\ agent' = [agent EXCEPT !.poll = Registry("seen"), !.cached = TRUE]
     \/ /\ agent.poll.stage = "seen" /\ UNCHANGED streamLeft
        /\ wire' = SnapshotSent(wire, agent, agent.poll)
        /\ agent' = [broadcastSnapshotIfChanged(agent, agent.poll) EXCEPT !.poll = NoBuild]
  /\ UNCHANGED <<win, marker>>

\* A hooked process registers or leaves.
HookChange(row) ==
  /\ Quiescent /\ agent.up /\ StreamSpend("hooks")
  /\ agent' = Changed(agent, wire, IF row \subseteq agent.rows THEN agent.rows \ row ELSE agent.rows \union row)
  /\ UNCHANGED <<win, wire, marker>>

disposeAgent ==
  /\ Quiescent /\ agent.up
  /\ IF agent.dying THEN UNCHANGED streamLeft ELSE StreamSpend("deaths")
  /\ agent' = AgentGone(agent) /\ wire' = Hangup(wire)
  /\ UNCHANGED <<win, marker>>
AgentStarts ==
  /\ Quiescent /\ ~agent.up /\ StreamSpend("starts")
  /\ agent' = NewAgent(agent.n + 1, agent.seen, agent.others)
  /\ UNCHANGED <<win, wire, marker>>
\* The daemon lets a client go that does not read, or the connection breaks.
ClientDropped(s) ==
  /\ Quiescent /\ wire[s].st = "open" /\ StreamSpend("drops")
  /\ wire' = [wire EXCEPT ![s].st = "gone"]
  /\ UNCHANGED <<win, agent, marker>>
\* Another window asks for a Stop, or takes the Stops back.
OtherWindowActs ==
  /\ Quiescent /\ StreamSpend("others")
  /\ \/ marker' = [marker EXCEPT !.made = @ + 1] /\ win' = [win EXCEPT !.owed = FALSE]
     \/ marker.made > marker.undone /\ marker' = [marker EXCEPT !.undone = marker.made] /\ win' = win
  /\ UNCHANGED <<wire, agent>>

---------------------------------------------------------------------------
\* A window with a subscribed stream, one that has not connected, and what may happen.
NewClient ==
  [sock |-> 0, gen |-> 0, view |-> NoRows, shown |-> NoRows, notify |-> FALSE, enabled |-> TRUE,
   timer |-> FALSE, delay |-> 0, awaiting |-> FALSE, half |-> FALSE, disposed |-> FALSE,
   owed |-> FALSE, connecting |-> 0, todo |-> <<>>, req |-> [a \in Askers |-> NoRequest]]
StreamInit(scene) ==
  /\ marker = [made |-> 0, undone |-> 0] /\ streamLeft = scene.left
  /\ agent = NewAgent(1, 0, scene.others)
  /\ IF scene.connected
     THEN /\ win = [NewClient EXCEPT !.sock = 1, !.owed = TRUE, !.view.of = 1, !.shown.of = 1]
          /\ wire = [s \in Streams |-> IF s = 1 THEN [FreeSocket EXCEPT !.st = "open", !.wants = TRUE]
                                       ELSE FreeSocket]
     ELSE win = NewClient /\ wire = [s \in Streams |-> FreeSocket]

StreamNext ==
  \/ \E c \in StreamCalls, r \in RowIds :
       requestOf(c, "register", {r}) \/ requestOf(c, "remove", {r})
  \/ \E c \in StreamCalls :
       \/ requestOf(c, "refresh", {}) \/ requestOf(c, "status", {})
       \/ stopAgent(c) \/ start(c) \/ waitForPreviousDaemonExit(c)
  \/ reconnectEventStreamToExistingAgent \/ disposeClient \/ Continue \/ ChangeEvent
  \/ \E a \in Askers : RequestTimer(a)
  \/ \E s \in Streams :
       \/ attachConnectedSocket(s) \/ resubscribe(s) \/ ConnectFails(s) \/ CloseEvent(s)
       \/ handleClientMessage(s) \/ ClientDropped(s)
       \/ \E k \in 0..Len(wire[s].down), part \in BOOLEAN : handleData(s, k, part)
  \/ \E x \in agent.work : dispatchRequest(x) \/ RequestFails(x)
  \/ flushQueuedSnapshotBroadcast \/ FlushStep \/ FlushFails \/ pollListeningPorts
  \/ \E r \in RowIds : HookChange({r})
  \/ disposeAgent \/ AgentStarts \/ OtherWindowActs

---------------------------------------------------------------------------
StreamTypeOK ==
  /\ win.sock \in Streams \union {0} /\ win.connecting \in Streams \union {0}
  /\ win.delay \in 0..MaxDelay /\ win.view.rows \subseteq RowIds
  /\ \A s \in Streams : wire[s].st \in {"free", "opening", "open", "gone"}
\* A request that waits for its answer waits on the stream of the window, and it is on its way, it
\* is being served, its answer is on its way, or the end of the stream is about to be noticed.
NoRequestIsLost ==
  Quiescent => \A a \in Askers : LET r == win.req[a] IN r.pc = "sent" =>
    /\ r.at = win.sock
    /\ \/ wire[r.at].st = "gone"
       \/ \E i \in 1..Len(wire[r.at].up) : wire[r.at].up[i].who = a /\ wire[r.at].up[i].n = r.n
       \/ \E x \in agent.work : x.who = a /\ x.n = r.n
       \/ \E i \in 1..Len(wire[r.at].down) : wire[r.at].down[i].who = a /\ wire[r.at].down[i].n = r.n
\* The window never keeps a socket besides its stream.
OneStream == Quiescent => \A s \in Streams : wire[s].st \in {"open", "gone"} => s = win.sock
\* A stream that was lost while nobody had asked for a Stop is being resumed.
LostStreamReturns ==
  (Quiescent /\ win.owed /\ ~win.disposed) =>
    win.sock # 0 \/ win.timer \/ win.connecting # 0 \/ win.req[Reconnect].pc # "idle"
\* What the tree shows is what the window knows, or it is about to be painted again.
PaintedOrQueued ==
  (Quiescent /\ ~win.disposed) => win.notify \/ win.shown = buildClientSnapshotSignature(win.view)
\* A refresh leaves the window with a state of the daemon no older than its request.
RefreshIsFresh ==
  LET t == Head(win.todo) IN
  (~Quiescent /\ t.what = "answer" /\ t.who # Reconnect /\ win.req[t.who].kind = "refresh"
     /\ win.req[t.who].gen = win.gen) => win'.view.seen >= win.req[t.who].seen
\* The window keeps up with the daemon: no request is forgotten, a lost stream is resumed and never
\* doubled, the tree is painted again, and a refresh brings what is new.
StreamKeepsUp ==
  /\ [](StreamTypeOK /\ NoRequestIsLost /\ OneStream /\ LostStreamReturns /\ PaintedOrQueued)
  /\ [][RefreshIsFresh]_streamVars
=============================================================================
