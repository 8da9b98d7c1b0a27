---------------------------- MODULE RouterClients ----------------------------
(***************************************************************************)
(* Whose connection is this?  A connection to a logical port is attributed  *)
(* to the logical network of the process that dialled: by the native        *)
(* router's own hint, the verdict cache, the process tracker, the process   *)
(* tree and the environment of the process, or, with a daemon that          *)
(* authenticates scopes, by the daemon alone.  Sources:                     *)
(* src/extension/network-service.ts (resolveRouterClientVerdict),           *)
(* src/core/networks/router-verdict-cache.ts, src/core/process-network-     *)
(* labels.ts, src/platform/process/process-tracker-manager.ts and           *)
(* src/platform/ports/tcp-connection-process-resolver.ts.                   *)
(*                                                                          *)
(* There is one client pid.  The process behind it may end and the pid be   *)
(* given to another one, whose birth is later.                              *)
(***************************************************************************)
EXTENDS Naturals, Sequences, FiniteSets, SequencesExt, Maps

CONSTANTS
  Connections,        \* connections to logical ports, 1..n in the order of arrival
  ClientPid,          \* the pid all of them come from
  ProcessTables,      \* birth of the client -> pid -> [parent, group, tty]
  Environments,       \* birth of the client -> network in its environment
  Attachments,        \* [root, group, tty, network, isolated]
  VerdictTtl,         \* [network, nonNetwork]: in ticks of the clock
  MaxVerdicts,        \* maxEntries of the cache
  SocketTableTtl

VARIABLES
  labelled,           \* the attachments whose status is attached
  birth,              \* of the process that has the client pid now
  clock,
  verdicts,           \* entries of the cache in insertion order
  connections,        \* how far each connection has got
  tracker,            \* [child, roots, lines, answers, mirror]
  socketTable,        \* [listing, seen, expires]: the shared list of sockets
  clientTurns
clientVars == <<labelled, birth, clock, verdicts, connections, tracker, socketTable, clientTurns>>

Births == DOMAIN ProcessTables
None == "none"
\* A terminal belongs to one network.
AttachmentSets == {s \in SUBSET Attachments : \A a, b \in s : a.root = b.root => a = b}
Table == ProcessTables[birth]

TurnOf(what) == /\ clientTurns[what] > 0
                /\ clientTurns' = [clientTurns EXCEPT ![what] = @ - 1]

-----------------------------------------------------------------------------
(* resolveProcessTreeNetworkLabel                                           *)

\* Ambiguous matches select nothing.
uniqueLabelResolution(matches) ==
  LET networks == {a.network : a \in matches}
  IN  IF Cardinality(networks) = 1 THEN CHOOSE n \in networks : TRUE ELSE None

\* The parents of a process, as far as the rows know them.
RECURSIVE ancestorRows(_, _, _)
ancestorRows(rows, pid, seen) ==
  LET parent == rows[pid].parent
  IN  IF parent \in seen \/ parent \notin DOMAIN rows THEN {}
      ELSE {parent} \cup ancestorRows(rows, parent, seen \cup {parent})

FirstLabel(labels) ==
  LET known == SelectSeq(labels, LAMBDA n : n # None)
  IN  IF known = <<>> THEN None ELSE known[1]

\* The strongest tier whose attachments agree: the pid, an ancestor, the process
\* group, the terminal.
resolveProcessTreeNetworkLabel(attachments, rows, pid) ==
  LET ancestors == ancestorRows(rows, pid, {pid})
      related == {pid} \cup ancestors
      Tier(Matches(_)) == uniqueLabelResolution({a \in attachments : Matches(a)})
      direct == Tier(LAMBDA a : a.root = pid)
  IN  IF pid \notin DOMAIN rows THEN direct
      ELSE FirstLabel(<<
             direct,
             Tier(LAMBDA a : a.root \in ancestors),
             Tier(LAMBDA a : a.group # None /\ a.group \in {rows[q].group : q \in related}),
             Tier(LAMBDA a : a.tty # None /\ a.tty \in {rows[q].tty : q \in related})>>)

-----------------------------------------------------------------------------
(* RouterVerdictCache.  A connection without a known start time has no      *)
(* entry.  Two fields only record history: the process that the verdict was *)
(* read from, and the time it was stored.                                   *)

PidKey(start) == ClientPid
verdictKey(start) == start
TtlOf(verdict) == IF verdict = None THEN VerdictTtl.nonNetwork ELSE VerdictTtl.network
Forget(cache, key) == SelectSeq(cache, LAMBDA e : e.key # key)
pruneExpired(cache) == SelectSeq(cache, LAMBDA e : e.expires > clock)

\* read: an expired entry is deleted, a hit moves to the end and keeps its expiry.
Hits(key) == {i \in 1..Len(verdicts) : verdicts[i].key = key /\ verdicts[i].expires > clock}
Touched(entry) == entry
AfterRead(key) ==
  LET others == Forget(verdicts, key)
  IN  IF Hits(key) = {} THEN others
      ELSE Append(others, Touched(verdicts[CHOOSE i \in Hits(key) : TRUE]))

\* store: the entry is replaced; over the limit the expired entries go, and if that
\* is not enough the oldest.  The sweep runs at most once in a second, which is less
\* than a tick, and a second sweep in a tick would find nothing.
Stored(cache, start, verdict, about) ==
  LET entry == [key |-> verdictKey(start), verdict |-> verdict, expires |-> clock + TtlOf(verdict),
                about |-> about, stored |-> clock]
      all == Append(Forget(cache, entry.key), entry)
      swept == IF Len(all) > MaxVerdicts THEN pruneExpired(all) ELSE all
      over == IF Len(swept) > MaxVerdicts THEN Len(swept) - MaxVerdicts ELSE 0
  IN  IF MaxVerdicts = 0 THEN cache ELSE SubSeq(swept, over + 1, Len(swept))

-----------------------------------------------------------------------------
(* ProcessTrackerManager and the helper it drives                           *)

NoTracker == [child |-> "none", roots |-> <<>>, lines |-> <<>>, answers |-> <<>>, mirror |-> <<>>]

\* write: a helper that is gone takes no line.
Tell(t, lines) == IF t.child = "up" THEN [t EXCEPT !.lines = @ \o lines] ELSE t
TrackLines(roots) == SetToSeq({<<"TRACK", r, roots[r]>> : r \in DOMAIN roots})

\* ensureChild: a new helper is told the roots of the mirror.
ensureChild(t) ==
  IF t.child # "none" THEN t
  ELSE Tell([t EXCEPT !.child = "up", !.roots = <<>>, !.lines = <<>>, !.answers = <<>>],
            TrackLines(t.mirror))

\* syncProcessTrackerRoots declares the isolated attachments only.
TrackedRoots(attachments) ==
  [r \in {a.root : a \in {x \in attachments : x.isolated}} |->
     (CHOOSE a \in attachments : a.isolated /\ a.root = r).network]

\* The roots the helper has not been told of: new ones, and those whose network
\* has changed.
Undeclared(mirror, roots) == {r \in DOMAIN roots : ~(r \in DOMAIN mirror /\ mirror[r] = roots[r])}

\* syncTrackedRoots: roots that are new or have another network are tracked, then
\* networks that are left without a root are untracked.
syncTrackedRoots(t, roots) ==
  IF DOMAIN roots = {} /\ t.child = "none" /\ DOMAIN t.mirror = {} THEN t
  ELSE LET gone == Range(t.mirror) \ Range(roots)
           told == Tell(ensureChild(t),
                     TrackLines([r \in Undeclared(t.mirror, roots) |-> roots[r]])
                       \o SetToSeq({<<"UNTRACK", n>> : n \in gone}))
       IN  [told EXCEPT !.mirror = roots]

\* The helper: a table of roots.  UNTRACK removes a network.
Obeys(roots, line) ==
  IF line[1] = "TRACK" THEN Put(roots, line[2], line[3])
  ELSE IF line[1] = "UNTRACK" THEN Drop(roots, {r \in DOMAIN roots : roots[r] = line[2]})
  ELSE roots

\* The network of the nearest tracked process of the client's line of parents.
RECURSIVE TrackedNetwork(_, _, _)
TrackedNetwork(roots, rows, pid) ==
  IF pid \in DOMAIN roots THEN roots[pid]
  ELSE IF pid \notin DOMAIN rows THEN None
  ELSE TrackedNetwork(roots, rows, rows[pid].parent)

TrackerReads ==
  /\ tracker.child = "up" /\ tracker.lines # <<>>
  /\ LET line == Head(tracker.lines)
     IN  tracker' = [tracker EXCEPT
           !.lines = Tail(@), !.roots = Obeys(@, line),
           !.answers = IF line[1] # "QUERY" THEN @
                       ELSE Append(@, [network |-> TrackedNetwork(tracker.roots, Table, ClientPid),
                                       about |-> birth])]
  /\ UNCHANGED <<labelled, birth, clock, verdicts, connections, socketTable, clientTurns>>

-----------------------------------------------------------------------------
(* resolveRouterClientVerdict                                               *)

Waiting(stage) == {c \in Connections : connections[c].stage = stage}
Goes(cs, stage) ==
  connections' = [c \in Connections |-> IF c \in cs THEN [connections[c] EXCEPT !.stage = stage]
                                        ELSE connections[c]]

\* A verdict: where it came from, what process it is about, how old it is.
Ends(cs, from, verdict, about, stored) ==
  connections' = [c \in Connections |->
    IF c \in cs THEN [connections[c] EXCEPT !.stage = "done", !.from = from, !.verdict = verdict,
                                            !.about = about, !.age = clock - stored]
    ELSE connections[c]]

\* The verdicts of the clients the router knows are cached.
Remembers(cs, verdict, about) ==
  verdicts' = FoldLeft(LAMBDA cache, c : Stored(cache, connections[c].start, verdict, about),
                       verdicts, SetToSeq({c \in cs : connections[c].known}))

\* queryNetwork: without a helper there is no answer to wait for.
AskTracker(c) ==
  IF ~clientTurns.tracks THEN Goes({c}, "table") /\ UNCHANGED tracker
  ELSE Goes({c}, "tracker") /\ tracker' = Tell(ensureChild(tracker), <<<<"QUERY">>>>)

\* A connection is accepted.  The native router may know the pid and the start of
\* the client (known), and its network (hint).
Accept(c, known, hint) ==
  /\ connections[c].stage = "none" /\ TurnOf("accepts")
  /\ \A d \in Connections : d < c => connections[d].stage # "none"
  /\ hint # None => known
  /\ connections' = [connections EXCEPT ![c].stage = "accepted", ![c].start = birth,
                       ![c].known = known, ![c].hint = hint]
  /\ UNCHANGED <<labelled, birth, clock, verdicts, tracker, socketTable>>

\* The part up to the first await: a daemon that authenticates scopes decides
\* alone; else the hint, the cache and the tracker are asked in this order, and
\* without a pid the list of sockets.
Classify(c) ==
  LET conn == connections[c]
      key == verdictKey(conn.start)
  IN  /\ conn.stage = "accepted"
      /\ \/ /\ clientTurns.guarded
            /\ Goes({c}, IF conn.known THEN "identity" ELSE "sockets")
            /\ UNCHANGED <<verdicts, tracker>>
         \/ /\ ~clientTurns.guarded /\ conn.hint # None
            /\ Ends({c}, "hint", conn.hint, conn.start, clock)
            /\ Remembers({c}, conn.hint, conn.start)
            /\ UNCHANGED tracker
         \/ /\ ~clientTurns.guarded /\ conn.hint = None /\ conn.known
            /\ verdicts' = AfterRead(key)
            /\ IF Hits(key) = {} THEN AskTracker(c)
               ELSE LET e == verdicts[CHOOSE i \in Hits(key) : TRUE]
                    IN  Ends({c}, "cache", e.verdict, e.about, e.stored) /\ UNCHANGED tracker
         \/ /\ ~clientTurns.guarded /\ ~conn.known
            /\ Goes({c}, "sockets") /\ UNCHANGED <<verdicts, tracker>>
      /\ UNCHANGED <<labelled, birth, clock, socketTable, clientTurns>>

\* An answer of the tracker settles every query that waits for the pid.
TrackerAnswers ==
  /\ tracker.answers # <<>> /\ tracker.child = "up"
  /\ tracker' = [tracker EXCEPT !.answers = Tail(@)]
  /\ LET answer == Head(tracker.answers)
         cs == Waiting("tracker")
     IN  IF answer.network = None
         THEN Goes(cs, "table") /\ UNCHANGED verdicts
         ELSE /\ Ends(cs, "tracker", answer.network, answer.about, clock)
              /\ Remembers(cs, answer.network, answer.about)
  /\ UNCHANGED <<labelled, birth, clock, socketTable, clientTurns>>

\* A query times out after 400 ms.
TrackerTimesOut(c) ==
  /\ connections[c].stage = "tracker" /\ TurnOf("timeouts")
  /\ Goes({c}, "table")
  /\ UNCHANGED <<labelled, birth, clock, verdicts, tracker, socketTable>>

\* The helper ends, and later its exit is noticed: the mirror is cleared, so that
\* the next sync declares the roots again, and the queries end.
HelperDies ==
  /\ tracker.child = "up" /\ TurnOf("deaths")
  /\ tracker' = [tracker EXCEPT !.child = "gone", !.roots = <<>>, !.lines = <<>>, !.answers = <<>>]
  /\ UNCHANGED <<labelled, birth, clock, verdicts, connections, socketTable>>
HelperExits ==
  /\ tracker.child = "gone"
  /\ tracker' = NoTracker
  /\ Goes(Waiting("tracker"), "table")
  /\ UNCHANGED <<labelled, birth, clock, verdicts, socketTable, clientTurns>>

\* The helper cannot be started: the error handler keeps the mirror.
HelperFails ==
  /\ tracker.child = "up" /\ tracker.roots = <<>> /\ TurnOf("deaths")
  /\ tracker' = [NoTracker EXCEPT !.mirror = tracker.mirror]
  /\ Goes(Waiting("tracker"), "table")
  /\ UNCHANGED <<labelled, birth, clock, verdicts, socketTable>>

\* The process table, or nothing if it cannot be listed; with the label of the
\* process tree the verdict is final, else the environment is read.
ListProcesses(c) ==
  /\ connections[c].stage = "table"
  /\ \E rows \in {Table, <<>>} :
       LET label == resolveProcessTreeNetworkLabel(labelled, rows, ClientPid)
       IN  IF label # None
           THEN Ends({c}, "tree", label, birth, clock) /\ Remembers({c}, label, birth)
           ELSE Goes({c}, "environment") /\ UNCHANGED verdicts
  /\ UNCHANGED <<labelled, birth, clock, tracker, socketTable, clientTurns>>

\* readRoutingNetworkId, whose failure is no network; no network is a verdict too.
ReadEnvironment(c) ==
  /\ connections[c].stage = "environment"
  /\ \E network \in {Environments[birth], None} :
       Ends({c}, "environment", network, birth, clock) /\ Remembers({c}, network, birth)
  /\ UNCHANGED <<labelled, birth, clock, tracker, socketTable, clientTurns>>

-----------------------------------------------------------------------------
(* NodeTcpConnectionProcessResolver: the list of sockets is shared          *)

\* resolveClientProcess: a list that is fresh is used, one that is being made is
\* awaited, else a new one is made.
NeedsSockets(c) == connections[c].stage = "sockets"
Found(c) == IF clientTurns.guarded THEN Goes({c}, "identity") /\ UNCHANGED tracker ELSE AskTracker(c)
Unfound(c) == Ends({c}, "unknown", None, connections[c].start, clock) /\ UNCHANGED tracker

readEstablishedConnections(c) ==
  /\ NeedsSockets(c)
  /\ \/ /\ socketTable.expires > clock
        /\ IF c \in socketTable.seen THEN Found(c) ELSE Unfound(c)
        /\ UNCHANGED socketTable
     \/ /\ socketTable.expires <= clock
        /\ Goes({c}, "listing") /\ UNCHANGED tracker
        /\ socketTable' = IF socketTable.listing = "none" THEN [socketTable EXCEPT !.listing = "begun"]
                          ELSE socketTable
  /\ UNCHANGED <<labelled, birth, clock, verdicts, clientTurns>>

\* lsof looks at the sockets: those of a process that has ended are gone.
LsofLooks ==
  /\ socketTable.listing = "begun"
  /\ socketTable' = [socketTable EXCEPT !.listing = "done",
       !.seen = {c \in Connections : connections[c].stage \notin {"none", "done"}
                                    /\ connections[c].start = birth}]
  /\ UNCHANGED <<labelled, birth, clock, verdicts, connections, tracker, clientTurns>>

\* It ends, or fails: resolveClientProcess rejects then and the connection is refused.
LsofEnds ==
  /\ socketTable.listing = "done"
  /\ socketTable' = [socketTable EXCEPT !.listing = "none", !.expires = clock + SocketTableTtl]
  /\ connections' = [c \in Connections |->
       IF connections[c].stage # "listing" THEN connections[c]
       ELSE [connections[c] EXCEPT !.stage = IF c \in socketTable.seen THEN "found" ELSE "unfound"]]
  /\ UNCHANGED <<labelled, birth, clock, verdicts, tracker, clientTurns>>
LsofFails ==
  /\ socketTable.listing # "none" /\ TurnOf("failures")
  /\ socketTable' = [listing |-> "none", seen |-> {}, expires |-> 0]
  /\ Goes(Waiting("listing"), "refused")
  /\ UNCHANGED <<labelled, birth, clock, verdicts, tracker>>

ResolveClientProcess(c) ==
  /\ \/ connections[c].stage = "found" /\ Found(c)
     \/ connections[c].stage = "unfound" /\ Unfound(c)
  /\ UNCHANGED <<labelled, birth, clock, verdicts, socketTable, clientTurns>>

-----------------------------------------------------------------------------
(* A daemon that authenticates scopes                                       *)

\* readProcessIdentity: the process that has the pid now.  On macOS a start time
\* the router gave must be the same; without an identity the connection is refused.
CheckIdentity(c) ==
  /\ connections[c].stage = "identity"
  /\ \/ Goes({c}, "refused") /\ TurnOf("failures")
     \/ /\ UNCHANGED clientTurns
        /\ IF connections[c].known /\ connections[c].start # birth THEN Goes({c}, "refused")
           ELSE connections' = [connections EXCEPT ![c].stage = "scope", ![c].about = birth]
  /\ UNCHANGED <<labelled, birth, clock, verdicts, tracker, socketTable>>

\* resolveProcessScope: the daemon answers for this identity, null if the process
\* has no scope.
ResolveScope(c) ==
  /\ connections[c].stage = "scope"
  /\ \/ Goes({c}, "refused") /\ TurnOf("failures")
     \/ /\ Ends({c}, "scope", Environments[connections[c].about], connections[c].about, clock)
        /\ UNCHANGED clientTurns
  /\ UNCHANGED <<labelled, birth, clock, verdicts, tracker, socketTable>>

-----------------------------------------------------------------------------
(* The registry changes, time passes, the client ends                       *)

\* The change listener of the registry: invalidateRouterVerdictsOnAttachmentChange
\* and syncProcessTrackerRoots.
AttachmentsChange(next) ==
  /\ next # labelled /\ TurnOf("changes")
  /\ labelled' = next
  /\ verdicts' = <<>>
  /\ tracker' = IF clientTurns.tracks THEN syncTrackedRoots(tracker, TrackedRoots(next)) ELSE tracker
  /\ UNCHANGED <<birth, clock, connections, socketTable>>

\* A change of the registry that leaves the attachments alone.
RegistryChanges ==
  /\ TurnOf("changes")
  /\ tracker' = IF clientTurns.tracks THEN syncTrackedRoots(tracker, TrackedRoots(labelled)) ELSE tracker
  /\ UNCHANGED <<labelled, birth, clock, verdicts, connections, socketTable>>

Tick ==
  /\ TurnOf("ticks")
  /\ clock' = clock + 1
  /\ UNCHANGED <<labelled, birth, verdicts, connections, tracker, socketTable>>

ClientIsReplaced ==
  /\ birth + 1 \in Births /\ TurnOf("births")
  /\ birth' = birth + 1
  /\ UNCHANGED <<labelled, clock, verdicts, connections, tracker, socketTable>>

NoConnection ==
  [stage |-> "none", start |-> 1, known |-> FALSE, hint |-> None,
   from |-> None, verdict |-> None, about |-> 1, age |-> 0]

ClientsInit(scene) ==
  /\ labelled = scene.labelled /\ birth = 1 /\ clock = 0
  /\ verdicts = <<>>
  /\ connections = [c \in Connections |-> NoConnection]
  /\ tracker = IF scene.turns.tracks THEN syncTrackedRoots(NoTracker, TrackedRoots(scene.labelled))
               ELSE NoTracker
  /\ socketTable = [listing |-> "none", seen |-> {}, expires |-> 0]
  /\ clientTurns = scene.turns

ClientsNext ==
  \/ \E c \in Connections :
       \/ \E known \in clientTurns.known, hint \in clientTurns.hints :
            Accept(c, known, hint)
       \/ Classify(c) \/ TrackerTimesOut(c) \/ ListProcesses(c) \/ ReadEnvironment(c)
       \/ readEstablishedConnections(c) \/ ResolveClientProcess(c)
       \/ CheckIdentity(c) \/ ResolveScope(c)
  \/ TrackerReads \/ TrackerAnswers \/ HelperDies \/ HelperExits \/ HelperFails
  \/ LsofLooks \/ LsofEnds \/ LsofFails
  \/ \E next \in AttachmentSets \cap SUBSET clientTurns.attachments : AttachmentsChange(next)
  \/ RegistryChanges \/ Tick \/ ClientIsReplaced

-----------------------------------------------------------------------------
(* Properties                                                               *)

\* The cache never outgrows its limit and holds one entry for a key; a connection
\* that waits for the tracker has a helper, living or dead, to hear of.
ClientsTypeOK ==
  /\ labelled \in AttachmentSets /\ birth \in Births
  /\ Len(verdicts) <= MaxVerdicts
  /\ \A i, j \in 1..Len(verdicts) : verdicts[i].key = verdicts[j].key => i = j
  /\ Waiting("tracker") # {} => tracker.child # "none"
  /\ Waiting("listing") # {} => socketTable.listing # "none"

\* A process never gets a verdict that was made for another process with its pid:
\* whatever the cache holds for the process that has the pid now was read from this
\* process, however long the lookup took and whoever had the pid when it began.
VerdictIsOfThisProcess ==
  \A i \in 1..Len(verdicts) : verdicts[i].key = verdictKey(birth) => verdicts[i].about = birth

\* A verdict from the cache is younger than the lifetime of its kind, however busy
\* the client: being read keeps an entry from eviction and not from expiry.  With
\* this an attribution that raced a change of the attachments is soon corrected.
ServedInItsTime ==
  \A c \in Connections :
    connections[c].from = "cache" => connections[c].age < TtlOf(connections[c].verdict)

\* What the mirror says the helper knows, it knows or is about to read: every root
\* of the mirror is tracked with its network, through moves of a shell between
\* networks, networks that lose their last shell, exits and failed starts.
RootsAreTracked ==
  tracker.child = "up" =>
    LET told == FoldLeft(Obeys, tracker.roots, tracker.lines)
    IN  \A r \in DOMAIN tracker.mirror : r \in DOMAIN told /\ told[r] = tracker.mirror[r]

\* With a daemon that authenticates, a connection whose client the router identified
\* is given the scope of that process or is refused, even if the pid changes hands
\* while the identity is read; and no hint and no cached verdict decides.
ScopeIsOfTheClient ==
  \A c \in Connections :
    clientTurns.guarded /\ connections[c].stage = "done" =>
      /\ connections[c].from \in {"scope", "unknown"}
      /\ connections[c].known => connections[c].about = connections[c].start

\* A client is attributed by what is known of this very process, recently, and the
\* helper that answers knows the roots it was told.
AttributionIsCurrent ==
  /\ ClientsTypeOK
  /\ VerdictIsOfThisProcess
  /\ ServedInItsTime
  /\ RootsAreTracked
  /\ ScopeIsOfTheClient
=============================================================================
