------------------------- MODULE LogicalRouterOwner -------------------------
(***************************************************************************)
(* The logical port routers of the windows: the reconciliation that takes   *)
(* the router lease, publishes bind claims and opens a localhost listener   *)
(* for each wanted port (syncLogicalPortRouters in                          *)
(* extension/network-service, LogicalPortRouterManager in                   *)
(* platform/ports/logical-port-router), the heartbeat, and the demotion of  *)
(* an owner that lost the lease.                                            *)
(*                                                                          *)
(* A lease function is one step here; ControlPlaneOwner takes it apart and   *)
(* shows when two windows can both get the lease, a `slip` of this model.   *)
(* `bound` is the table of sockets of the host.  The daemon scans it, so a  *)
(* change reaches every window as a process snapshot (`changed`).           *)
(***************************************************************************)
EXTENDS ControlPlaneOwner, Sequences

CONSTANT Ports  \* logical ports

VARIABLES
  alive,     \* windows whose process is alive
  holder,    \* the window named by the router lease file
  signal,    \* windows whose watcher has seen that file change
  want,      \* ports of the latest daemon and registry snapshots
  daemon,    \* the daemon's routing state is authoritative
  control,   \* windows that own the control plane: their routing loop runs
  router,    \* window -> its reconciliation and listeners
  tail,      \* window -> claim file operations in progress, oldest first
  bound,     \* port -> the window that listens on it
  claim,     \* ports with a claim file
  changed,   \* windows with a process snapshot to handle
  retry,     \* windows with the handoff retry timer set
  overlaps,  \* how often a reconciliation may still begin during a demotion
  faults     \* how many faults of each kind are still to come

host == <<alive, want, daemon, control>>
routerVars == <<host, holder, signal, router, tail, bound, claim, changed, retry, overlaps, faults>>

Routers ==
  [owns : BOOLEAN, queued : BOOLEAN,
   step : {"idle", "claims", "open", "again", "demoting"},
   want : SUBSET Ports,       \* ports of the running reconciliation
   keep : BOOLEAN,            \* it must preserve existing listeners
   todo : SUBSET Ports,       \* ports it still has to look at
   at : SUBSET Ports,         \* the port it is opening
   stale : BOOLEAN,           \* the ownership generation has moved on
   listeners : SUBSET Ports, retiring : SUBSET Ports,
   closing : SUBSET Ports,    \* closed listeners whose socket still exists
   claims : SUBSET Ports,     \* gatewayClaimPorts
   release : BOOLEAN]         \* a demotion has only the lease left to release
ClaimOps == [ports : SUBSET Ports, by : {"sync", "beat", "demotion"}]

\* Types; and every socket of a live window is a listener it knows of, or one
\* whose close is under way.
RouterTypeOK ==
  /\ alive \subseteq Windows /\ holder \in Windows \cup {Nobody} /\ signal \subseteq Windows
  /\ want \subseteq Ports /\ daemon \in BOOLEAN /\ control \subseteq Windows
  /\ router \in [Windows -> Routers]
  /\ \A w \in Windows : \A i \in DOMAIN tail[w] : tail[w][i] \in ClaimOps
  /\ bound \in [Ports -> Windows \cup {Nobody}]
  /\ claim \subseteq Ports /\ changed \subseteq Windows /\ retry \subseteq Windows
  /\ \A w \in alive, p \in Ports :
       bound[p] = w <=> p \in router[w].listeners \cup router[w].closing

AtRest(listening) ==
  [owns |-> listening # {}, step |-> "idle", queued |-> FALSE, want |-> {}, keep |-> FALSE,
   todo |-> {}, at |-> {}, stale |-> FALSE, listeners |-> listening, retiring |-> {},
   closing |-> {}, claims |-> listening, release |-> FALSE]

Only(w, r) == router' = [router EXCEPT ![w] = r]
Rescan == changed' = alive

----------------------------------------------------------------------------
(* The lease *)

isActiveLogicalRouterOwner(w) == w \in alive
\* The watchers of all windows see a changed file; `left` are the signals
\* that the caller leaves.
Name(w, left) ==
  /\ holder' = w
  /\ signal' = IF holder = w THEN left ELSE alive
Spend(fault) == faults[fault] > 0 /\ faults' = [faults EXCEPT ![fault] = @ - 1]

tryAcquireLogicalRouterOwnerLease(w, ok, left) ==
  LET other == holder # w /\ isActiveLogicalRouterOwner(holder) IN
  \/ ok /\ ~other /\ Name(w, left) /\ UNCHANGED faults
  \/ ok /\ other /\ Name(w, left) /\ Spend("slips")
  \/ ~ok /\ other /\ signal' = left /\ UNCHANGED <<holder, faults>>
  \/ ~ok /\ ~other /\ Spend("writes") /\ signal' = left /\ UNCHANGED holder

retainsLogicalRouterOwnership(w, current, ok) ==
  IF router[w].owns /\ current /\ holder = w
    THEN tryAcquireLogicalRouterOwnerLease(w, ok, signal)
    ELSE ~ok /\ UNCHANGED <<holder, signal, faults>>

syncGatewayClaimFiles(w, ports, by) ==
  tail' = [tail EXCEPT ![w] = Append(@, [ports |-> ports, by |-> by])]

\* LogicalPortRouterManager.releaseAll: no timer survives and every listener
\* starts to close.
releaseAll(r) ==
  [r EXCEPT !.stale = TRUE, !.retiring = {}, !.listeners = {},
            !.closing = @ \cup r.listeners]

DemoteUnclaimed(w, r) ==
  Only(w, [releaseAll(r) EXCEPT !.owns = FALSE, !.release = TRUE]) /\ UNCHANGED tail
demoteLogicalRouterOwner(w, r) ==
  /\ Only(w, [releaseAll(r) EXCEPT !.owns = FALSE])
  /\ syncGatewayClaimFiles(w, {}, "demotion")

----------------------------------------------------------------------------
(* Reconciliation *)

Demoting(w) ==
  \/ router[w].release
  \/ \E i \in DOMAIN tail[w] : tail[w][i].by = "demotion"

\* The snapshots are sampled and the lease is asked for at once.  A demotion
\* takes milliseconds, and beats and polls are seconds apart: how often the two
\* meet is bounded, for if they always met the lease would change hands forever.
syncLogicalPortRoutersExclusive(w, r, left) ==
  LET observed == IF daemon THEN want ELSE {}
      begun == [r EXCEPT !.queued = FALSE, !.keep = ~daemon,
                         !.want = IF daemon THEN observed ELSE observed \cup r.claims] IN
  /\ IF Demoting(w) THEN overlaps > 0 /\ overlaps' = overlaps - 1 ELSE UNCHANGED overlaps
  /\ \E ok \in BOOLEAN :
       /\ tryAcquireLogicalRouterOwnerLease(w, ok, left)
       /\ IF ok
            THEN /\ Only(w, [begun EXCEPT !.owns = TRUE, !.stale = FALSE, !.step = "claims"])
                 /\ syncGatewayClaimFiles(w, begun.want, "sync")
            ELSE demoteLogicalRouterOwner(w, [begun EXCEPT !.step = "demoting"])

\* A request joins the running reconciliation, which then runs once more.
syncLogicalPortRouters(w, r, left) ==
  IF r.step = "idle"
    THEN syncLogicalPortRoutersExclusive(w, r, left)
    ELSE /\ Only(w, [r EXCEPT !.queued = TRUE])
         /\ signal' = left
         /\ UNCHANGED <<holder, tail, overlaps, faults>>

Ended(r) == [r EXCEPT !.step = IF r.queued THEN "again" ELSE "idle", !.at = {}, !.todo = {}]

\* LogicalPortRouterManager.sync: ports no longer wanted get a timer, wanted
\* ones lose it, and those that have no listener are opened one by one.
sync(r) ==
  LET desired == IF r.keep THEN r.want \cup r.listeners ELSE r.want IN
  [r EXCEPT !.todo = desired \ r.listeners, !.retiring = (@ \cup r.listeners) \ desired]
NextPort(r) ==
  IF r.todo = {} THEN {Ended(r)}
  ELSE {[r EXCEPT !.step = "open", !.todo = @ \ {p}, !.at = {p}] : p \in r.todo}

\* One claim operation: files of wanted ports are written, those of the other
\* ports this window had claimed are removed, whoever wrote them last.  The
\* reconciliation continues with a look at the lease.
syncGatewayClaimFilesExclusive(w) ==
  LET op == Head(tail[w])
      r == [router[w] EXCEPT !.claims = op.ports]
      rest == Tail(tail[w]) IN
  /\ w \in alive /\ tail[w] # <<>>
  /\ claim' = (claim \ (router[w].claims \ op.ports)) \cup op.ports
  /\ \/ /\ op.by # "sync"
        /\ Only(w, [r EXCEPT !.release = @ \/ op.by = "demotion"])
        /\ tail' = [tail EXCEPT ![w] = rest]
        /\ UNCHANGED <<holder, signal, faults>>
     \/ /\ op.by = "sync" /\ retainsLogicalRouterOwnership(w, ~r.stale, TRUE)
        /\ \E s \in NextPort(sync(r)) : Only(w, s)
        /\ tail' = [tail EXCEPT ![w] = rest]
     \/ /\ op.by = "sync" /\ retainsLogicalRouterOwnership(w, ~r.stale, FALSE)
        /\ Only(w, [releaseAll(r) EXCEPT !.owns = FALSE, !.step = "demoting"])
        /\ tail' = [tail EXCEPT ![w] = Append(rest, [ports |-> {}, by |-> "demotion"])]
  /\ UNCHANGED <<host, overlaps, bound, changed, retry>>

\* A listener of a stale generation is closed at once and ends the loop; a port
\* that is taken is left out.  After the last port the lease is looked at again.
Opened(w, p) ==
  LET free == bound[p] = Nobody
      old == [router[w] EXCEPT !.at = {}]
      r == IF ~free THEN old
           ELSE IF old.stale THEN [old EXCEPT !.closing = @ \cup {p}]
           ELSE [old EXCEPT !.listeners = @ \cup {p}] IN
  /\ w \in alive /\ p \in router[w].at
  /\ IF free THEN bound' = [bound EXCEPT ![p] = w] /\ Rescan ELSE UNCHANGED <<bound, changed>>
  /\ \/ /\ ~r.stale /\ r.todo # {}
        /\ \E s \in NextPort(r) : Only(w, s)
        /\ UNCHANGED <<holder, signal, tail, faults>>
     \/ /\ r.stale \/ r.todo = {}
        /\ \/ /\ retainsLogicalRouterOwnership(w, ~r.stale, TRUE)
              /\ Only(w, Ended(r))
              /\ UNCHANGED tail
           \/ /\ retainsLogicalRouterOwnership(w, ~r.stale, FALSE)
              /\ demoteLogicalRouterOwner(w, [r EXCEPT !.step = "demoting", !.todo = {}])
  /\ UNCHANGED <<host, overlaps, claim, retry>>

\* scheduleRetire's timer closes a port that stayed unwanted.
Retire(w, p) ==
  /\ w \in alive /\ p \in router[w].retiring
  /\ Only(w, [router[w] EXCEPT !.retiring = @ \ {p}, !.listeners = @ \ {p},
                               !.closing = @ \cup {p}])
  /\ UNCHANGED <<host, overlaps, holder, signal, tail, bound, claim, changed, retry, faults>>

\* The socket of a closed listener is gone.
Closed(w, p) ==
  /\ w \in alive /\ p \in router[w].closing
  /\ Only(w, [router[w] EXCEPT !.closing = @ \ {p}])
  /\ bound' = [bound EXCEPT ![p] = Nobody]
  /\ Rescan
  /\ UNCHANGED <<host, overlaps, holder, signal, tail, claim, retry, faults>>

\* A request that came meanwhile runs the reconciliation again.
syncLogicalPortRoutersQueued(w) ==
  LET r == router[w] IN
  /\ w \in alive
  /\ \/ r.step = "again"
     \/ r.step = "demoting" /\ ~Demoting(w)
  /\ IF r.queued
       THEN syncLogicalPortRoutersExclusive(w, [r EXCEPT !.step = "idle"], signal)
       ELSE Only(w, [r EXCEPT !.step = "idle"]) /\ UNCHANGED <<holder, signal, tail, overlaps, faults>>
  /\ UNCHANGED <<host, bound, claim, changed, retry>>

----------------------------------------------------------------------------
(* Release, heartbeat, file signals, timers and snapshots *)

\* Availability is published only after the ports and their claims are gone.
releaseLogicalRouterOwnerLease(w) ==
  /\ w \in alive /\ router[w].release /\ router[w].closing = {}
  /\ Only(w, [router[w] EXCEPT !.release = FALSE])
  /\ IF holder = w THEN holder' = Nobody /\ signal' = alive ELSE UNCHANGED <<holder, signal>>
  /\ UNCHANGED <<host, overlaps, tail, bound, claim, changed, retry, faults>>

\* refreshOwnedLeaseHeartbeats, for the routers.  A beat that finds its claim
\* files in place only moves their expiry.
HeartbeatWithoutClaims(w) ==
  /\ w \in alive /\ router[w].owns
  /\ retainsLogicalRouterOwnership(w, TRUE, FALSE)
  /\ demoteLogicalRouterOwner(w, router[w])
  /\ UNCHANGED <<host, overlaps, bound, claim, changed, retry>>
refreshRouterLeaseHeartbeat(w) ==
  /\ w \in alive /\ router[w].owns
  /\ \/ /\ retainsLogicalRouterOwnership(w, TRUE, TRUE)
        /\ ~ router[w].claims \subseteq claim
        /\ \A i \in DOMAIN tail[w] : tail[w][i].by # "beat"
        /\ syncGatewayClaimFiles(w, router[w].claims, "beat")
        /\ UNCHANGED router
     \/ /\ retainsLogicalRouterOwnership(w, TRUE, FALSE)
        /\ demoteLogicalRouterOwner(w, router[w])
  /\ UNCHANGED <<host, overlaps, bound, claim, changed, retry>>

\* Another active owner in the lease file demotes this one; a file without an
\* active owner starts the handoff.
refreshOwnerLeaseFromFileSignal(w) ==
  LET r == router[w]  left == signal \ {w} IN
  /\ w \in signal
  /\ CASE r.owns /\ holder # w /\ isActiveLogicalRouterOwner(holder) ->
            /\ demoteLogicalRouterOwner(w, r)
            /\ signal' = left /\ UNCHANGED <<holder, overlaps, faults, retry>>
       [] ~r.owns /\ ~isActiveLogicalRouterOwner(holder) ->
            syncLogicalPortRouters(w, r, left) /\ retry' = retry \cup {w}
       [] OTHER -> signal' = left /\ UNCHANGED <<holder, router, tail, overlaps, faults, retry>>
  /\ UNCHANGED <<host, bound, claim, changed>>

HandoffRetry(w) ==
  /\ w \in retry
  /\ retry' = retry \ {w}
  /\ syncLogicalPortRouters(w, router[w], signal)
  /\ UNCHANGED <<host, bound, claim, changed>>

\* processService.onDidChange, and the routing loop of the control plane.
ProcessChange(w) ==
  /\ w \in changed
  /\ changed' = changed \ {w}
  /\ IF router[w].owns \/ w \in control
       THEN syncLogicalPortRouters(w, router[w], signal)
       ELSE UNCHANGED <<holder, signal, router, tail, overlaps, faults>>
  /\ UNCHANGED <<host, bound, claim, retry>>
RoutingLoop(w) ==
  /\ w \in control /\ router[w].step = "idle"
  /\ syncLogicalPortRouters(w, router[w], signal)
  /\ UNCHANGED <<host, bound, claim, changed, retry>>

----------------------------------------------------------------------------
(* Environment *)

\* The daemon is lost or comes back; a server of a logical port comes or goes.
DaemonChanges ==
  /\ Spend("daemon")
  /\ \/ daemon' = ~daemon /\ UNCHANGED want
     \/ \E p \in Ports : want' = (IF p \in want THEN want \ {p} ELSE want \cup {p})
        /\ UNCHANGED daemon
  /\ Rescan
  /\ UNCHANGED <<alive, control, overlaps, holder, signal, router, tail, bound, claim, retry>>
DaemonReturns ==
  /\ ~daemon /\ daemon' = TRUE
  /\ Rescan
  /\ UNCHANGED <<alive, want, control, overlaps, holder, signal, router, tail, bound, claim,
                 retry, faults>>

\* A window without the control plane is killed: its sockets close and its
\* files stay.
Crash(w) ==
  /\ Spend("crashes") /\ w \in alive \ control
  /\ alive' = alive \ {w}
  /\ signal' = signal \ {w} /\ retry' = retry \ {w}
  /\ router' = [router EXCEPT ![w] = AtRest({})]
  /\ tail' = [tail EXCEPT ![w] = <<>>]
  /\ bound' = [p \in Ports |-> IF bound[p] = w THEN Nobody ELSE bound[p]]
  /\ changed' = alive \ {w}
  /\ UNCHANGED <<want, daemon, control, overlaps, holder, claim>>

\* A claim file that no window renews outlives its 15 s.
ClaimExpires(p) ==
  /\ p \in claim /\ \A w \in alive : p \notin router[w].claims
  /\ claim' = claim \ {p}
  /\ UNCHANGED <<host, overlaps, holder, signal, router, tail, bound, changed, retry, faults>>

----------------------------------------------------------------------------
\* A scene: which window routes at the start, who runs the loop, the faults.
RouterInit(s) ==
  /\ alive = s.alive
  /\ holder = s.router
  /\ signal = {}
  /\ want = s.want
  /\ daemon = TRUE
  /\ control = s.control
  /\ router = [w \in Windows |-> AtRest(IF w = s.router THEN s.want ELSE {})]
  /\ tail = [w \in Windows |-> <<>>]
  /\ bound = [p \in Ports |-> IF p \in s.want THEN s.router ELSE Nobody]
  /\ claim = IF s.router = Nobody THEN {} ELSE s.want
  /\ changed = {}
  /\ retry = {}
  /\ overlaps = s.overlaps
  /\ faults = s.faults

Continue(w) ==
  \/ \E p \in Ports : Opened(w, p) \/ Closed(w, p)
  \/ syncLogicalPortRoutersQueued(w) \/ releaseLogicalRouterOwnerLease(w)
Timers(w) ==
  \/ refreshRouterLeaseHeartbeat(w) \/ RoutingLoop(w) \/ HandoffRetry(w)
  \/ \E p \in Ports : Retire(w, p)
Events(w) == refreshOwnerLeaseFromFileSignal(w) \/ ProcessChange(w)

RouterNext ==
  \/ \E w \in Windows : syncGatewayClaimFilesExclusive(w) \/ Continue(w) \/ Timers(w) \/ Events(w) \/ Crash(w)
  \/ \E p \in Ports : ClaimExpires(p)
  \/ DaemonChanges \/ DaemonReturns

----------------------------------------------------------------------------
(* Properties *)

\* A window that does not own the routers and has nothing left to do holds no
\* listener, no socket, no timer and no claim, however its reconciliation, the
\* heartbeat and the file signals interleaved (demoteLogicalRouterOwner).
DemotedWindowIsEmpty ==
  \A w \in Windows :
    LET r == router[w] IN
    ~r.owns /\ r.step = "idle" /\ ~r.release /\ tail[w] = <<>> =>
      /\ r.listeners = {} /\ r.closing = {} /\ r.retiring = {} /\ r.claims = {}
      /\ \A p \in Ports : bound[p] # w

\* In the end one window owns the routers and listens on every wanted port,
\* each with its claim file, and no other port is held.
EventuallyRouted ==
  <>[](alive = {} \/ \E w \in Windows :
         /\ router[w].owns /\ holder = w
         /\ \A v \in Windows \ {w} : ~router[v].owns
         /\ \A p \in Ports : bound[p] = (IF p \in want THEN w ELSE Nobody)
         /\ claim = want)

----------------------------------------------------------------------------
(* Both roles of the windows *)

ownerVars == <<routerVars, controlVars>>
Either(R, C) == (R /\ UNCHANGED controlVars) \/ (C /\ UNCHANGED routerVars)
OwnersNext == Either(RouterNext, ControlNext)

\* A window that is not the owner runs none of the owner's work: its router is empty
\* once the demotion is over, and its loop is not armed.
DemotedWindowIsIdle == RouterTypeOK /\ ControlTypeOK /\ DemotedWindowIsEmpty /\ LoopRunsInOwner
=============================================================================
