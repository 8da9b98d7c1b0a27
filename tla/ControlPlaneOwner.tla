------------------------- MODULE ControlPlaneOwner -------------------------
(***************************************************************************)
(* The window that runs the control plane (extension/network-service): the  *)
(* startup of an elected owner, its routing loop and marker poll, the       *)
(* heartbeat, the file signal that hands the lease over, the command that   *)
(* steals it, and demotion.                                                 *)
(*                                                                          *)
(* The startup awaits file and Docker work between the steps of `startup`;  *)
(* every other event of the window may come in between.                     *)
(***************************************************************************)
EXTENDS Naturals

CONSTANTS
  Windows,  \* the extension hosts of one user
  Nobody    \* no window
ASSUME NobodyAssumption == Nobody \notin Windows

----------------------------------------------------------------------------
(* The owner lease file through which the windows of one user elect the     *)
(* window that runs the control plane (extension/network-service).  The     *)
(* leases of the logical port routers and of the browser proxies are copies *)
(* of the same protocol over files of their own.                            *)
(*                                                                          *)
(* A window is one JavaScript thread, so a lease function never yields to   *)
(* other work of its window; but each of its file operations interleaves    *)
(* with those of the other windows.  `call` is the lease function a window  *)
(* is in, with the work that continues on its result.                       *)

VARIABLES
  open,     \* windows whose process is alive
  lease,    \* the owner document
  lock,     \* the lock file: "free", "held" or "stale"
  woken,    \* windows whose watcher has seen the document change
  call,     \* window -> the lease function it is in
  disturbed,\* something happened that lets two windows get the lease
  mishaps   \* how many mishaps of each kind are still to come

leaseVars == <<open, lease, lock, woken, call, disturbed, mishaps>>

NoLease == [owner |-> Nobody, age |-> "current"]
LeaseSteps ==
  {"none", "read", "lock", "remove", "check", "renew", "refill", "write", "fill",
   "release", "rm", "yes", "no"}
NoCall == [step |-> "none", try |-> 1, job |-> "none"]

LeaseTypeOK ==
  /\ open \subseteq Windows /\ woken \subseteq open
  /\ lease \in [owner : Windows \cup {Nobody}, age : {"current", "renewable", "expired"}]
  /\ lock \in {"free", "held", "stale"} /\ disturbed \in BOOLEAN
  /\ \A w \in Windows : call[w].step \in LeaseSteps /\ call[w].try \in 1..2

\* Nothing of window w is running: its next event can be handled.
Idle(w) == w \in open /\ call[w].step = "none"

\* Entering a lease function, and its result for the work that continues.
Call(w, step, job) == call' = [call EXCEPT ![w] = [step |-> step, try |-> 1, job |-> job]]
Returns(w, job, result) == w \in open /\ call[w].step = result /\ call[w].job = job
Return(w) == call' = [call EXCEPT ![w] = NoCall]

Mishap(kind) == mishaps[kind] > 0 /\ mishaps' = [mishaps EXCEPT ![kind] = @ - 1]

isActiveControlPlaneOwner == lease.owner \in open /\ lease.age # "expired"

\* Every change of the owner file wakes the watchers of all windows.
Put(l) == lease' = l /\ woken' = open

To(w, step) == call' = [call EXCEPT ![w].step = step]
Step(w, step) == w \in open /\ call[w].step = step

----------------------------------------------------------------------------
(* tryAcquireControlPlaneOwnerLease, by file operation *)

ReadOwner(w) ==
  /\ Step(w, "read")
  /\ To(w, IF lease.owner = w THEN IF lease.age = "current" THEN "yes" ELSE "renew"
           ELSE IF isActiveControlPlaneOwner THEN "no" ELSE "lock")
  /\ UNCHANGED <<open, lease, lock, woken, disturbed, mishaps>>

\* An attempt that found the lock taken is followed by a second one.
NextAttempt(w) ==
  call' = [call EXCEPT ![w].step = IF call[w].try = 1 THEN "lock" ELSE "no",
                       ![w].try = 2]

Lock(w) ==
  /\ Step(w, "lock")
  /\ \/ lock = "free" /\ lock' = "held" /\ To(w, "check")
     \/ lock = "held" /\ NextAttempt(w) /\ UNCHANGED lock
     \/ lock = "stale" /\ To(w, "remove") /\ UNCHANGED lock
  /\ UNCHANGED <<open, lease, woken, disturbed, mishaps>>

\* The removal follows the look at the lock file's age: it can take away the
\* lock of a window that came in between.
removeStaleControlPlaneOwnerLock(w) ==
  /\ Step(w, "remove")
  /\ lock' = "free"
  /\ NextAttempt(w)
  /\ UNCHANGED <<open, lease, woken, disturbed, mishaps>>

WriteWithoutCheck(w) ==
  /\ Step(w, "check")
  /\ To(w, "write")
  /\ UNCHANGED <<open, lease, lock, woken, disturbed, mishaps>>
CheckOwner(w) ==
  /\ Step(w, "check")
  /\ IF lease.owner # w /\ isActiveControlPlaneOwner
       THEN To(w, "no") /\ lock' = "free"
       ELSE To(w, "write") /\ UNCHANGED lock
  /\ UNCHANGED <<open, lease, woken, disturbed, mishaps>>

\* The renewal of an own lease, and the command that takes it, use no lock.
writeControlPlaneOwnerLease(w) ==
  /\ \/ (Step(w, "write") \/ Step(w, "fill")) /\ lock' = "free"
     \/ (Step(w, "renew") \/ Step(w, "refill")) /\ UNCHANGED lock
  /\ To(w, "yes")
  /\ Put([owner |-> w, age |-> "current"])
  /\ UNCHANGED <<open, disturbed, mishaps>>

\* writeFileSync truncates the file before it fills it: another window that
\* reads in between finds no owner.
Truncate(w) ==
  /\ Mishap("torn")
  /\ Step(w, "write") \/ Step(w, "renew")
  /\ To(w, IF call[w].step = "write" THEN "fill" ELSE "refill")
  /\ Put(NoLease)
  /\ disturbed' = TRUE
  /\ UNCHANGED <<open, lock>>

FailWrite(w) ==
  /\ Mishap("writes")
  /\ \/ Step(w, "write") /\ lock' = "free"
     \/ Step(w, "renew") /\ UNCHANGED lock
  /\ To(w, "no")
  /\ UNCHANGED <<open, lease, woken, disturbed>>

\* releaseControlPlaneOwnerLease removes the document if it is its own.
ReadBeforeRelease(w) ==
  /\ Step(w, "release")
  /\ To(w, IF lease.owner = w THEN "rm" ELSE "yes")
  /\ UNCHANGED <<open, lease, lock, woken, disturbed, mishaps>>
releaseControlPlaneOwnerLease(w) ==
  /\ Step(w, "rm")
  /\ To(w, "yes")
  /\ Put(NoLease)
  /\ UNCHANGED <<open, lock, disturbed, mishaps>>

LeaseStep(w) ==
  \/ ReadOwner(w) \/ Lock(w) \/ removeStaleControlPlaneOwnerLock(w) \/ CheckOwner(w)
  \/ writeControlPlaneOwnerLease(w) \/ ReadBeforeRelease(w) \/ releaseControlPlaneOwnerLease(w)

----------------------------------------------------------------------------
(* Time *)

\* A lease becomes renewable after 25 s, in which every lease function that was
\* running has ended.  A heartbeat comes every 10 s, so an owner renews long before
\* the lease ends unless its thread is stalled or the machine sleeps.
LeaseAges ==
  /\ lease.owner # Nobody
  /\ \/ /\ lease.age = "current" /\ \A w \in open : call[w].step = "none"
        /\ lease' = [lease EXCEPT !.age = "renewable"]
        /\ UNCHANGED <<disturbed, mishaps>>
     \/ /\ lease.age = "renewable" /\ Mishap("stalls")
        /\ lease' = [lease EXCEPT !.age = "expired"]
        /\ disturbed' = TRUE
  /\ UNCHANGED <<open, lock, woken, call>>

\* A lock outlives only a window that died while it held it.
LockAges ==
  /\ lock = "held"
  /\ \A w \in open : call[w].step \notin {"check", "write", "fill"}
  /\ lock' = "stale"
  /\ disturbed' = TRUE
  /\ UNCHANGED <<open, lease, woken, call, mishaps>>

----------------------------------------------------------------------------
(* The control plane of a window                                            *)

VARIABLES
  plane,  \* window -> its control plane
  lost    \* an election ended without an owner, or nobody was told of one

controlVars == <<leaseVars, plane, lost>>

Planes ==
  [owns : BOOLEAN,
   startup : {"none", "watchers", "services", "late"},  \* controlPlaneOwnerStartupInFlight
   watching : BOOLEAN,   \* controlPlaneOwnerDisposables
   loop : BOOLEAN,       \* routingSignalRefreshTimer
   refreshing : BOOLEAN, \* routingSignalRefreshInFlight
   poll : BOOLEAN,       \* terminalAttachmentMarkerPollTimer
   tracking : BOOLEAN]   \* freshness heartbeat and container events watcher
NoPlane ==
  [owns |-> FALSE, startup |-> "none", watching |-> FALSE, loop |-> FALSE,
   refreshing |-> FALSE, poll |-> FALSE, tracking |-> FALSE]
ControlTypeOK == LeaseTypeOK /\ plane \in [Windows -> Planes] /\ lost \in BOOLEAN

Set(w, p) == plane' = [plane EXCEPT ![w] = p]
files == <<open, lease, lock, disturbed>>

----------------------------------------------------------------------------
(* Demotion and the owner-only timers *)

Stopped(p) ==
  [p EXCEPT !.owns = FALSE, !.watching = FALSE, !.loop = FALSE, !.poll = FALSE,
            !.tracking = FALSE]
DemoteKeepsLease(w, p) ==
  IF ~p.owns /\ ~p.watching /\ ~p.loop /\ ~p.poll
    THEN Set(w, p) /\ Return(w)
    ELSE Set(w, Stopped(p)) /\ Return(w)
demoteControlPlaneOwner(w, p) ==
  IF ~p.owns /\ ~p.watching /\ ~p.loop /\ ~p.poll
    THEN Set(w, p) /\ Return(w)
    ELSE Set(w, Stopped(p)) /\ Call(w, "release", "demote")
Demoted(w) ==
  /\ Returns(w, "demote", "yes")
  /\ Return(w)
  /\ UNCHANGED <<files, woken, mishaps, plane, lost>>

scheduleNextRoutingSignalRefresh(p) == [p EXCEPT !.loop = @ \/ p.owns]
SyncTrackers(p) == [p EXCEPT !.tracking = p.owns]

----------------------------------------------------------------------------
(* Startup *)

\* The request joins a startup in flight, whose window may have lost the lease
\* since: then no election follows.
startControlPlaneOwnerIfAvailable(w) ==
  LET p == plane[w] IN
  IF p.startup # "none" \/ (p.owns /\ lease.owner = w)
    THEN /\ Return(w)
         /\ lost' = (lost \/ (p.startup # "none" /\ ~p.owns))
         /\ UNCHANGED plane
    ELSE Call(w, "read", "start") /\ UNCHANGED <<plane, lost>>

startControlPlaneOwnerIfAvailableExclusive(w) ==
  LET p == plane[w] IN
  /\ \/ /\ Returns(w, "start", "yes")
        /\ Set(w, [p EXCEPT !.owns = TRUE,
                     !.startup = IF p.owns THEN @
                                 ELSE IF p.watching THEN "services" ELSE "watchers"])
        /\ lost' = FALSE
        /\ Return(w)
     \/ /\ Returns(w, "start", "no")
        /\ demoteControlPlaneOwner(w, p)
        /\ lost' = (lost \/ ~isActiveControlPlaneOwner)
  /\ UNCHANGED <<files, woken, mishaps>>

startControlPlaneOwnerWatchers(w) ==
  /\ Idle(w) /\ plane[w].startup = "watchers"
  /\ Set(w, [plane[w] EXCEPT !.watching = TRUE, !.startup = "services"])
  /\ UNCHANGED <<leaseVars, lost>>

\* The routing loop starts once the daemon and the routers are up; the trackers
\* come after the Compose work.  Neither step looks at the lease again.
startControlPlaneOwnerServices(w) ==
  LET p == plane[w] IN
  /\ Idle(w)
  /\ \/ /\ p.startup = "services"
        /\ Set(w, [scheduleNextRoutingSignalRefresh(p) EXCEPT !.poll = TRUE, !.startup = "late"])
     \/ /\ p.startup = "late"
        /\ Set(w, [SyncTrackers(p) EXCEPT !.startup = "none"])
  /\ UNCHANGED <<leaseVars, lost>>

----------------------------------------------------------------------------
(* Timers *)

\* refreshOwnedLeaseHeartbeats renews a lease the window owns.  One that would change nothing
\* is no step.
refreshControlLeaseHeartbeat(w) ==
  /\ Idle(w) /\ plane[w].owns
  /\ ~(lease.owner = w /\ lease.age = "current")
  /\ Call(w, "read", "beat")
  /\ UNCHANGED <<files, woken, mishaps, plane, lost>>
Beaten(w) ==
  /\ \/ Returns(w, "beat", "yes") /\ Return(w) /\ UNCHANGED plane
     \/ Returns(w, "beat", "no") /\ demoteControlPlaneOwner(w, plane[w])
  /\ UNCHANGED <<files, woken, mishaps, lost>>

\* The loop's timer fires: a refresh in flight is joined.
refreshRoutingSignals(w) ==
  LET p == [plane[w] EXCEPT !.loop = FALSE] IN
  /\ Idle(w) /\ plane[w].loop
  /\ \/ p.refreshing /\ Set(w, p) /\ Return(w)
     \/ /\ ~p.refreshing /\ p.owns
        /\ Set(w, p) /\ Call(w, "read", "tick")
     \/ /\ ~p.refreshing /\ ~p.owns
        /\ demoteControlPlaneOwner(w, p)
  /\ UNCHANGED <<files, woken, mishaps, lost>>
refreshRoutingSignalsExclusive(w) ==
  LET p == plane[w] IN
  /\ \/ /\ Returns(w, "tick", "yes")
        /\ Set(w, [SyncTrackers(p) EXCEPT !.refreshing = TRUE])
        /\ Return(w)
     \/ Returns(w, "tick", "no") /\ demoteControlPlaneOwner(w, p)
  /\ UNCHANGED <<files, woken, mishaps, lost>>
RefreshEnds(w) ==
  /\ Idle(w) /\ plane[w].refreshing
  /\ Set(w, [scheduleNextRoutingSignalRefresh(plane[w]) EXCEPT !.refreshing = FALSE])
  /\ UNCHANGED <<leaseVars, lost>>

\* The marker poll ends in a window that is no owner any more.
scheduleNextTerminalAttachmentMarkerPoll(w) ==
  /\ Idle(w) /\ plane[w].poll /\ ~plane[w].owns
  /\ Set(w, [plane[w] EXCEPT !.poll = FALSE])
  /\ UNCHANGED <<leaseVars, lost>>

----------------------------------------------------------------------------
(* Events *)

\* A command that needs the control plane.
Command(w) ==
  /\ Idle(w) /\ Mishap("commands")
  /\ startControlPlaneOwnerIfAvailable(w)
  /\ UNCHANGED <<files, woken>>

\* Registry changes and routing activity in the owner.
runControlPlaneRegistrySideEffects(w) ==
  /\ Idle(w) /\ Mishap("changes")
  /\ IF plane[w].owns
       THEN /\ Set(w, scheduleNextRoutingSignalRefresh(plane[w]))
            /\ Call(w, "read", "beat")
       ELSE demoteControlPlaneOwner(w, plane[w])
  /\ UNCHANGED <<files, woken, lost>>

\* The command that makes this window the owner steals the lease.
takeControlPlaneOwnership(w) ==
  /\ Idle(w) /\ Mishap("takes")
  /\ ~(plane[w].owns /\ lease.owner = w)
  /\ Call(w, "renew", "take")
  /\ disturbed' = TRUE
  /\ UNCHANGED <<open, lease, lock, woken, plane, lost>>
Taken(w) ==
  /\ \/ Returns(w, "take", "yes") /\ startControlPlaneOwnerIfAvailable(w)
     \/ Returns(w, "take", "no") /\ Return(w) /\ UNCHANGED <<plane, lost>>
  /\ UNCHANGED <<files, woken, mishaps>>

refreshControlOwnerFromFileSignal(w) ==
  LET p == plane[w] IN
  /\ Idle(w) /\ w \in woken
  /\ woken' = woken \ {w}
  /\ CASE p.owns /\ lease.owner # w /\ isActiveControlPlaneOwner ->
            demoteControlPlaneOwner(w, p) /\ UNCHANGED lost
       [] ~p.owns /\ ~isActiveControlPlaneOwner -> startControlPlaneOwnerIfAvailable(w)
       [] OTHER -> UNCHANGED <<call, plane, lost>>
  /\ UNCHANGED <<files, mishaps>>

OpenWindow(w) ==
  /\ w \in mishaps.later
  /\ mishaps' = [mishaps EXCEPT !.later = @ \ {w}]
  /\ open' = open \cup {w}
  /\ Call(w, "read", "start")
  /\ UNCHANGED <<lease, lock, woken, disturbed, plane, lost>>

\* dispose releases the lease at once; then the process ends.
dispose(w) ==
  /\ Idle(w) /\ Mishap("closes")
  /\ Set(w, NoPlane)
  /\ woken' = woken \ {w}
  /\ Call(w, "release", "exit")
  /\ UNCHANGED <<files, lost>>
Exit(w) ==
  /\ Returns(w, "exit", "yes")
  /\ open' = open \ {w} /\ woken' = woken \ {w}
  /\ Return(w)
  /\ UNCHANGED <<lease, lock, disturbed, mishaps, plane, lost>>

\* A killed window leaves its files, and no watcher hears of it.
KillWindow(w) ==
  /\ w \in open /\ Mishap("kills")
  /\ open' = open \ {w} /\ woken' = woken \ {w}
  /\ Set(w, NoPlane)
  /\ Return(w)
  /\ lost' = (lost \/ lease.owner = w)
  /\ UNCHANGED <<lease, lock, disturbed>>

----------------------------------------------------------------------------
\* A scene: who owns the control plane, who is open, what is still to come.
ControlInit(s) ==
  /\ open = s.open
  /\ lease = [owner |-> s.owner, age |-> "current"]
  /\ lock = "free"
  /\ woken = {}
  /\ call = [w \in Windows |-> NoCall]
  /\ disturbed = FALSE
  /\ mishaps = s.mishaps
  /\ plane = [w \in Windows |->
       IF w = s.owner
         THEN [NoPlane EXCEPT !.owns = TRUE, !.watching = TRUE, !.loop = TRUE, !.poll = TRUE]
         ELSE NoPlane]
  /\ lost = (s.owner = Nobody)

LeaseWork(w) == LeaseStep(w) /\ UNCHANGED <<plane, lost>>
Results(w) ==
  \/ Demoted(w) \/ startControlPlaneOwnerIfAvailableExclusive(w) \/ Beaten(w)
  \/ refreshRoutingSignalsExclusive(w) \/ Taken(w) \/ Exit(w)
Startup(w) == startControlPlaneOwnerWatchers(w) \/ startControlPlaneOwnerServices(w)
Visits(w) ==
  \/ Command(w) \/ runControlPlaneRegistrySideEffects(w) \/ takeControlPlaneOwnership(w)
  \/ OpenWindow(w) \/ dispose(w) \/ KillWindow(w)

ControlNext ==
  \/ \E w \in Windows :
       \/ LeaseWork(w) \/ Results(w) \/ Startup(w) \/ Visits(w)
       \/ refreshControlLeaseHeartbeat(w) \/ refreshRoutingSignals(w) \/ RefreshEnds(w)
       \/ scheduleNextTerminalAttachmentMarkerPoll(w) \/ refreshControlOwnerFromFileSignal(w)
       \/ ((Truncate(w) \/ FailWrite(w)) /\ UNCHANGED <<plane, lost>>)
  \/ (LeaseAges \/ LockAges) /\ UNCHANGED <<plane, lost>>

----------------------------------------------------------------------------
(* Properties *)

\* The routing loop, the freshness heartbeat and the container events stream
\* run in no window that has been demoted, whatever startup or refresh was still
\* in flight there (scheduleNextRoutingSignalRefresh, demoteControlPlaneOwner).
LoopRunsInOwner ==
  \A w \in Windows : plane[w].loop \/ plane[w].tracking => plane[w].owns

Election == INSTANCE OwnerElection WITH holder <- lease.owner, up <- open
\* The file operations of tryAcquire, release and renewal implement the election:
\* without a disturbance no window takes the lease of a live owner.
ElectionHolds == Election!ElectionSpec

Settled ==
  \/ open = {}
  \/ \E w \in open :
       /\ plane[w].owns /\ lease.owner = w
       /\ \A v \in Windows \ {w} : ~plane[v].owns /\ ~plane[v].poll
\* In the end exactly one open window owns the control plane and the lease names
\* it, unless an election came to nothing that only a further command repeats.
EventuallyOneOwner == <>[](Settled \/ lost)
\* "exactly one window keeps running the automatic control-plane side effects"
\* after a take (takeControlPlaneOwnership).
TakeSettles == <>[]Settled
=============================================================================
