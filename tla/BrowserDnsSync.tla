--------------------------- MODULE BrowserDnsSync ---------------------------
(***************************************************************************)
(* How the browser DNS table reaches the daemon.  Every VS Code window     *)
(* derives the table from the shared network document and pushes it        *)
(* through its own coordinator; the daemon accepts a push only while its   *)
(* revision is the one the shared document has on disk.                    *)
(*                                                                         *)
(* Abstractions: a document is the sequence `docs` of record tables saved  *)
(* so far, its revision their number; request payloads are revisions;      *)
(* timers may fire at any time.  MaxSaves and MaxFaults bound the document *)
(* revisions and the faults (timeouts, crashes, failed writes and binds,   *)
(* closed windows).                                                        *)
(***************************************************************************)
EXTENDS Naturals, Sequences

-----------------------------------------------------------------------------
(* BrowserDnsSyncCoordinator (src/extension/browser-dns-sync-coordinator) as *)
(* pure operators on one coordinator's fields.  JavaScript runs each         *)
(* operator to its next await without interruption, so an operator is the    *)
(* whole synchronous segment of the method it is named after.                *)
(*                                                                           *)
(* `active` distinguishes the three suspension points of runDrain():         *)
(*   "idle"      active = undefined,                                         *)
(*   "sending"   drain() awaits deps.send,                                   *)
(*   "settling"  drain() has returned, its finally block has not run.        *)
(* A batch is a table revision and the daemon incarnation it is meant for;   *)
(* its records and signature are functions of the revision.                  *)

CONSTANTS
  Revs,        \* table revisions; 0 stands for `revision === undefined`
  Incs,        \* daemon incarnations (pid and startedAt)
  BackoffCap,  \* the exponent at which retry() stops growing (5 in the code)
  None         \* undefined

ASSUME DnsConstants ==
  BackoffCap \in Nat /\ None \notin [rev : Revs, inc : Incs] /\ None \notin Revs

Batch == [rev : Revs, inc : Incs]

Coordinator ==
  [queued     : Batch \cup {None},
   sending    : Batch \cup {None},
   active     : {"idle", "sending", "settling"},
   retryTimer : BOOLEAN,
   attempt    : 0..BackoffCap,
   disposed   : BOOLEAN]

NewCoordinator ==
  [queued |-> None, sending |-> None, active |-> "idle",
   retryTimer |-> FALSE, attempt |-> 0, disposed |-> FALSE]

\* The head of drain()'s loop: leave it, or let prepare() stamp the current
\* incarnation on the queued table and send that.
Loop(c, inc) ==
  IF c.disposed \/ c.queued = None
  THEN [c EXCEPT !.sending = None, !.active = "settling"]
  ELSE [c EXCEPT !.sending = [rev |-> c.queued.rev, inc |-> inc],
                 !.queued  = None,
                 !.active  = "sending"]

start(c, inc) ==
  IF c.disposed \/ c.active # "idle" \/ c.queued = None THEN c ELSE Loop(c, inc)

cancelTimer(c) == [c EXCEPT !.retryTimer = FALSE, !.attempt = 0]

startUnlessWaiting(c, inc) == IF c.retryTimer THEN c ELSE start(c, inc)

enqueueCoalescesAny(c, batch, inc) ==
  IF c.disposed \/ c.sending # None THEN c
  ELSE startUnlessWaiting([c EXCEPT !.queued = batch], inc)

\* A second table equal to the one in flight is redundant; a changed table
\* does not inherit the backoff of the one it replaces.
enqueue(c, batch, inc) ==
  IF c.disposed THEN c
  ELSE IF c.sending = batch THEN [c EXCEPT !.queued = None]
  ELSE LET next == [c EXCEPT !.queued = batch]
       IN  startUnlessWaiting(
             IF c.queued # batch /\ c.retryTimer THEN cancelTimer(next) ELSE next,
             inc)

flushPendingNow(c, inc) ==
  IF c.disposed THEN c ELSE start([c EXCEPT !.retryTimer = FALSE], inc)

dispose(c) == [c EXCEPT !.disposed = TRUE, !.retryTimer = FALSE, !.queued = None]

runDrainEndsIdle(c, inc) == [c EXCEPT !.active = "idle"]

\* runDrain()'s finally block.
runDrainFinally(c, inc) == startUnlessWaiting([c EXCEPT !.active = "idle"], inc)

\* The callback retry() schedules.
retryFires(c, inc) == start([c EXCEPT !.retryTimer = FALSE], inc)

retry(c) ==
  IF c.retryTimer \/ c.disposed THEN c
  ELSE [c EXCEPT !.retryTimer = TRUE,
                 !.attempt = IF @ < BackoffCap THEN @ + 1 ELSE @]

\* The end of drain()'s loop body after a failure: a table that differs from
\* the failed one goes out in this drain, the same table waits for a timer.
retryOrContinue(c, inc) ==
  IF c.queued # None /\ c.queued # c.sending
  THEN Loop([c EXCEPT !.attempt = 0], inc)
  ELSE [retry(c) EXCEPT !.sending = None, !.active = "settling"]

\* The ways deps.send and resolveRejected() can turn out.
Outcomes == {"suspended", "running", "drop", "replace", "retry", "unbound", "error"}

drainForgetsUnbound(c, outcome, replacement, inc) ==
  IF outcome \in {"error", "retry"} THEN retryOrContinue(
         IF c.queued = None THEN [c EXCEPT !.queued = c.sending] ELSE c, inc)
  ELSE Loop([c EXCEPT !.attempt = 0], inc)

\* What drain() does with the outcome of its send: nothing is left to do for
\* the table, the table of the current document replaces it, or it is kept
\* unless a newer one was queued meanwhile.
drainOutcome(c, outcome, replacement, inc) ==
  IF c.disposed THEN Loop(c, inc)
  ELSE IF outcome \in {"suspended", "running", "drop"}
  THEN Loop([c EXCEPT !.attempt = 0], inc)
  ELSE IF outcome = "replace"
  THEN retryOrContinue([c EXCEPT !.queued = replacement], inc)
  ELSE retryOrContinue(
         IF c.queued = None THEN [c EXCEPT !.queued = c.sending] ELSE c, inc)

\* No accepted table waits for an event that may never come: the class comment
\* promises that a batch queued while a drain settles starts another drain, and
\* a retry timer is only ever armed for a table that is still queued.
NotStranded(c) ==
  /\ ~c.disposed /\ c.queued # None => c.active # "idle" \/ c.retryTimer
  /\ c.retryTimer => ~c.disposed /\ c.queued # None /\ c.active # "sending"
  /\ c.active = "sending" <=> c.sending # None

-----------------------------------------------------------------------------
(* The windows, the shared document and the daemon                           *)

CONSTANTS
  Windows,    \* extension hosts
  Records,    \* possible record tables
  DefaultTable, \* the table of a registry nobody has changed
  MaxSaves,
  MaxFaults,
  Starts      \* the open windows, saved documents and past faults to begin with

ASSUME SyncConstants ==
  /\ MaxSaves \in Nat /\ MaxFaults \in Nat
  /\ Revs = 0..MaxSaves
  /\ Incs = 1..(MaxFaults + 1)
  /\ DefaultTable \in Records
  /\ \A first \in Starts :
       /\ first.open \subseteq Windows /\ first.faults \in 0..MaxFaults
       /\ first.docs \in Seq(Records) /\ Len(first.docs) <= MaxSaves

VARIABLES
  docs,       \* tables of the saved documents; its length is the revision
  coord,      \* coordinator of each window
  window,     \* what each window remembers
  wire,       \* the request or the reply of each window's sync RPC
  stray,      \* revisions of requests whose client gave up on them
  daemon,     \* the singleton daemon
  sidecar,    \* the accepted table in the daemon's persisted sidecar file
  suspended,  \* a Stop marker suspends the daemon
  faults      \* faults so far

vars == <<docs, coord, window, wire, stray, daemon, sidecar, suspended, faults>>

Rev == Len(docs)

\* The records a table of that revision holds; windows without a document
\* publish the default registry's table under revision 0.
TableOf(rev) ==
  IF rev = None THEN None ELSE IF rev = 0 THEN DefaultTable ELSE docs[rev]

NoCall == [state |-> "none"]
Request(rev) == [state |-> "request", rev |-> rev]
Reply(rev, applied, running) ==
  [state |-> "reply", rev |-> rev, applied |-> applied, running |-> running]
Suspended == [state |-> "suspended"]

Wires ==
  {NoCall, Suspended} \cup {Request(r) : r \in Revs}
    \cup {Reply(r, a, b) : r \in Revs, a \in BOOLEAN, b \in BOOLEAN}

WindowStates ==
  [seenTable : Records, lastPush : Batch \cup {None}, inc : Incs,
   running : BOOLEAN, changed : BOOLEAN, notified : BOOLEAN]

DaemonStates ==
  [inc : Incs, up : BOOLEAN, table : Revs \cup {None}, running : BOOLEAN]

TypeOK ==
  /\ docs \in Seq(Records) /\ Rev <= MaxSaves
  /\ coord \in [Windows -> Coordinator]
  /\ window \in [Windows -> WindowStates]
  /\ wire \in [Windows -> Wires]
  /\ stray \subseteq Revs
  /\ daemon \in DaemonStates
  /\ sidecar \in Revs \cup {None}
  /\ suspended \in BOOLEAN
  /\ faults \in 0..MaxFaults

Init ==
  \E first \in Starts :
    /\ docs = first.docs
    /\ coord = [w \in Windows |-> [NewCoordinator EXCEPT !.disposed = w \notin first.open]]
    /\ window = [w \in Windows |->
         [seenTable |-> TableOf(Rev), lastPush |-> None,
          inc |-> 1, running |-> FALSE, changed |-> TRUE, notified |-> FALSE]]
    /\ wire = [w \in Windows |-> NoCall]
    /\ stray = {}
    /\ daemon = [inc |-> 1, up |-> TRUE, table |-> None, running |-> FALSE]
    /\ sidecar = None
    /\ suspended = FALSE
    /\ faults = first.faults

Fault == faults < MaxFaults /\ faults' = faults + 1

-----------------------------------------------------------------------------
(* The window: network-service.ts around the coordinator.                  *)

\* LocalAgentClient.syncBrowserDns answers without a request while a Stop
\* marker is present.
syncBrowserDnsCall(rev) == IF suspended THEN Suspended ELSE Request(rev)

\* w's coordinator becomes c; a send that starts issues its RPC.
Coordinate(w, c) ==
  /\ coord' = [coord EXCEPT ![w] = c]
  /\ wire' = [wire EXCEPT ![w] =
       IF coord[w].active = "sending" \/ c.active # "sending" THEN @
       ELSE syncBrowserDnsCall(c.sending.rev)]

\* The same after the outstanding RPC has ended.
CoordinateNext(w, c) ==
  /\ coord' = [coord EXCEPT ![w] = c]
  /\ wire' = [wire EXCEPT ![w] =
       IF c.active = "sending" THEN syncBrowserDnsCall(c.sending.rev) ELSE NoCall]

\* queueBrowserDnsDaemonSync skips a push the daemon is known to hold.
AlreadyPushed(win, rev) ==
  win.lastPush = [rev |-> rev, inc |-> win.inc] /\ win.running

\* syncBrowserDnsRecords of a window in state win, reading document rev.
syncBrowserDnsRecords(w, win, rev) ==
  Coordinate(w, IF AlreadyPushed(win, rev) THEN coord[w]
                ELSE enqueue(coord[w], [rev |-> rev, inc |-> win.inc], win.inc))

Open(w) == ~coord[w].disposed

\* A registry change: saveState writes a new document (every window's watcher
\* will notice), then the change listener pushes the table.
SaveState(w, table) ==
  /\ Open(w) /\ Rev < MaxSaves /\ table # window[w].seenTable
  /\ docs' = Append(docs, table)
  /\ window' = [v \in Windows |->
       IF v = w THEN [window[v] EXCEPT !.seenTable = table]
                ELSE [window[v] EXCEPT !.notified = TRUE]]
  /\ syncBrowserDnsRecords(w, window[w], Rev + 1)
  /\ UNCHANGED <<stray, daemon, sidecar, suspended, faults>>

\* The debounced directory watcher: reloadSharedNetworkState adopts a document
\* another window wrote.  Nothing is pushed when its state is the known one
\* (which covers a document of a revision this window has seen or written).
ReloadSharedNetworkState(w) ==
  /\ Open(w) /\ window[w].notified
  /\ window' = [window EXCEPT ![w].notified = FALSE, ![w].seenTable = TableOf(Rev)]
  /\ IF TableOf(Rev) = window[w].seenTable
     THEN UNCHANGED <<coord, wire>>
     ELSE syncBrowserDnsRecords(w, window[w], Rev)
  /\ UNCHANGED <<docs, stray, daemon, sidecar, suspended, faults>>

\* A snapshot of the daemon reaches the client; a difference queues a change event.
ApplySnapshot(w) ==
  /\ Open(w) /\ daemon.up
  /\ <<window[w].inc, window[w].running>> # <<daemon.inc, daemon.running>>
  /\ window' = [window EXCEPT ![w].inc = daemon.inc, ![w].running = daemon.running,
                              ![w].changed = TRUE]
  /\ UNCHANGED <<docs, coord, wire, stray, daemon, sidecar, suspended, faults>>

\* The queued change event of the process service (and the first sync of start()).
ProcessServiceChanged(w) ==
  /\ Open(w) /\ window[w].changed
  /\ window' = [window EXCEPT ![w].changed = FALSE]
  /\ syncBrowserDnsRecords(w, window[w], Rev)
  /\ UNCHANGED <<docs, stray, daemon, sidecar, suspended, faults>>

\* flushBrowserDnsDaemonSync: a repair forgets the last push and skips the backoff.
FlushBrowserDnsDaemonSync(w) ==
  /\ Open(w)
  /\ window' = [window EXCEPT ![w].lastPush = None]
  /\ LET inc == window[w].inc
     IN  Coordinate(w, flushPendingNow(
           enqueue(coord[w], [rev |-> Rev, inc |-> inc], inc), inc))
  /\ UNCHANGED <<docs, stray, daemon, sidecar, suspended, faults>>

RetryTimerFires(w) ==
  /\ coord[w].retryTimer /\ coord[w].active # "settling"
  /\ Coordinate(w, retryFires(coord[w], window[w].inc))
  /\ UNCHANGED <<docs, window, stray, daemon, sidecar, suspended, faults>>

DrainSettles(w) ==
  /\ coord[w].active = "settling"
  /\ Coordinate(w, runDrainFinally(coord[w], window[w].inc))
  /\ UNCHANGED <<docs, window, stray, daemon, sidecar, suspended, faults>>

\* The window closes: NetworkService.dispose.
Dispose(w) ==
  /\ Open(w) /\ Fault
  /\ Coordinate(w, dispose(coord[w]))
  /\ UNCHANGED <<docs, window, stray, daemon, sidecar, suspended>>

-----------------------------------------------------------------------------
(* The outcome of a push.                                                  *)

\* LocalAgentClient.syncBrowserDns observes the responder's health, then
\* recordBrowserDnsSyncResult remembers an accepted table of this incarnation.
ObserveEveryResult(win, batch, reply) ==
  [win EXCEPT !.running = reply.running, !.lastPush = batch]

ObserveResult(win, batch, reply) ==
  IF batch.inc # win.inc THEN win
  ELSE [win EXCEPT !.running  = IF suspended THEN @ ELSE reply.running,
                   !.changed  = @ \/ (~suspended /\ win.running # reply.running),
                   !.lastPush = IF reply.applied THEN batch ELSE @]

\* resolveRejectedBrowserDnsSync, reading the document again.
resolveRejected(win, batch) ==
  IF Rev = 0 THEN "drop"
  ELSE IF Rev = batch.rev THEN "retry"
  ELSE IF AlreadyPushed(win, Rev) THEN "drop" ELSE "replace"

outcomeOf(win, batch, reply) ==
  IF ~reply.applied THEN resolveRejected(win, batch)
  ELSE IF reply.running THEN "running" ELSE "unbound"

ReplyArrives(w) ==
  /\ wire[w].state = "reply"
  /\ LET batch == coord[w].sending
         win   == IF Open(w) THEN ObserveResult(window[w], batch, wire[w]) ELSE window[w]
     IN  /\ window' = [window EXCEPT ![w] = win]
         /\ CoordinateNext(w, drainOutcome(coord[w], outcomeOf(win, batch, wire[w]),
                                           [rev |-> Rev, inc |-> win.inc], win.inc))
  /\ UNCHANGED <<docs, stray, daemon, sidecar, suspended, faults>>

SuspendedReplyArrives(w) ==
  /\ wire[w].state = "suspended"
  /\ CoordinateNext(w, drainOutcome(coord[w], "suspended", None, window[w].inc))
  /\ UNCHANGED <<docs, window, stray, daemon, sidecar, suspended, faults>>

\* deps.send throws: onError forgets the last push of this incarnation.
SendThrows(w) ==
  /\ window' = IF Open(w) /\ coord[w].sending.inc = window[w].inc
               THEN [window EXCEPT ![w].lastPush = None] ELSE window
  /\ CoordinateNext(w, drainOutcome(coord[w], "error", None, window[w].inc))
  /\ UNCHANGED <<docs, daemon, sidecar, suspended>>

\* The socket closed with the daemon, or a Stop supersedes the request.
ConnectionLost(w) ==
  /\ wire[w].state \in {"request", "reply"} /\ (~daemon.up \/ suspended)
  /\ SendThrows(w)
  /\ UNCHANGED <<stray, faults>>

\* The ten-second timeout: the daemon may still handle the request later.
RequestTimesOut(w) ==
  /\ wire[w].state \in {"request", "reply"} /\ Fault
  /\ stray' = IF wire[w].state = "request" THEN stray \cup {wire[w].rev} ELSE stray
  /\ SendThrows(w)

-----------------------------------------------------------------------------
(* The daemon: PortManagerAgent.syncBrowserDns and its lifecycle.          *)

\* browserDnsRevision, undefined (0) until a table with a revision is accepted.
browserDnsRevision == IF daemon.table = None THEN 0 ELSE daemon.table

FenceAcceptsAnything(rev) == TRUE

FenceAccepts(rev) == IF rev = 0 THEN browserDnsRevision = 0 ELSE rev = Rev

\* The daemon handles a push of revision rev and answers (applied, running): a
\* fenced or unpersisted table is not applied, a replay only binds the responder.
SyncBrowserDns(rev, applied, running) ==
  /\ daemon.up
  /\ \/ /\ ~FenceAccepts(rev)
        /\ ~applied /\ running = daemon.running
        /\ UNCHANGED <<daemon, sidecar, faults>>
     \/ /\ FenceAccepts(rev) /\ (rev = 0 \/ rev # browserDnsRevision)
        /\ Fault                                  \* persistBrowserDnsState fails
        /\ ~applied /\ running = daemon.running
        /\ UNCHANGED <<daemon, sidecar>>
     \/ /\ FenceAccepts(rev)
        /\ sidecar' = rev
        /\ daemon' = [daemon EXCEPT !.table = rev, !.running = running]
        /\ applied
        /\ IF running THEN UNCHANGED faults ELSE ~daemon.running /\ Fault

DaemonHandlesRequest(w) ==
  /\ wire[w].state = "request"
  /\ \E applied, running \in BOOLEAN :
       /\ SyncBrowserDns(wire[w].rev, applied, running)
       /\ wire' = [wire EXCEPT ![w] = Reply(wire[w].rev, applied, running)]
  /\ UNCHANGED <<docs, coord, window, stray, suspended>>

\* A request whose client timed out; nobody reads the answer.
DaemonHandlesStray(rev) ==
  /\ rev \in stray
  /\ stray' = stray \ {rev}
  /\ \E applied, running \in BOOLEAN : SyncBrowserDns(rev, applied, running)
  /\ UNCHANGED <<docs, coord, window, wire, suspended>>

\* The responder's socket closes at run time.
ResponderCloses ==
  /\ daemon.up /\ daemon.running /\ Fault
  /\ daemon' = [daemon EXCEPT !.running = FALSE]
  /\ UNCHANGED <<docs, coord, window, wire, stray, sidecar, suspended>>

\* The daemon dies, possibly between persisting a table and serving it.
DaemonCrashes ==
  /\ daemon.up /\ Fault
  /\ daemon' = [daemon EXCEPT !.up = FALSE, !.running = FALSE, !.table = None]
  /\ sidecar' \in {sidecar} \cup
       {wire[w].rev : w \in {v \in Windows : wire[v].state = "request"
                                             /\ FenceAccepts(wire[v].rev)}}
  /\ stray' = {}
  /\ UNCHANGED <<docs, coord, window, wire, suspended>>

\* A replacement restores the accepted table before it binds.
DaemonStarts ==
  /\ ~daemon.up /\ ~suspended
  /\ daemon' = [inc |-> daemon.inc + 1, up |-> TRUE, table |-> sidecar, running |-> FALSE]
  /\ UNCHANGED <<docs, coord, window, wire, stray, sidecar, suspended, faults>>

\* Stop Daemon and, later, Start Daemon.
StopDaemon ==
  /\ ~suspended /\ daemon.up /\ Fault
  /\ suspended' = TRUE
  /\ daemon' = [daemon EXCEPT !.up = FALSE, !.running = FALSE, !.table = None]
  /\ stray' = {}
  /\ UNCHANGED <<docs, coord, window, wire, sidecar>>

ResumeDaemon ==
  /\ suspended
  /\ suspended' = FALSE
  /\ UNCHANGED <<docs, coord, window, wire, stray, daemon, sidecar, faults>>

-----------------------------------------------------------------------------
WindowStep(w) ==
  \/ ReloadSharedNetworkState(w)
  \/ ApplySnapshot(w)
  \/ ProcessServiceChanged(w)
  \/ RetryTimerFires(w)
  \/ DrainSettles(w)
  \/ ReplyArrives(w)
  \/ SuspendedReplyArrives(w)
  \/ ConnectionLost(w)
  \/ DaemonHandlesRequest(w)

UserStep(w) ==
  \/ \E table \in Records : SaveState(w, table)
  \/ FlushBrowserDnsDaemonSync(w)
  \/ Dispose(w)
  \/ RequestTimesOut(w)

DaemonStep ==
  \/ \E rev \in Revs : DaemonHandlesStray(rev)
  \/ ResponderCloses
  \/ DaemonCrashes
  \/ StopDaemon
  \/ ResumeDaemon

Next ==
  \/ \E w \in Windows : WindowStep(w) \/ UserStep(w)
  \/ DaemonStep
  \/ DaemonStarts

Spec == Init /\ [][Next]_vars

\* The event loops of the windows and of the daemon keep running, and a client
\* that is not suspended starts a missing daemon.  Users and faults are free.
Fairness ==
  /\ \A w \in Windows :
       /\ WF_vars(ReloadSharedNetworkState(w))
       /\ WF_vars(ApplySnapshot(w))
       /\ WF_vars(ProcessServiceChanged(w))
       /\ WF_vars(RetryTimerFires(w))
       /\ WF_vars(DrainSettles(w))
       /\ WF_vars(ReplyArrives(w) \/ SuspendedReplyArrives(w) \/ ConnectionLost(w)
                    \/ DaemonHandlesRequest(w))
  /\ WF_vars(DaemonStarts)

FairSpec == Spec /\ Fairness

-----------------------------------------------------------------------------
\* A batch accepted by enqueue() is being sent, waits for an armed retry timer
\* or starts when the current drain settles: no interleaving of windows, daemon
\* restarts and promise settlements strands it (coordinator class comment).
NoStrandedBatch == \A w \in Windows : NotStranded(coord[w])

\* queueBrowserDnsDaemonSync may skip a push: when a window believes that this
\* incarnation already holds the current document's table, it does.
SkippedPushIsServed ==
  \A w \in Windows :
    window[w].lastPush = [rev |-> Rev, inc |-> daemon.inc] /\ daemon.up
      => daemon.table = Rev

\* The table browsers are answered from, or will be once the daemon is back.
AcceptedTable == IF daemon.up THEN daemon.table ELSE sidecar

\* The revision fence: whatever order pushes, retries, stray requests, crashes
\* and restarts come in, the accepted table never goes back to an older document.
TableNeverRegresses ==
  [][AcceptedTable # None => AcceptedTable' # None /\ AcceptedTable' >= AcceptedTable]_vars

\* Once saves and faults stop, the responder is bound and serves the records of
\* the shared document, unless Stop suspends it or every window is closed.
Published ==
  \/ suspended \/ Rev = 0
  \/ \A w \in Windows : ~Open(w)
  \/ daemon.up /\ daemon.running /\ TableOf(daemon.table) = TableOf(Rev)

EventuallyPublished == <>[]Published

\* Windows, calls and the daemon are typed, and a push that is skipped is of a table the
\* daemon serves.
PushesAreAnswered == TypeOK /\ SkippedPushIsServed
=============================================================================
