------------------------ MODULE BrowserDnsSyncProofs ------------------------
(***************************************************************************)
(* No interleaving strands a queued DNS table, for any number of windows,  *)
(* document revisions and faults.                                          *)
(***************************************************************************)
EXTENDS BrowserDnsSync, TLAPS

\* A coordinator between two synchronous segments.
CoordOK(c) == c \in Coordinator /\ NotStranded(c)

\* drain()'s loop head, entered with no retry timer armed, leaves a coordinator
\* that is sending or settling.
LEMMA LoopOK ==
  ASSUME NEW c \in Coordinator, NEW inc \in Incs, ~c.retryTimer
  PROVE  CoordOK(Loop(c, inc))
<1>1. CASE c.disposed \/ c.queued = None
  <2> DEFINE d == [c EXCEPT !.sending = None, !.active = "settling"]
  <2>1. d \in Coordinator
    BY DEF Coordinator
  <2>2. /\ d.sending = None /\ d.active = "settling" /\ d.retryTimer = c.retryTimer
        /\ d.queued = c.queued /\ d.disposed = c.disposed
    BY DEF Coordinator
  <2> HIDE DEF d
  <2>3. NotStranded(d)
    BY <2>2 DEF NotStranded
  <2> QED BY <1>1, <2>1, <2>3 DEF d, CoordOK, Loop
<1>2. CASE ~(c.disposed \/ c.queued = None)
  <2> DEFINE b == [rev |-> c.queued.rev, inc |-> inc]
             d == [c EXCEPT !.sending = b, !.queued = None, !.active = "sending"]
  <2>1. b \in Batch /\ b # None
    BY <1>2, DnsConstants DEF Coordinator, Batch
  <2> HIDE DEF b
  <2>2. d \in Coordinator
    BY <2>1 DEF Coordinator
  <2>3. /\ d.sending # None /\ d.active = "sending" /\ d.retryTimer = c.retryTimer
        /\ d.queued = None
    BY <2>1 DEF Coordinator
  <2> HIDE DEF d
  <2>4. NotStranded(d)
    BY <2>3 DEF NotStranded
  <2> QED BY <1>2, <2>2, <2>4 DEF d, b, CoordOK, Loop
<1> QED BY <1>1, <1>2

\* start() leaves no queued table behind when no timer is armed.
LEMMA StartOK ==
  ASSUME NEW c \in Coordinator, NEW inc \in Incs, ~c.retryTimer,
         c.active = "sending" <=> c.sending # None
  PROVE  /\ CoordOK(start(c, inc))
         /\ c.active = "sending" => start(c, inc).active = "sending"
<1>1. CASE c.disposed \/ c.active # "idle" \/ c.queued = None
  BY <1>1 DEF CoordOK, NotStranded, start
<1>2. CASE ~(c.disposed \/ c.active # "idle" \/ c.queued = None)
  BY <1>2, LoopOK DEF start
<1> QED BY <1>1, <1>2

\* Starting is also safe with a timer armed, which is then left to fire.
LEMMA StartUnlessWaitingOK ==
  ASSUME NEW c \in Coordinator, NEW inc \in Incs,
         c.retryTimer => ~c.disposed /\ c.queued # None /\ c.active # "sending",
         c.active = "sending" <=> c.sending # None
  PROVE  /\ CoordOK(startUnlessWaiting(c, inc))
         /\ c.active = "sending" => startUnlessWaiting(c, inc).active = "sending"
<1>1. CASE c.retryTimer
  BY <1>1 DEF CoordOK, NotStranded, startUnlessWaiting
<1>2. CASE ~c.retryTimer
  BY <1>2, StartOK DEF startUnlessWaiting
<1> QED BY <1>1, <1>2

\* enqueue() may be called at any await of the drain and from result callbacks.
LEMMA EnqueueOK ==
  ASSUME NEW c, CoordOK(c), NEW batch \in Batch, NEW inc \in Incs
  PROVE  /\ CoordOK(enqueue(c, batch, inc))
         /\ c.active = "sending" => enqueue(c, batch, inc).active = "sending"
<1> c \in Coordinator /\ NotStranded(c)
  BY DEF CoordOK
<1> batch # None
  BY DnsConstants DEF Batch
<1>1. CASE c.disposed
  BY <1>1 DEF enqueue
<1>2. CASE ~c.disposed /\ c.sending = batch
  <2> DEFINE d == [c EXCEPT !.queued = None]
  <2>1. d \in Coordinator
    BY DEF Coordinator
  <2>2. /\ d.sending = c.sending /\ d.active = c.active /\ d.retryTimer = c.retryTimer
        /\ d.queued = None
    BY DEF Coordinator
  <2> HIDE DEF d
  <2>3. c.active = "sending" /\ ~c.retryTimer
    BY <1>2 DEF NotStranded
  <2>4. NotStranded(d)
    BY <1>2, <2>2, <2>3 DEF NotStranded
  <2> QED BY <1>2, <2>1, <2>2, <2>3, <2>4 DEF d, CoordOK, enqueue
<1>3. CASE ~c.disposed /\ c.sending # batch
  <2> DEFINE next == [c EXCEPT !.queued = batch]
             free == [next EXCEPT !.retryTimer = FALSE, !.attempt = 0]
             d    == IF c.queued # batch /\ c.retryTimer THEN cancelTimer(next) ELSE next
  <2>1. /\ next \in Coordinator /\ next.queued = batch /\ next.active = c.active
        /\ next.retryTimer = c.retryTimer /\ next.sending = c.sending
        /\ next.disposed = c.disposed
    BY DEF Coordinator
  <2> HIDE DEF next
  <2>2. /\ free \in Coordinator /\ free.queued = batch /\ free.active = c.active
        /\ ~free.retryTimer /\ free.sending = c.sending
    <3>1. 0 \in 0..BackoffCap
      BY DnsConstants
    <3> QED BY <2>1, <3>1 DEF Coordinator
  <2> HIDE DEF free
  <2>3. d = free \/ d = next
    BY DEF free, cancelTimer
  <2>5. enqueue(c, batch, inc) = startUnlessWaiting(d, inc)
    BY <1>3 DEF enqueue, next
  <2> HIDE DEF d
  <2>4. /\ d \in Coordinator /\ d.active = c.active
        /\ d.retryTimer => ~d.disposed /\ d.queued # None /\ d.active # "sending"
        /\ d.active = "sending" <=> d.sending # None
    <3>1. CASE d = free
      BY <2>2, <3>1 DEF NotStranded
    <3>2. CASE d = next
      BY <1>3, <2>1, <3>2 DEF NotStranded
    <3> QED BY <2>3, <3>1, <3>2
  <2> QED BY <2>4, <2>5, StartUnlessWaitingOK
<1> QED BY <1>1, <1>2, <1>3

\* flushPendingNow() cancels the timer and starts what was waiting for it.
LEMMA FlushOK ==
  ASSUME NEW c, CoordOK(c), NEW inc \in Incs
  PROVE  /\ CoordOK(flushPendingNow(c, inc))
         /\ c.active = "sending" => flushPendingNow(c, inc).active = "sending"
<1> c \in Coordinator /\ NotStranded(c)
  BY DEF CoordOK
<1> DEFINE d == [c EXCEPT !.retryTimer = FALSE]
<1>1. d \in Coordinator /\ ~d.retryTimer /\ d.active = c.active /\ d.sending = c.sending
  BY DEF Coordinator
<1> HIDE DEF d
<1>2. d.active = "sending" <=> d.sending # None
  BY <1>1 DEF NotStranded
<1>3. flushPendingNow(c, inc) = c \/ flushPendingNow(c, inc) = start(d, inc)
  BY DEF flushPendingNow, d
<1> QED BY <1>1, <1>2, <1>3, StartOK

\* The retry callback starts the table it was armed for.
LEMMA RetryFiresOK ==
  ASSUME NEW c, CoordOK(c), NEW inc \in Incs
  PROVE  /\ CoordOK(retryFires(c, inc))
         /\ c.active = "sending" => retryFires(c, inc).active = "sending"
<1> c \in Coordinator /\ NotStranded(c)
  BY DEF CoordOK
<1> DEFINE d == [c EXCEPT !.retryTimer = FALSE]
<1>1. d \in Coordinator /\ ~d.retryTimer /\ d.active = c.active /\ d.sending = c.sending
  BY DEF Coordinator
<1> HIDE DEF d
<1>2. d.active = "sending" <=> d.sending # None
  BY <1>1 DEF NotStranded
<1>3. retryFires(c, inc) = start(d, inc)
  BY DEF retryFires, d
<1> QED BY <1>1, <1>2, <1>3, StartOK

\* dispose() abandons what is queued together with its timer.
LEMMA DisposeOK ==
  ASSUME NEW c, CoordOK(c)
  PROVE  CoordOK(dispose(c)) /\ dispose(c).active = c.active
<1> c \in Coordinator /\ NotStranded(c)
  BY DEF CoordOK
<1>1. /\ dispose(c) \in Coordinator /\ dispose(c).active = c.active
      /\ dispose(c).sending = c.sending /\ ~dispose(c).retryTimer /\ dispose(c).disposed
  BY DEF dispose, Coordinator
<1>2. NotStranded(dispose(c))
  BY <1>1 DEF NotStranded
<1> QED BY <1>1, <1>2 DEF CoordOK

\* runDrain()'s finally block closes the settlement-edge window.
LEMMA RunDrainFinallyOK ==
  ASSUME NEW c, CoordOK(c), c.active = "settling", NEW inc \in Incs
  PROVE  CoordOK(runDrainFinally(c, inc))
<1> c \in Coordinator /\ NotStranded(c)
  BY DEF CoordOK
<1> DEFINE d == [c EXCEPT !.active = "idle"]
<1>1. /\ d \in Coordinator /\ d.active = "idle" /\ d.sending = c.sending
      /\ d.retryTimer = c.retryTimer /\ d.queued = c.queued /\ d.disposed = c.disposed
  BY DEF Coordinator
<1> HIDE DEF d
<1>2. /\ d.retryTimer => ~d.disposed /\ d.queued # None /\ d.active # "sending"
      /\ d.active = "sending" <=> d.sending # None
  BY <1>1 DEF NotStranded
<1>3. runDrainFinally(c, inc) = startUnlessWaiting(d, inc)
  BY DEF runDrainFinally, d
<1> QED BY <1>1, <1>2, <1>3, StartUnlessWaitingOK

\* After a failed send a newer table goes out at once and the same table gets
\* a timer.
LEMMA RetryOrContinueOK ==
  ASSUME NEW c \in Coordinator, NEW inc \in Incs,
         ~c.retryTimer, ~c.disposed, c.queued # None
  PROVE  CoordOK(retryOrContinue(c, inc))
<1>1. CASE c.queued # c.sending
  <2> DEFINE d == [c EXCEPT !.attempt = 0]
  <2>1. 0 \in 0..BackoffCap
    BY DnsConstants
  <2>2. d \in Coordinator /\ ~d.retryTimer
    BY <2>1 DEF Coordinator
  <2>3. retryOrContinue(c, inc) = Loop(d, inc)
    BY <1>1 DEF retryOrContinue
  <2> HIDE DEF d
  <2> QED BY <2>2, <2>3, LoopOK
<1>2. CASE c.queued = c.sending
  <2> DEFINE n == IF c.attempt < BackoffCap THEN c.attempt + 1 ELSE c.attempt
             r == [c EXCEPT !.retryTimer = TRUE, !.attempt = n]
             d == [r EXCEPT !.sending = None, !.active = "settling"]
  <2>1. n \in 0..BackoffCap
    BY DnsConstants DEF Coordinator
  <2> HIDE DEF n
  <2>2. r \in Coordinator /\ r.retryTimer /\ r.queued = c.queued /\ r.disposed = c.disposed
    BY <2>1 DEF Coordinator
  <2>3. retry(c) = r
    BY DEF retry, n
  <2> HIDE DEF r
  <2>4. /\ d \in Coordinator /\ d.queued = c.queued /\ d.disposed = c.disposed
        /\ d.active = "settling" /\ d.sending = None
    BY <2>2 DEF Coordinator
  <2>5. retryOrContinue(c, inc) = d
    BY <1>2, <2>3 DEF retryOrContinue
  <2> HIDE DEF d
  <2>6. NotStranded(d)
    BY <2>4 DEF NotStranded
  <2> QED BY <2>4, <2>5, <2>6 DEF CoordOK
<1> QED BY <1>1, <1>2

\* Whatever the daemon answers, drain() keeps, replaces or finishes the table.
LEMMA DrainOutcomeOK ==
  ASSUME NEW c, CoordOK(c), c.active = "sending", NEW inc \in Incs,
         NEW outcome, NEW replacement,
         outcome = "replace" => replacement \in Batch
  PROVE  CoordOK(drainOutcome(c, outcome, replacement, inc))
<1> /\ c \in Coordinator /\ ~c.retryTimer
    /\ c.sending # None
  BY DEF CoordOK, NotStranded
<1>1. CASE c.disposed
  BY <1>1, LoopOK DEF drainOutcome
<1>2. CASE ~c.disposed /\ outcome \in {"suspended", "running", "drop"}
  <2> DEFINE d == [c EXCEPT !.attempt = 0]
  <2>1. 0 \in 0..BackoffCap
    BY DnsConstants
  <2>2. d \in Coordinator /\ ~d.retryTimer
    BY <2>1 DEF Coordinator
  <2>3. drainOutcome(c, outcome, replacement, inc) = Loop(d, inc)
    BY <1>2 DEF drainOutcome
  <2> HIDE DEF d
  <2> QED BY <2>2, <2>3, LoopOK
<1>3. CASE ~c.disposed /\ outcome = "replace"
  <2> DEFINE d == [c EXCEPT !.queued = replacement]
  <2>1. replacement \in Batch /\ replacement # None
    BY <1>3, DnsConstants DEF Batch
  <2>2. d \in Coordinator /\ ~d.retryTimer /\ ~d.disposed /\ d.queued # None
    BY <1>3, <2>1 DEF Coordinator
  <2>3. drainOutcome(c, outcome, replacement, inc) = retryOrContinue(d, inc)
    BY <1>3 DEF drainOutcome
  <2> HIDE DEF d
  <2> QED BY <2>2, <2>3, RetryOrContinueOK
<1>4. CASE ~c.disposed /\ outcome \notin {"suspended", "running", "drop", "replace"}
  <2> DEFINE d == IF c.queued = None THEN [c EXCEPT !.queued = c.sending] ELSE c
  <2>1. d \in Coordinator /\ ~d.retryTimer /\ ~d.disposed /\ d.queued # None
    BY <1>4 DEF Coordinator
  <2>2. drainOutcome(c, outcome, replacement, inc) = retryOrContinue(d, inc)
    BY <1>4 DEF drainOutcome
  <2> HIDE DEF d
  <2> QED BY <2>1, <2>2, RetryOrContinueOK
<1> QED BY <1>1, <1>2, <1>3, <1>4

-----------------------------------------------------------------------------
\* An RPC is outstanding only while its coordinator awaits it.
CallsAwaited == \A w \in Windows : wire[w].state # "none" => coord[w].active = "sending"

\* Every incarnation after the first was paid for with a fault.
IncarnationsBounded == daemon.inc + (IF daemon.up THEN 0 ELSE 1) <= faults + 1

IInv == TypeOK /\ NoStrandedBatch /\ CallsAwaited /\ IncarnationsBounded

\* The halves of IInv that the coordinators' steps and the other steps disturb.
PushesOK ==
  /\ coord \in [Windows -> Coordinator]
  /\ wire \in [Windows -> Wires]
  /\ NoStrandedBatch
  /\ CallsAwaited

WorldOK ==
  /\ docs \in Seq(Records) /\ Rev <= MaxSaves
  /\ window \in [Windows -> WindowStates]
  /\ stray \subseteq Revs
  /\ daemon \in DaemonStates
  /\ sidecar \in Revs \cup {None}
  /\ suspended \in BOOLEAN
  /\ faults \in 0..MaxFaults
  /\ IncarnationsBounded

\* The two halves make up the inductive invariant.
LEMMA IInvHalves == IInv <=> PushesOK /\ WorldOK
BY DEF IInv, PushesOK, WorldOK, TypeOK

\* Initially every coordinator is idle with an empty queue.
LEMMA InitIInv == Init => IInv
<1> SUFFICES ASSUME Init PROVE IInv
  OBVIOUS
<1> USE DnsConstants, SyncConstants
<1>1. NewCoordinator \in Coordinator /\ NotStranded(NewCoordinator)
  BY DEF NewCoordinator, Coordinator, NotStranded
<1>2. PushesOK
  <2>1. wire \in [Windows -> Wires]
    BY DEF Init, Wires
  <2>2. \A b \in BOOLEAN :
          LET c == [NewCoordinator EXCEPT !.disposed = b]
          IN  c \in Coordinator /\ NotStranded(c)
    BY <1>1 DEF NewCoordinator, Coordinator, NotStranded
  <2>4. \A w \in Windows : \E b \in BOOLEAN : coord[w] = [NewCoordinator EXCEPT !.disposed = b]
    BY DEF Init
  <2>5. \A w \in Windows : coord[w] \in Coordinator /\ NotStranded(coord[w])
    BY <2>2, <2>4
  <2>6. coord \in [Windows -> Coordinator] /\ NoStrandedBatch
    BY <2>5 DEF Init, NoStrandedBatch
  <2>3. CallsAwaited
    BY DEF Init, CallsAwaited, NoCall
  <2> QED BY <2>1, <2>3, <2>6 DEF PushesOK
<1>3. WorldOK
  <2>1. docs \in Seq(Records) /\ Rev <= MaxSaves
    BY DEF Init, Rev
  <2>6. TableOf(Rev) \in Records
    BY <2>1 DEF TableOf, Rev
  <2>2. window \in [Windows -> WindowStates]
    BY <2>6 DEF Init, WindowStates
  <2>3. daemon \in DaemonStates
    BY DEF Init, DaemonStates
  <2>4. stray \subseteq Revs /\ sidecar \in Revs \cup {None} /\ suspended \in BOOLEAN
    BY DEF Init
  <2>5. faults \in 0..MaxFaults /\ IncarnationsBounded
    BY DEF Init, IncarnationsBounded
  <2> QED BY <2>1, <2>2, <2>3, <2>4, <2>5 DEF WorldOK
<1> QED BY <1>2, <1>3, IInvHalves

\* A request or a reply in flight carries a revision.
LEMMA WireRev ==
  ASSUME NEW x \in Wires, x.state \in {"request", "reply"}
  PROVE  x.rev \in Revs
BY DEF Wires, NoCall, Suspended, Request, Reply

\* What a client sends is a request for a revision, or nothing when suspended.
LEMMA CallOK ==
  ASSUME NEW c, CoordOK(c), c.active = "sending"
  PROVE  syncBrowserDnsCall(c.sending.rev) \in Wires
<1>1. c.sending.rev \in Revs
  BY DEF CoordOK, NotStranded, Coordinator, Batch
<1> QED BY <1>1 DEF syncBrowserDnsCall, Wires

\* A window whose coordinator takes a sound step keeps every push accounted for.
LEMMA CoordinateOK ==
  ASSUME PushesOK, NEW w \in Windows, NEW c, CoordOK(c), Coordinate(w, c),
         coord[w].active = "sending" => c.active = "sending"
  PROVE  PushesOK'
<1>1. c \in Coordinator /\ NotStranded(c)
  BY DEF CoordOK
<1>2. coord' \in [Windows -> Coordinator] /\ NoStrandedBatch'
  BY <1>1 DEF PushesOK, Coordinate, NoStrandedBatch
<1>3. wire' \in [Windows -> Wires]
  BY CallOK DEF PushesOK, Coordinate
<1>4. CallsAwaited'
  BY DEF PushesOK, Coordinate, CallsAwaited
<1> QED BY <1>2, <1>3, <1>4 DEF PushesOK

\* The same when the outstanding RPC has ended.
LEMMA CoordinateNextOK ==
  ASSUME PushesOK, NEW w \in Windows, NEW c, CoordOK(c), CoordinateNext(w, c)
  PROVE  PushesOK'
<1>1. c \in Coordinator /\ NotStranded(c)
  BY DEF CoordOK
<1>2. coord' \in [Windows -> Coordinator] /\ NoStrandedBatch'
  BY <1>1 DEF PushesOK, CoordinateNext, NoStrandedBatch
<1>3. wire' \in [Windows -> Wires]
  <2>1. NoCall \in Wires
    BY DEF Wires
  <2> QED BY CallOK, <2>1 DEF PushesOK, CoordinateNext
<1>4. CallsAwaited'
  BY DEF PushesOK, CoordinateNext, CallsAwaited, NoCall
<1> QED BY <1>2, <1>3, <1>4 DEF PushesOK

\* The daemon's answer says whether its responder runs.
LEMMA ReplyFields ==
  ASSUME NEW answer \in Wires, answer.state = "reply"
  PROVE  answer.running \in BOOLEAN
<1>1. NoCall.state # "reply" /\ Suspended.state # "reply"
  BY DEF NoCall, Suspended
<1>2. \A r \in Revs : Request(r).state # "reply"
  BY DEF Request
<1>3. \A r \in Revs, a \in BOOLEAN, b \in BOOLEAN : Reply(r, a, b).running = b
  BY DEF Reply
<1>4. PICK r \in Revs, a \in BOOLEAN, b \in BOOLEAN : answer = Reply(r, a, b)
  BY <1>1, <1>2 DEF Wires
<1> QED BY <1>3, <1>4

\* The facts about one window that its steps use.
LEMMA WindowFacts ==
  ASSUME PushesOK, WorldOK, NEW w \in Windows
  PROVE  /\ CoordOK(coord[w]) /\ wire[w] \in Wires
         /\ window[w] \in WindowStates /\ window[w].inc \in Incs
         /\ Rev \in Revs
         /\ \A inc \in Incs : [rev |-> Rev, inc |-> inc] \in Batch
<1>1. Rev \in Revs
  BY SyncConstants DEF WorldOK, Rev
<1>2. window[w] \in WindowStates /\ window[w].inc \in Incs
  BY DEF WorldOK, WindowStates
<1> QED BY <1>1, <1>2 DEF PushesOK, NoStrandedBatch, CoordOK, Batch

\* syncBrowserDnsRecords skips the push or enqueues the current table.
LEMMA SyncRecordsOK ==
  ASSUME PushesOK, WorldOK, NEW w \in Windows, NEW win \in WindowStates, NEW rev \in Revs,
         syncBrowserDnsRecords(w, win, rev)
  PROVE  PushesOK'
<1> DEFINE batch == [rev |-> rev, inc |-> win.inc]
           c == IF AlreadyPushed(win, rev) THEN coord[w] ELSE enqueue(coord[w], batch, win.inc)
<1>1. CoordOK(coord[w])
  BY WindowFacts
<1>2. win.inc \in Incs /\ batch \in Batch
  BY DEF WindowStates, Batch
<1>3. CoordOK(c) /\ (coord[w].active = "sending" => c.active = "sending")
  BY <1>1, <1>2, EnqueueOK
<1>4. Coordinate(w, c)
  BY DEF syncBrowserDnsRecords
<1> QED BY <1>3, <1>4, CoordinateOK

\* Observing a reply keeps the window's record well-formed.
LEMMA ObserveOK ==
  ASSUME WorldOK, NEW win \in WindowStates, NEW batch \in Batch, NEW reply,
         reply.running \in BOOLEAN
  PROVE  ObserveResult(win, batch, reply) \in WindowStates
<1>1. CASE batch.inc # win.inc
  BY <1>1 DEF ObserveResult
<1>2. CASE batch.inc = win.inc
  <2> DEFINE r == IF suspended THEN win.running ELSE reply.running
             g == win.changed \/ (~suspended /\ win.running # reply.running)
             p == IF reply.applied THEN batch ELSE win.lastPush
             d == [win EXCEPT !.running = r, !.changed = g, !.lastPush = p]
  <2>1. r \in BOOLEAN /\ g \in BOOLEAN /\ p \in Batch \cup {None}
    BY DEF WindowStates
  <2>2. ObserveResult(win, batch, reply) = d
    BY <1>2 DEF ObserveResult
  <2> HIDE DEF r, g, p
  <2>3. d \in WindowStates
    BY <2>1 DEF WindowStates
  <2> QED BY <2>2, <2>3
<1> QED BY <1>1, <1>2

\* A failed send preserves the invariant's halves, apart from the fault counter
\* and the stray requests.
LEMMA SendThrowsOK ==
  ASSUME PushesOK, WorldOK, NEW w \in Windows, wire[w].state # "none", SendThrows(w)
  PROVE  PushesOK' /\ window' \in [Windows -> WindowStates]
<1>1. CoordOK(coord[w]) /\ window[w].inc \in Incs /\ coord[w].active = "sending"
  BY WindowFacts DEF PushesOK, CallsAwaited
<1>2. CoordOK(drainOutcome(coord[w], "error", None, window[w].inc))
  BY <1>1, DrainOutcomeOK
<1>3. PushesOK'
  BY <1>2, CoordinateNextOK DEF SendThrows
<1>4. window' \in [Windows -> WindowStates]
  BY DEF SendThrows, WorldOK, WindowStates
<1> QED BY <1>3, <1>4

\* Spending a fault keeps the counters in range.
LEMMA FaultOK ==
  ASSUME WorldOK, Fault
  PROVE  faults' \in 0..MaxFaults /\ faults' = faults + 1 /\ daemon.inc \in Nat /\ faults \in Nat
BY SyncConstants DEF WorldOK, Fault, DaemonStates

\* The daemon's handling of one push keeps its own state well-formed.
LEMMA SyncBrowserDnsOK ==
  ASSUME WorldOK, NEW rev \in Revs, NEW applied \in BOOLEAN, NEW running \in BOOLEAN,
         SyncBrowserDns(rev, applied, running)
  PROVE  /\ daemon' \in DaemonStates /\ sidecar' \in Revs \cup {None}
         /\ faults' \in 0..MaxFaults /\ IncarnationsBounded'
<1>1. CASE UNCHANGED <<daemon, sidecar, faults>>
  BY <1>1 DEF WorldOK, IncarnationsBounded
<1>2. CASE Fault /\ UNCHANGED <<daemon, sidecar>>
  <2>1. faults' \in 0..MaxFaults /\ IncarnationsBounded'
    BY <1>2, FaultOK DEF WorldOK, IncarnationsBounded
  <2> QED BY <1>2, <2>1 DEF WorldOK
<1>3. CASE /\ sidecar' = rev
           /\ daemon' = [daemon EXCEPT !.table = rev, !.running = running]
           /\ IF running THEN UNCHANGED faults ELSE ~daemon.running /\ Fault
  <2>1. /\ daemon' \in DaemonStates /\ daemon'.inc = daemon.inc /\ daemon'.up = daemon.up
    BY <1>3 DEF WorldOK, DaemonStates
  <2>2. faults' \in 0..MaxFaults /\ faults' >= faults
    BY <1>3, FaultOK, SyncConstants DEF WorldOK
  <2>3. IncarnationsBounded'
    BY <2>1, <2>2, SyncConstants DEF WorldOK, IncarnationsBounded, DaemonStates
  <2> QED BY <1>3, <2>1, <2>2, <2>3
<1> QED BY <1>1, <1>2, <1>3 DEF SyncBrowserDns

\* Every step of the windows, their users and the daemon preserves IInv.
LEMMA NextIInv == IInv /\ [Next]_vars => IInv'
<1>0. IInv' <=> PushesOK' /\ WorldOK'
  BY IInvHalves, PTL
<1> SUFFICES ASSUME PushesOK, WorldOK, [Next]_vars
             PROVE  PushesOK' /\ WorldOK'
  BY <1>0, IInvHalves
<1>1. ASSUME NEW w \in Windows, NEW table \in Records, SaveState(w, table)
      PROVE  PushesOK' /\ WorldOK'
  <2>1. Rev + 1 \in Revs /\ window[w] \in WindowStates
    BY <1>1, WindowFacts, SyncConstants DEF SaveState, WorldOK, Rev
  <2>2. PushesOK'
    BY <1>1, <2>1, SyncRecordsOK DEF SaveState
  <2>3. docs' \in Seq(Records) /\ Rev' <= MaxSaves
    BY <1>1, SyncConstants DEF SaveState, WorldOK, Rev
  <2>4. window' \in [Windows -> WindowStates]
    BY <1>1 DEF SaveState, WorldOK, WindowStates
  <2> QED BY <1>1, <2>2, <2>3, <2>4 DEF SaveState, WorldOK, IncarnationsBounded
<1>2. ASSUME NEW w \in Windows, ReloadSharedNetworkState(w)
      PROVE  PushesOK' /\ WorldOK'
  <2>1. Rev \in Revs /\ window[w] \in WindowStates
    BY WindowFacts
  <2>2. PushesOK'
    <3>1. CASE UNCHANGED <<coord, wire>>
      BY <3>1 DEF PushesOK, NoStrandedBatch, CallsAwaited
    <3> QED BY <1>2, <2>1, <3>1, SyncRecordsOK DEF ReloadSharedNetworkState
  <2>3. TableOf(Rev) \in Records
    <3>1. Rev # None
      BY <2>1, DnsConstants
    <3>2. CASE Rev = 0
      BY <3>1, <3>2, SyncConstants DEF TableOf
    <3>3. CASE Rev # 0
      <4>1. docs[Rev] \in Records
        BY <3>3 DEF Rev, WorldOK
      <4> QED BY <3>1, <3>3, <4>1 DEF TableOf
    <3> QED BY <3>2, <3>3
  <2>4. window' \in [Windows -> WindowStates]
    BY <1>2, <2>3, ZenonT(40) DEF ReloadSharedNetworkState, WorldOK, WindowStates
  <2> QED BY <1>2, <2>2, <2>4 DEF ReloadSharedNetworkState, WorldOK, IncarnationsBounded, Rev
<1>3. ASSUME NEW w \in Windows, ApplySnapshot(w)
      PROVE  PushesOK' /\ WorldOK'
  <2>1. window' \in [Windows -> WindowStates]
    <3>1. daemon.inc \in Incs /\ daemon.running \in BOOLEAN
      BY DEF WorldOK, DaemonStates
    <3>2. window' = [window EXCEPT ![w] = [window[w] EXCEPT
              !.inc = daemon.inc, !.running = daemon.running, !.changed = TRUE]]
      BY <1>3 DEF ApplySnapshot, WorldOK
    <3>3. [window[w] EXCEPT !.inc = daemon.inc, !.running = daemon.running, !.changed = TRUE]
            \in WindowStates
      BY <3>1 DEF WorldOK, WindowStates
    <3> QED BY <3>2, <3>3 DEF WorldOK
  <2>2. PushesOK'
    BY <1>3 DEF ApplySnapshot, PushesOK, NoStrandedBatch, CallsAwaited
  <2> QED BY <1>3, <2>1, <2>2 DEF ApplySnapshot, WorldOK, IncarnationsBounded, Rev
<1>4. ASSUME NEW w \in Windows, ProcessServiceChanged(w)
      PROVE  PushesOK' /\ WorldOK'
  <2>1. PushesOK'
    BY <1>4, WindowFacts, SyncRecordsOK DEF ProcessServiceChanged
  <2>2. window' \in [Windows -> WindowStates]
    BY <1>4 DEF ProcessServiceChanged, WorldOK, WindowStates
  <2> QED BY <1>4, <2>1, <2>2 DEF ProcessServiceChanged, WorldOK, IncarnationsBounded, Rev
<1>5. ASSUME NEW w \in Windows, FlushBrowserDnsDaemonSync(w)
      PROVE  PushesOK' /\ WorldOK'
  <2> DEFINE inc == window[w].inc
             e == enqueue(coord[w], [rev |-> Rev, inc |-> inc], inc)
             f == flushPendingNow(e, inc)
  <2>1. inc \in Incs /\ [rev |-> Rev, inc |-> inc] \in Batch /\ CoordOK(coord[w])
    BY WindowFacts
  <2>2. CoordOK(e) /\ (coord[w].active = "sending" => e.active = "sending")
    BY <2>1, EnqueueOK
  <2> HIDE DEF e
  <2>3. CoordOK(f) /\ (e.active = "sending" => f.active = "sending")
    BY <2>1, <2>2, FlushOK
  <2>4. Coordinate(w, f)
    BY <1>5 DEF FlushBrowserDnsDaemonSync, e
  <2> HIDE DEF f
  <2>5. PushesOK'
    BY <2>2, <2>3, <2>4, CoordinateOK
  <2>6. window' \in [Windows -> WindowStates]
    BY <1>5 DEF FlushBrowserDnsDaemonSync, WorldOK, WindowStates
  <2> QED BY <1>5, <2>5, <2>6 DEF FlushBrowserDnsDaemonSync, WorldOK, IncarnationsBounded, Rev
<1>6. ASSUME NEW w \in Windows, RetryTimerFires(w)
      PROVE  PushesOK' /\ WorldOK'
  <2>1. PushesOK'
    BY <1>6, WindowFacts, RetryFiresOK, CoordinateOK DEF RetryTimerFires
  <2> QED BY <1>6, <2>1 DEF RetryTimerFires, WorldOK, IncarnationsBounded, Rev
<1>7. ASSUME NEW w \in Windows, DrainSettles(w)
      PROVE  PushesOK' /\ WorldOK'
  <2>1. PushesOK'
    BY <1>7, WindowFacts, RunDrainFinallyOK, CoordinateOK DEF DrainSettles
  <2> QED BY <1>7, <2>1 DEF DrainSettles, WorldOK, IncarnationsBounded, Rev
<1>8. ASSUME NEW w \in Windows, Dispose(w)
      PROVE  PushesOK' /\ WorldOK'
  <2>1. PushesOK'
    BY <1>8, WindowFacts, DisposeOK, CoordinateOK DEF Dispose
  <2>2. faults' \in 0..MaxFaults /\ faults' >= faults
    BY <1>8, SyncConstants DEF Dispose, Fault, WorldOK
  <2>3. IncarnationsBounded'
    BY <1>8, <2>2, SyncConstants DEF Dispose, WorldOK, IncarnationsBounded, DaemonStates
  <2> QED BY <1>8, <2>1, <2>2, <2>3 DEF Dispose, WorldOK, Rev
<1>9. ASSUME NEW w \in Windows, ReplyArrives(w)
      PROVE  PushesOK' /\ WorldOK'
  <2> DEFINE c == coord[w]
             win == IF Open(w) THEN ObserveResult(window[w], c.sending, wire[w]) ELSE window[w]
             next == drainOutcome(c, outcomeOf(win, c.sending, wire[w]),
                                  [rev |-> Rev, inc |-> win.inc], win.inc)
  <2>1. CoordOK(c) /\ c.active = "sending"
    BY <1>9, WindowFacts DEF ReplyArrives, PushesOK, CallsAwaited
  <2>2. c.sending \in Batch
    BY <2>1 DEF CoordOK, NotStranded, Coordinator
  <2>3. wire[w].running \in BOOLEAN
    <3>1. wire[w].state = "reply" /\ wire[w] \in Wires
      BY <1>9, WindowFacts DEF ReplyArrives
    <3> QED BY <3>1, ReplyFields
  <2>4. win \in WindowStates
    BY <2>2, <2>3, WindowFacts, ObserveOK
  <2>5. win.inc \in Incs /\ [rev |-> Rev, inc |-> win.inc] \in Batch
    BY <2>4, WindowFacts DEF WindowStates
  <2>6. /\ window' = [window EXCEPT ![w] = win]
        /\ CoordinateNext(w, next)
    BY <1>9 DEF ReplyArrives
  <2> HIDE DEF win
  <2>7. PushesOK'
    BY <2>1, <2>5, <2>6, DrainOutcomeOK, CoordinateNextOK
  <2>8. window' \in [Windows -> WindowStates]
    BY <2>4, <2>6 DEF WorldOK
  <2> QED BY <1>9, <2>7, <2>8 DEF ReplyArrives, WorldOK, IncarnationsBounded, Rev
<1>10. ASSUME NEW w \in Windows, SuspendedReplyArrives(w)
       PROVE  PushesOK' /\ WorldOK'
  <2>1. coord[w].active = "sending" /\ CoordOK(coord[w]) /\ window[w].inc \in Incs
    BY <1>10, WindowFacts DEF SuspendedReplyArrives, PushesOK, CallsAwaited
  <2>2. PushesOK'
    BY <1>10, <2>1, DrainOutcomeOK, CoordinateNextOK DEF SuspendedReplyArrives
  <2> QED BY <1>10, <2>2 DEF SuspendedReplyArrives, WorldOK, IncarnationsBounded, Rev
<1>11. ASSUME NEW w \in Windows, ConnectionLost(w)
       PROVE  PushesOK' /\ WorldOK'
  <2>1. PushesOK' /\ window' \in [Windows -> WindowStates]
    BY <1>11, SendThrowsOK DEF ConnectionLost
  <2> QED BY <1>11, <2>1 DEF ConnectionLost, SendThrows, WorldOK, IncarnationsBounded, Rev
<1>12. ASSUME NEW w \in Windows, RequestTimesOut(w)
       PROVE  PushesOK' /\ WorldOK'
  <2>1. PushesOK' /\ window' \in [Windows -> WindowStates]
    BY <1>12, SendThrowsOK DEF RequestTimesOut
  <2>2. stray' \subseteq Revs
    BY <1>12, WindowFacts, WireRev DEF RequestTimesOut, WorldOK
  <2>3. faults' \in 0..MaxFaults /\ IncarnationsBounded'
    BY <1>12, FaultOK DEF RequestTimesOut, SendThrows, WorldOK, IncarnationsBounded
  <2> QED BY <1>12, <2>1, <2>2, <2>3 DEF RequestTimesOut, SendThrows, WorldOK, Rev
<1>13. ASSUME NEW w \in Windows, DaemonHandlesRequest(w)
       PROVE  PushesOK' /\ WorldOK'
  <2>1. wire[w].rev \in Revs
    BY <1>13, WindowFacts, WireRev DEF DaemonHandlesRequest
  <2>2. PICK a \in BOOLEAN, b \in BOOLEAN :
          /\ SyncBrowserDns(wire[w].rev, a, b)
          /\ wire' = [wire EXCEPT ![w] = Reply(wire[w].rev, a, b)]
    BY <1>13 DEF DaemonHandlesRequest
  <2>3. /\ daemon' \in DaemonStates /\ sidecar' \in Revs \cup {None}
        /\ faults' \in 0..MaxFaults /\ IncarnationsBounded'
    BY <2>1, <2>2, SyncBrowserDnsOK
  <2>4. Reply(wire[w].rev, a, b) \in Wires
    BY <2>1 DEF Wires
  <2>5. PushesOK'
    BY <1>13, <2>2, <2>4 DEF DaemonHandlesRequest, PushesOK, NoStrandedBatch, CallsAwaited
  <2> QED BY <1>13, <2>3, <2>5 DEF DaemonHandlesRequest, WorldOK, Rev
<1>14. ASSUME NEW rev \in Revs, DaemonHandlesStray(rev)
       PROVE  PushesOK' /\ WorldOK'
  <2>1. /\ daemon' \in DaemonStates /\ sidecar' \in Revs \cup {None}
        /\ faults' \in 0..MaxFaults /\ IncarnationsBounded'
    BY <1>14, SyncBrowserDnsOK DEF DaemonHandlesStray
  <2>2. PushesOK'
    BY <1>14 DEF DaemonHandlesStray, PushesOK, NoStrandedBatch, CallsAwaited
  <2> QED BY <1>14, <2>1, <2>2 DEF DaemonHandlesStray, WorldOK, Rev
<1>15. ASSUME ResponderCloses
       PROVE  PushesOK' /\ WorldOK'
  <2>1. daemon' \in DaemonStates /\ daemon'.inc = daemon.inc /\ daemon'.up = daemon.up
    BY <1>15 DEF ResponderCloses, WorldOK, DaemonStates
  <2>2. faults' \in 0..MaxFaults /\ IncarnationsBounded'
    BY <1>15, <2>1, FaultOK DEF ResponderCloses, WorldOK, IncarnationsBounded
  <2> QED BY <1>15, <2>1, <2>2
          DEF ResponderCloses, WorldOK, PushesOK, NoStrandedBatch, CallsAwaited, Rev
<1>16. ASSUME DaemonCrashes
       PROVE  PushesOK' /\ WorldOK'
  <2>1. /\ daemon' \in DaemonStates /\ daemon'.inc = daemon.inc
        /\ daemon.up /\ ~daemon'.up
    BY <1>16 DEF DaemonCrashes, WorldOK, DaemonStates
  <2>2. faults' \in 0..MaxFaults /\ IncarnationsBounded'
    BY <1>16, <2>1, FaultOK DEF DaemonCrashes, WorldOK, IncarnationsBounded
  <2>3. sidecar' \in Revs \cup {None}
    BY <1>16, WindowFacts, WireRev DEF DaemonCrashes, WorldOK
  <2> QED BY <1>16, <2>1, <2>2, <2>3
          DEF DaemonCrashes, WorldOK, PushesOK, NoStrandedBatch, CallsAwaited, Rev
<1>17. ASSUME StopDaemon
       PROVE  PushesOK' /\ WorldOK'
  <2>1. /\ daemon' \in DaemonStates /\ daemon'.inc = daemon.inc
        /\ daemon.up /\ ~daemon'.up
    BY <1>17 DEF StopDaemon, WorldOK, DaemonStates
  <2>2. faults' \in 0..MaxFaults /\ IncarnationsBounded'
    BY <1>17, <2>1, FaultOK DEF StopDaemon, WorldOK, IncarnationsBounded
  <2> QED BY <1>17, <2>1, <2>2
          DEF StopDaemon, WorldOK, PushesOK, NoStrandedBatch, CallsAwaited, Rev
<1>18. ASSUME ResumeDaemon
       PROVE  PushesOK' /\ WorldOK'
  BY <1>18 DEF ResumeDaemon, WorldOK, PushesOK, NoStrandedBatch, CallsAwaited, Rev,
               IncarnationsBounded
<1>19. ASSUME DaemonStarts
       PROVE  PushesOK' /\ WorldOK'
  <2>1. daemon.inc \in Nat /\ faults \in Nat /\ ~daemon.up /\ sidecar \in Revs \cup {None}
    BY <1>19, SyncConstants DEF DaemonStarts, WorldOK, DaemonStates
  <2>2. daemon.inc + 1 \in Incs /\ daemon.inc + 1 <= faults + 1
    BY <2>1, SyncConstants DEF WorldOK, IncarnationsBounded
  <2>3. /\ daemon' \in DaemonStates /\ daemon'.inc = daemon.inc + 1 /\ daemon'.up
    BY <1>19, <2>1, <2>2 DEF DaemonStarts, DaemonStates
  <2>4. IncarnationsBounded'
    BY <1>19, <2>1, <2>2, <2>3 DEF DaemonStarts, IncarnationsBounded
  <2> QED BY <1>19, <2>3, <2>4
          DEF DaemonStarts, WorldOK, PushesOK, NoStrandedBatch, CallsAwaited, Rev
<1>20. CASE UNCHANGED vars
  BY <1>20 DEF vars, WorldOK, PushesOK, NoStrandedBatch, CallsAwaited, Rev, IncarnationsBounded
<1> QED
  BY <1>1, <1>2, <1>3, <1>4, <1>5, <1>6, <1>7, <1>8, <1>9, <1>10, <1>11, <1>12, <1>13,
     <1>14, <1>15, <1>16, <1>17, <1>18, <1>19, <1>20
     DEF Next, WindowStep, UserStep, DaemonStep

-----------------------------------------------------------------------------
\* IInv holds in every reachable state, for any number of windows, tables,
\* saves and faults.
LEMMA Invariance == Spec => []IInv
BY InitIInv, NextIInv, PTL DEF Spec

\* Type correctness of the windows, their RPCs and the daemon.
THEOREM TypeCorrect == Spec => []TypeOK
<1>1. IInv => TypeOK
  BY DEF IInv
<1> QED BY <1>1, Invariance, PTL

\* No table that BrowserDnsSyncCoordinator.enqueue accepted is ever left behind:
\* it is being sent, has a retry timer, or is picked up when the drain settles.
THEOREM NothingStranded == Spec => []NoStrandedBatch
<1>1. IInv => NoStrandedBatch
  BY DEF IInv
<1> QED BY <1>1, Invariance, PTL
-----------------------------------------------------------------------------
\* What the revision fence of PortManagerAgent.syncBrowserDns and the incarnations
\* keep true: an accepted table is of a saved document, the running daemon serves
\* what its sidecar holds, nobody knows an incarnation of the future, and a window's
\* last push, or the accepted push whose answer is on its way, is served by the
\* incarnation it is for.
TableIsSaved(t) == t # None => t \in 0..Rev
Serves(rev) == daemon.table # None /\ daemon.table >= rev
Answered(w) ==
  /\ coord[w].active = "sending" => coord[w].sending.inc <= daemon.inc
  /\ wire[w].state \in {"request", "reply"} => wire[w].rev = coord[w].sending.rev
  /\ wire[w].state = "reply" /\ wire[w].applied /\ daemon.up /\ coord[w].sending.inc = daemon.inc
       => Serves(wire[w].rev)
Remembered(w) ==
  /\ window[w].inc <= daemon.inc
  /\ window[w].lastPush # None =>
       /\ window[w].lastPush.inc <= daemon.inc
       /\ daemon.up /\ window[w].lastPush.inc = daemon.inc => Serves(window[w].lastPush.rev)

FenceInv ==
  /\ TableIsSaved(daemon.table) /\ TableIsSaved(sidecar)
  /\ daemon.up => sidecar = daemon.table
  /\ \A w \in Windows : Answered(w) /\ Remembered(w)

\* A coordinator that is sending goes on with what it sends; one that starts to send
\* stamps the incarnation its window knows.
Stamped(c, d, inc) ==
  IF c.active = "sending" THEN d.active = "sending" /\ d.sending = c.sending
  ELSE d.active = "sending" => d.sending.inc = inc

\* drain()'s loop head stamps what it sends.
LEMMA LoopStamps ==
  ASSUME NEW c \in Coordinator, NEW inc \in Incs, Loop(c, inc).active = "sending"
  PROVE  Loop(c, inc).sending.inc = inc
BY DEF Loop, Coordinator

\* So does start(), which leaves a drain in progress alone.
LEMMA StartStamps ==
  ASSUME NEW c \in Coordinator, NEW inc \in Incs
  PROVE  Stamped(c, start(c, inc), inc)
BY LoopStamps DEF start, Stamped

\* The synchronous segments that may start a drain.
LEMMA EnqueueStamps ==
  ASSUME NEW c \in Coordinator, NEW batch \in Batch, NEW inc \in Incs
  PROVE  Stamped(c, enqueue(c, batch, inc), inc)
<1> DEFINE next == [c EXCEPT !.queued = batch]
           d == IF c.queued # batch /\ c.retryTimer THEN cancelTimer(next) ELSE next
<1>1. d \in Coordinator /\ d.active = c.active /\ d.sending = c.sending
  <2>1. next \in Coordinator /\ next.active = c.active /\ next.sending = c.sending
    BY DEF Coordinator
  <2> HIDE DEF next
  <2>2. /\ cancelTimer(next) \in Coordinator
        /\ cancelTimer(next).active = next.active /\ cancelTimer(next).sending = next.sending
    <3>1. 0 \in 0..BackoffCap
      BY DnsConstants
    <3> QED BY <2>1, <3>1 DEF cancelTimer, Coordinator
  <2> QED BY <2>1, <2>2
<1>2. Stamped(d, startUnlessWaiting(d, inc), inc)
  BY <1>1, StartStamps DEF startUnlessWaiting, Stamped
<1>3. CASE c.disposed \/ c.sending = batch
  BY <1>3 DEF enqueue, Stamped, Coordinator
<1>4. CASE ~(c.disposed \/ c.sending = batch)
  <2>1. enqueue(c, batch, inc) = startUnlessWaiting(d, inc)
    BY <1>4 DEF enqueue
  <2> HIDE DEF d
  <2> QED BY <1>1, <1>2, <2>1 DEF Stamped
<1> QED BY <1>3, <1>4

LEMMA FlushStamps ==
  ASSUME NEW c \in Coordinator, NEW inc \in Incs
  PROVE  Stamped(c, flushPendingNow(c, inc), inc)
<1> DEFINE d == [c EXCEPT !.retryTimer = FALSE]
<1>1. d \in Coordinator /\ d.active = c.active /\ d.sending = c.sending
  BY DEF Coordinator
<1> HIDE DEF d
<1>2. Stamped(d, start(d, inc), inc)
  BY <1>1, StartStamps
<1> QED BY <1>1, <1>2 DEF flushPendingNow, Stamped, d

LEMMA RetryFiresStamps ==
  ASSUME NEW c \in Coordinator, NEW inc \in Incs
  PROVE  Stamped(c, retryFires(c, inc), inc)
<1> DEFINE d == [c EXCEPT !.retryTimer = FALSE]
<1>1. d \in Coordinator /\ d.active = c.active /\ d.sending = c.sending
  BY DEF Coordinator
<1> HIDE DEF d
<1>2. Stamped(d, start(d, inc), inc)
  BY <1>1, StartStamps
<1> QED BY <1>1, <1>2 DEF retryFires, Stamped, d

LEMMA RunDrainFinallyStamps ==
  ASSUME NEW c \in Coordinator, NEW inc \in Incs, c.active = "settling"
  PROVE  Stamped(c, runDrainFinally(c, inc), inc)
<1> DEFINE d == [c EXCEPT !.active = "idle"]
<1>1. d \in Coordinator /\ d.active = "idle"
  BY DEF Coordinator
<1> HIDE DEF d
<1>2. Stamped(d, startUnlessWaiting(d, inc), inc)
  BY <1>1, StartStamps DEF startUnlessWaiting, Stamped
<1> QED BY <1>1, <1>2 DEF runDrainFinally, Stamped, d

\* disposing does not interrupt the send.
LEMMA DisposeStamps ==
  ASSUME NEW c \in Coordinator, NEW inc \in Incs
  PROVE  Stamped(c, dispose(c), inc)
BY DEF dispose, Stamped, Coordinator

\* After a send every further one is stamped anew.
LEMMA RetryOrContinueStamps ==
  ASSUME NEW c \in Coordinator, NEW inc \in Incs, retryOrContinue(c, inc).active = "sending"
  PROVE  retryOrContinue(c, inc).sending.inc = inc
<1>1. [c EXCEPT !.attempt = 0] \in Coordinator
  BY DnsConstants DEF Coordinator
<1>2. CASE c.queued # None /\ c.queued # c.sending
  BY <1>1, <1>2, LoopStamps DEF retryOrContinue
<1>3. CASE ~(c.queued # None /\ c.queued # c.sending)
  BY <1>3 DEF retryOrContinue, retry, Coordinator
<1> QED BY <1>2, <1>3

LEMMA DrainOutcomeStamps ==
  ASSUME NEW c \in Coordinator, NEW outcome \in Outcomes, NEW replacement, NEW inc \in Incs,
         outcome = "replace" => replacement \in Batch,
         drainOutcome(c, outcome, replacement, inc).active = "sending"
  PROVE  drainOutcome(c, outcome, replacement, inc).sending.inc = inc
<1>1. CASE c.disposed
  BY <1>1, LoopStamps DEF drainOutcome
<1>2. CASE ~c.disposed /\ outcome \in {"suspended", "running", "drop"}
  <2>1. [c EXCEPT !.attempt = 0] \in Coordinator
    BY DnsConstants DEF Coordinator
  <2> QED BY <1>2, <2>1, LoopStamps DEF drainOutcome
<1>3. CASE ~c.disposed /\ outcome = "replace"
  <2>1. [c EXCEPT !.queued = replacement] \in Coordinator
    BY <1>3 DEF Coordinator
  <2> QED BY <1>3, <2>1, RetryOrContinueStamps DEF drainOutcome
<1>4. CASE ~c.disposed /\ outcome \notin {"suspended", "running", "drop", "replace"}
  <2> DEFINE d == IF c.queued = None THEN [c EXCEPT !.queued = c.sending] ELSE c
  <2>1. d \in Coordinator
    BY DEF Coordinator
  <2>2. drainOutcome(c, outcome, replacement, inc) = retryOrContinue(d, inc)
    BY <1>4 DEF drainOutcome
  <2> HIDE DEF d
  <2> QED BY <2>1, <2>2, RetryOrContinueStamps
<1> QED BY <1>1, <1>2, <1>3, <1>4

\* The types the fence argument needs.
LEMMA FenceTypes ==
  ASSUME IInv
  PROVE  /\ Rev \in Nat /\ Revs \subseteq Nat /\ Incs \subseteq Nat /\ None \notin Revs
         /\ daemon \in DaemonStates /\ daemon.inc \in Nat /\ sidecar \in Revs \cup {None}
         /\ \A w \in Windows :
              /\ coord[w] \in Coordinator /\ window[w] \in WindowStates /\ wire[w] \in Wires
              /\ window[w].inc \in Incs /\ window[w].lastPush \in Batch \cup {None}
              /\ coord[w].active = "sending" => coord[w].sending \in Batch
<1>1. Rev \in Nat /\ Revs \subseteq Nat /\ Incs \subseteq Nat /\ None \notin Revs
  BY SyncConstants, DnsConstants DEF IInv, TypeOK, Rev
<1>2. daemon \in DaemonStates /\ daemon.inc \in Nat /\ sidecar \in Revs \cup {None}
  BY <1>1 DEF IInv, TypeOK, DaemonStates
<1>3. ASSUME NEW w \in Windows
      PROVE  /\ coord[w] \in Coordinator /\ window[w] \in WindowStates /\ wire[w] \in Wires
             /\ window[w].inc \in Incs /\ window[w].lastPush \in Batch \cup {None}
             /\ coord[w].active = "sending" => coord[w].sending \in Batch
  <2>1. coord[w] \in Coordinator /\ window[w] \in WindowStates /\ wire[w] \in Wires
    BY DEF IInv, TypeOK
  <2>2. window[w].inc \in Incs /\ window[w].lastPush \in Batch \cup {None}
    BY <2>1 DEF WindowStates
  <2>3. coord[w].active = "sending" => coord[w].sending \in Batch
    BY <2>1 DEF Coordinator, IInv, NoStrandedBatch, NotStranded
  <2> QED BY <2>1, <2>2, <2>3
<1> QED BY <1>1, <1>2, <1>3

\* What a window asks for is what its coordinator sends.
LEMMA CallCarries ==
  ASSUME NEW rev
  PROVE  LET x == syncBrowserDnsCall(rev)
         IN  /\ x.state \in {"request", "suspended"}
             /\ x.state = "request" => x.rev = rev
BY DEF syncBrowserDnsCall, Suspended, Request

\* A window whose coordinator takes a synchronous segment keeps its push answered for.
LEMMA CoordinateAnswers ==
  ASSUME IInv, FenceInv, NEW w \in Windows, NEW c, NEW inc \in Incs, inc <= daemon.inc,
         Stamped(coord[w], c, inc), Coordinate(w, c), UNCHANGED daemon
  PROVE  \A v \in Windows : Answered(v)'
<1> SUFFICES ASSUME NEW v \in Windows PROVE Answered(v)'
  OBVIOUS
<1>1. coord' = [coord EXCEPT ![w] = c] /\ coord \in [Windows -> Coordinator] /\ wire \in [Windows -> Wires]
  BY DEF Coordinate, IInv, TypeOK
<1>2. Answered(v)
  BY DEF FenceInv
<1>3. CASE v # w
  <2>1. coord'[v] = coord[v] /\ wire'[v] = wire[v]
    BY <1>1, <1>3 DEF Coordinate
  <2> QED BY <1>2, <2>1 DEF Answered, Serves
<1>4. CASE v = w /\ coord[w].active = "sending"
  <2>1. coord'[w] = c /\ wire'[w] = wire[w]
    BY <1>1, <1>4 DEF Coordinate
  <2>2. c.active = "sending" /\ c.sending = coord[w].sending
    BY <1>4 DEF Stamped
  <2> QED BY <1>2, <1>4, <2>1, <2>2 DEF Answered, Serves
<1>5. CASE v = w /\ coord[w].active # "sending"
  <2>1. coord'[w] = c
    BY <1>1
  <2>2. CASE c.active = "sending"
    <3>1. wire'[w] = syncBrowserDnsCall(c.sending.rev) /\ c.sending.inc = inc
      BY <1>1, <1>5, <2>2 DEF Coordinate, Stamped
    <3> QED BY <1>5, <2>1, <3>1, CallCarries DEF Answered
  <2>3. CASE c.active # "sending"
    <3>1. wire'[w] = wire[w] /\ wire[w].state = "none"
      BY <1>1, <1>5, <2>3 DEF Coordinate, IInv, CallsAwaited
    <3> QED BY <1>5, <2>1, <2>3, <3>1 DEF Answered
  <2> QED BY <2>2, <2>3
<1> QED BY <1>3, <1>4, <1>5

\* The same when the outstanding RPC has ended.
LEMMA CoordinateNextAnswers ==
  ASSUME IInv, FenceInv, NEW w \in Windows, NEW c, NEW inc \in Incs, inc <= daemon.inc,
         c.active = "sending" => c.sending.inc = inc, CoordinateNext(w, c), UNCHANGED daemon
  PROVE  \A v \in Windows : Answered(v)'
<1> SUFFICES ASSUME NEW v \in Windows PROVE Answered(v)'
  OBVIOUS
<1>1. coord' = [coord EXCEPT ![w] = c] /\ coord \in [Windows -> Coordinator] /\ wire \in [Windows -> Wires]
  BY DEF CoordinateNext, IInv, TypeOK
<1>2. CASE v # w
  <2>1. coord'[v] = coord[v] /\ wire'[v] = wire[v]
    BY <1>1, <1>2 DEF CoordinateNext
  <2> QED BY <2>1 DEF FenceInv, Answered, Serves
<1>3. CASE v = w
  <2>1. coord'[w] = c
    BY <1>1
  <2>2. CASE c.active = "sending"
    <3>1. wire'[w] = syncBrowserDnsCall(c.sending.rev)
      BY <1>1, <2>2 DEF CoordinateNext
    <3> QED BY <1>3, <2>1, <2>2, <3>1, CallCarries DEF Answered
  <2>3. CASE c.active # "sending"
    <3>1. wire'[w].state = "none"
      BY <1>1, <2>3 DEF CoordinateNext, NoCall
    <3> QED BY <1>3, <2>1, <2>3, <3>1 DEF Answered
  <2> QED BY <2>2, <2>3
<1> QED BY <1>2, <1>3

\* The daemon's handling of one push: a table is replaced by that of the current
\* document or not at all, and what was served stays served.
LEMMA SyncServes ==
  ASSUME IInv, FenceInv, NEW rev \in Revs, NEW applied \in BOOLEAN, NEW running \in BOOLEAN,
         SyncBrowserDns(rev, applied, running), UNCHANGED docs
  PROVE  /\ daemon'.inc = daemon.inc /\ daemon.up /\ daemon'.up
         /\ TableIsSaved(daemon.table)' /\ sidecar' = daemon'.table
         /\ \A r \in Revs : Serves(r) => Serves(r)'
         /\ applied => Serves(rev)'
<1>1. daemon.up /\ sidecar = daemon.table
  BY DEF SyncBrowserDns, FenceInv
<1>2. CASE UNCHANGED <<daemon, sidecar>> /\ ~applied
  BY <1>1, <1>2 DEF FenceInv, TableIsSaved, Serves, Rev
<1>3. CASE FenceAccepts(rev) /\ sidecar' = rev /\ daemon' = [daemon EXCEPT !.table = rev, !.running = running]
  <2>1. daemon'.table = rev /\ daemon'.inc = daemon.inc /\ daemon'.up = daemon.up
    BY <1>3, FenceTypes DEF DaemonStates
  <2>2. Rev' = Rev /\ Rev \in Nat /\ rev \in Nat /\ rev # None /\ daemon.table \in Revs \cup {None}
    BY FenceTypes DEF Rev, DaemonStates
  <2>3. rev \in 0..Rev
    BY <1>3, <2>2 DEF FenceAccepts
  <2>4. daemon.table # None => daemon.table <= rev
    BY <1>3, <2>2, FenceTypes DEF FenceAccepts, browserDnsRevision, FenceInv, TableIsSaved
  <2>5. ASSUME NEW r \in Revs, Serves(r) PROVE Serves(r)'
    <3>1. r \in Nat /\ daemon.table \in Nat /\ daemon.table >= r /\ daemon.table <= rev
      BY <2>2, <2>4, <2>5, FenceTypes DEF Serves
    <3> QED BY <2>1, <2>2, <3>1 DEF Serves
  <2> QED BY <1>1, <1>3, <2>1, <2>2, <2>3, <2>5 DEF TableIsSaved, Serves
<1> QED BY <1>2, <1>3 DEF SyncBrowserDns

\* A step that leaves the daemon alone, lets the documents only grow, and after which a
\* window knows what it knew before, or less.
LEMMA FenceBesideDaemon ==
  ASSUME IInv, FenceInv, UNCHANGED <<daemon, sidecar>>, Rev' \in Nat, Rev' >= Rev,
         \A v \in Windows : Answered(v)',
         \A v \in Windows : /\ window'[v].inc = window[v].inc
                            /\ window'[v].lastPush \in {window[v].lastPush, None}
  PROVE  FenceInv'
<1>1. TableIsSaved(daemon.table)' /\ TableIsSaved(sidecar)'
  BY FenceTypes DEF FenceInv, TableIsSaved
<1>2. \A v \in Windows : Remembered(v)'
  BY DEF FenceInv, Remembered, Serves
<1> QED BY <1>1, <1>2 DEF FenceInv

\* The revision is that of the document.
LEMMA RevisionKept ==
  ASSUME IInv, UNCHANGED docs
  PROVE  Rev' = Rev /\ Rev' \in Nat /\ Rev' >= Rev
<1>1. Rev' = Rev
  BY DEF Rev
<1>2. Rev \in Nat
  BY FenceTypes
<1> QED BY <1>1, <1>2

\* A step of the daemon that ends or begins an incarnation, or only its responder.
LEMMA FenceBesideWindows ==
  ASSUME IInv, FenceInv, UNCHANGED <<docs, coord, window, wire>>,
         daemon'.inc \in Nat,
         \/ daemon'.inc = daemon.inc /\ (daemon'.up => daemon.up /\ daemon'.table = daemon.table)
         \/ daemon'.inc = daemon.inc + 1,
         daemon'.up => sidecar' = daemon'.table,
         TableIsSaved(daemon.table)' /\ TableIsSaved(sidecar)'
  PROVE  FenceInv'
<1>1. ASSUME NEW v \in Windows PROVE Answered(v)' /\ Remembered(v)'
  <2>1. /\ coord'[v] = coord[v] /\ window'[v] = window[v] /\ wire'[v] = wire[v]
        /\ Answered(v) /\ Remembered(v)
    BY DEF FenceInv
  <2>2. /\ daemon.inc \in Nat /\ window[v].inc \in Nat
        /\ window[v].lastPush # None => window[v].lastPush.inc \in Nat
        /\ coord[v].active = "sending" => coord[v].sending.inc \in Nat
    BY FenceTypes DEF Batch
  <2>3. wire[v].state # "none" => coord[v].active = "sending"
    BY DEF IInv, CallsAwaited
  <2>4. ASSUME NEW i \in Nat, i <= daemon.inc
        PROVE  /\ i <= daemon'.inc
               /\ daemon'.up /\ i = daemon'.inc => daemon.up /\ i = daemon.inc /\ daemon'.table = daemon.table
    BY <2>2, <2>4
  <2>5. Answered(v)'
    <3>1. CASE coord[v].active = "sending"
      <4>1. coord[v].sending.inc \in Nat /\ coord[v].sending.inc <= daemon.inc
        BY <2>1, <2>2, <3>1 DEF Answered
      <4> QED BY <2>1, <2>4, <4>1 DEF Answered, Serves
    <3>2. CASE coord[v].active # "sending"
      BY <2>1, <2>3, <3>2 DEF Answered
    <3> QED BY <3>1, <3>2
  <2>6. Remembered(v)'
    <3>1. window'[v].inc <= daemon'.inc
      BY <2>1, <2>2, <2>4 DEF Remembered
    <3>2. CASE window[v].lastPush = None
      BY <2>1, <3>1, <3>2 DEF Remembered
    <3>3. CASE window[v].lastPush # None
      <4>1. window[v].lastPush.inc \in Nat /\ window[v].lastPush.inc <= daemon.inc
        BY <2>1, <2>2, <3>3 DEF Remembered
      <4> QED BY <2>1, <2>4, <3>1, <3>3, <4>1 DEF Remembered, Serves
    <3> QED BY <3>2, <3>3
  <2> QED BY <2>5, <2>6
<1> QED BY <1>1 DEF FenceInv

\* Every step preserves what the fence keeps true.
LEMMA FenceNext == IInv /\ FenceInv /\ [Next]_vars => FenceInv'
<1> SUFFICES ASSUME IInv, FenceInv, [Next]_vars PROVE FenceInv'
  OBVIOUS
<1>0. /\ Rev \in Nat
      /\ \A w \in Windows : /\ coord[w] \in Coordinator /\ window[w].inc \in Incs
                            /\ window[w].inc <= daemon.inc
                            /\ [rev |-> Rev, inc |-> window[w].inc] \in Batch
  <2>1. Rev \in Revs
    BY SyncConstants DEF IInv, TypeOK, Rev
  <2> QED BY <2>1, FenceTypes DEF FenceInv, Remembered, Batch
<1>1. ASSUME NEW w \in Windows, NEW rev \in Revs, syncBrowserDnsRecords(w, window[w], rev), UNCHANGED daemon
      PROVE  \A v \in Windows : Answered(v)'
  <2> DEFINE batch == [rev |-> rev, inc |-> window[w].inc]
             c == IF AlreadyPushed(window[w], rev) THEN coord[w]
                  ELSE enqueue(coord[w], batch, window[w].inc)
  <2>1. batch \in Batch
    BY <1>0 DEF Batch
  <2>2. Stamped(coord[w], coord[w], window[w].inc)
    BY DEF Stamped
  <2>3. Stamped(coord[w], c, window[w].inc)
    BY <1>0, <2>1, <2>2, EnqueueStamps
  <2>4. Coordinate(w, c)
    BY <1>1 DEF syncBrowserDnsRecords
  <2> HIDE DEF c
  <2> QED BY <1>0, <1>1, <2>3, <2>4, CoordinateAnswers
<1>2. ASSUME NEW w \in Windows, NEW table \in Records, SaveState(w, table)
      PROVE  FenceInv'
  <2>1. Rev' = Rev + 1 /\ Rev + 1 \in Revs
    BY <1>2, SyncConstants DEF SaveState, IInv, TypeOK, Rev
  <2>2. \A v \in Windows : Answered(v)'
    BY <1>1, <1>2, <2>1 DEF SaveState
  <2>3. \A v \in Windows : window'[v].inc = window[v].inc /\ window'[v].lastPush = window[v].lastPush
    BY <1>2, FenceTypes DEF SaveState, WindowStates
  <2>4. UNCHANGED <<daemon, sidecar>> /\ Rev' \in Nat /\ Rev' >= Rev
    BY <1>0, <1>2, <2>1 DEF SaveState
  <2> QED BY <2>2, <2>3, <2>4, FenceBesideDaemon
<1>3. ASSUME NEW w \in Windows, ReloadSharedNetworkState(w)
      PROVE  FenceInv'
  <2>1. Rev' = Rev /\ Rev \in Revs /\ UNCHANGED <<daemon, sidecar>>
    BY <1>0, <1>3 DEF ReloadSharedNetworkState, Rev, Batch
  <2>2. CASE UNCHANGED <<coord, wire>>
    <3>1. \A v \in Windows : Answered(v)'
      BY <2>1, <2>2 DEF FenceInv, Answered, Serves
    <3>2. \A v \in Windows : window'[v].inc = window[v].inc /\ window'[v].lastPush = window[v].lastPush
      BY <1>3, FenceTypes DEF ReloadSharedNetworkState, IInv, TypeOK, WindowStates
    <3> QED BY <1>0, <2>1, <3>1, <3>2, FenceBesideDaemon
  <2>3. CASE syncBrowserDnsRecords(w, window[w], Rev)
    <3>1. \A v \in Windows : Answered(v)'
      BY <1>1, <2>1, <2>3
    <3>2. \A v \in Windows : window'[v].inc = window[v].inc /\ window'[v].lastPush = window[v].lastPush
      BY <1>3, FenceTypes DEF ReloadSharedNetworkState, IInv, TypeOK, WindowStates
    <3> QED BY <1>0, <2>1, <3>1, <3>2, FenceBesideDaemon
  <2> QED BY <1>3, <2>2, <2>3 DEF ReloadSharedNetworkState
<1>4. ASSUME NEW w \in Windows, ApplySnapshot(w)
      PROVE  FenceInv'
  <2>1. \A v \in Windows : Answered(v)'
    BY <1>4 DEF ApplySnapshot, FenceInv, Answered, Serves
  <2>2. \A v \in Windows : Remembered(v)'
    <3> SUFFICES ASSUME NEW v \in Windows PROVE Remembered(v)'
      OBVIOUS
    <3>1. window'[v].lastPush = window[v].lastPush /\ window'[v].inc \in {window[v].inc, daemon.inc}
      BY <1>4, FenceTypes DEF ApplySnapshot, IInv, TypeOK, WindowStates
    <3> QED BY <1>4, <3>1, FenceTypes DEF ApplySnapshot, FenceInv, Remembered, Serves
  <2> QED BY <1>4, <2>1, <2>2 DEF ApplySnapshot, FenceInv, TableIsSaved, Rev
<1>5. ASSUME NEW w \in Windows, ProcessServiceChanged(w)
      PROVE  FenceInv'
  <2>1. Rev' = Rev /\ Rev \in Revs /\ UNCHANGED <<daemon, sidecar>>
    BY <1>0, <1>5 DEF ProcessServiceChanged, Rev, Batch
  <2>2. \A v \in Windows : Answered(v)'
    BY <1>1, <1>5, <2>1 DEF ProcessServiceChanged
  <2>3. \A v \in Windows : window'[v].inc = window[v].inc /\ window'[v].lastPush = window[v].lastPush
    BY <1>5, FenceTypes DEF ProcessServiceChanged, IInv, TypeOK, WindowStates
  <2> QED BY <1>0, <2>1, <2>2, <2>3, FenceBesideDaemon
<1>6. ASSUME NEW w \in Windows, FlushBrowserDnsDaemonSync(w)
      PROVE  FenceInv'
  <2> DEFINE inc == window[w].inc
             e == enqueue(coord[w], [rev |-> Rev, inc |-> inc], inc)
             f == flushPendingNow(e, inc)
  <2>1. Stamped(coord[w], e, inc)
    BY <1>0, EnqueueStamps
  <2>2. e \in Coordinator
    BY <1>0, EnqueueOK DEF CoordOK, IInv, NoStrandedBatch
  <2>3. Stamped(e, f, inc)
    BY <1>0, <2>2, FlushStamps
  <2>4. Stamped(coord[w], f, inc)
    BY <2>1, <2>3 DEF Stamped
  <2>5. Coordinate(w, f) /\ UNCHANGED <<daemon, sidecar>> /\ Rev' = Rev
    BY <1>6 DEF FlushBrowserDnsDaemonSync, Rev
  <2> HIDE DEF f
  <2>6. \A v \in Windows : Answered(v)'
    BY <1>0, <2>4, <2>5, CoordinateAnswers
  <2>7. \A v \in Windows : window'[v].inc = window[v].inc /\ window'[v].lastPush \in {window[v].lastPush, None}
    BY <1>6, FenceTypes DEF FlushBrowserDnsDaemonSync, IInv, TypeOK, WindowStates
  <2> QED BY <1>0, <2>5, <2>6, <2>7, FenceBesideDaemon
<1>7. ASSUME NEW w \in Windows, NEW c, Coordinate(w, c), Stamped(coord[w], c, window[w].inc),
             UNCHANGED <<docs, window, daemon, sidecar>>
      PROVE  FenceInv'
  <2>1. \A v \in Windows : Answered(v)'
    BY <1>0, <1>7, CoordinateAnswers
  <2>2. Rev' \in Nat /\ Rev' >= Rev
    BY <1>7, RevisionKept
  <2> QED BY <1>0, <1>7, <2>1, <2>2, FenceBesideDaemon
<1>8. ASSUME NEW w \in Windows, RetryTimerFires(w)
      PROVE  FenceInv'
  BY <1>0, <1>7, <1>8, RetryFiresStamps DEF RetryTimerFires
<1>9. ASSUME NEW w \in Windows, DrainSettles(w)
      PROVE  FenceInv'
  BY <1>0, <1>7, <1>9, RunDrainFinallyStamps DEF DrainSettles
<1>10. ASSUME NEW w \in Windows, Dispose(w)
       PROVE  FenceInv'
  BY <1>0, <1>7, <1>10, DisposeStamps DEF Dispose
<1>11. ASSUME NEW w \in Windows, ReplyArrives(w)
       PROVE  FenceInv'
  <2> DEFINE batch == coord[w].sending
             win == IF Open(w) THEN ObserveResult(window[w], batch, wire[w]) ELSE window[w]
             out == outcomeOf(win, batch, wire[w])
             d == drainOutcome(coord[w], out, [rev |-> Rev, inc |-> win.inc], win.inc)
  <2>1. /\ window' = [window EXCEPT ![w] = win] /\ CoordinateNext(w, d)
        /\ wire[w].state = "reply" /\ UNCHANGED <<docs, daemon, sidecar>>
    BY <1>11 DEF ReplyArrives
  <2>2. /\ window[w] \in WindowStates /\ coord[w].active = "sending" /\ batch \in Batch
        /\ batch.inc <= daemon.inc /\ wire[w].rev = batch.rev /\ batch # None
    <3>1. coord[w].active = "sending"
      BY <2>1 DEF IInv, CallsAwaited
    <3>2. window[w] \in WindowStates /\ batch \in Batch
      BY <3>1, FenceTypes
    <3>3. batch.inc <= daemon.inc /\ wire[w].rev = batch.rev
      BY <2>1, <3>1 DEF FenceInv, Answered
    <3> QED BY <3>1, <3>2, <3>3, DnsConstants DEF Batch
  <2>3. /\ win.inc = window[w].inc
        /\ \/ win.lastPush = window[w].lastPush
           \/ win.lastPush = batch /\ wire[w].applied
    BY <2>2 DEF ObserveResult, WindowStates
  <2> HIDE DEF win
  <2>4. d.active = "sending" => d.sending.inc = win.inc
    <3>1. out \in Outcomes
      BY DEF outcomeOf, resolveRejected, Outcomes
    <3> DEFINE next == [rev |-> Rev, inc |-> win.inc]
    <3>2. coord[w] \in Coordinator /\ win.inc \in Incs /\ next \in Batch
      BY <1>0, <2>3
    <3> HIDE DEF out, next
    <3> QED BY <3>1, <3>2, DrainOutcomeStamps DEF next
  <2> HIDE DEF d
  <2>5. \A v \in Windows : Answered(v)'
    BY <1>0, <2>1, <2>3, <2>4, CoordinateNextAnswers
  <2>6. \A v \in Windows : Remembered(v)'
    <3> SUFFICES ASSUME NEW v \in Windows PROVE Remembered(v)'
      OBVIOUS
    <3>1. CASE v # w
      <4>1. window'[v] = window[v]
        BY <2>1, <3>1 DEF IInv, TypeOK
      <4> QED BY <2>1, <4>1 DEF FenceInv, Remembered, Serves
    <3>2. CASE v = w
      <4>1. window'[v] = win
        BY <2>1, <3>2 DEF IInv, TypeOK
      <4>2. CASE win.lastPush = window[w].lastPush
        BY <2>1, <2>3, <3>2, <4>1, <4>2 DEF FenceInv, Remembered, Serves
      <4>3. CASE win.lastPush = batch /\ wire[w].applied
        <5>1. /\ daemon.up /\ batch.inc = daemon.inc => Serves(batch.rev)
              /\ window[w].inc <= daemon.inc
          BY <2>1, <2>2, <4>3 DEF FenceInv, Remembered, Answered
        <5>2. window'[v].lastPush = batch /\ window'[v].inc = window[w].inc
          BY <2>3, <4>1, <4>3
        <5>3. UNCHANGED daemon
          BY <2>1
        <5> QED BY <2>2, <5>1, <5>2, <5>3 DEF Remembered, Serves
      <4> QED BY <2>3, <4>2, <4>3
    <3> QED BY <3>1, <3>2
  <2> QED BY <2>1, <2>5, <2>6 DEF FenceInv, TableIsSaved, Rev
<1>12. ASSUME NEW w \in Windows, SuspendedReplyArrives(w)
       PROVE  FenceInv'
  <2> DEFINE d == drainOutcome(coord[w], "suspended", None, window[w].inc)
  <2>1. CoordinateNext(w, d) /\ UNCHANGED <<docs, window, daemon, sidecar>>
    BY <1>12 DEF SuspendedReplyArrives
  <2>2. d.active = "sending" => d.sending.inc = window[w].inc
    <3>1. coord[w] \in Coordinator /\ window[w].inc \in Incs /\ "suspended" \in Outcomes
      BY <1>0 DEF Outcomes
    <3> QED BY <3>1, DrainOutcomeStamps
  <2> HIDE DEF d
  <2>3. \A v \in Windows : Answered(v)'
    BY <1>0, <2>1, <2>2, CoordinateNextAnswers
  <2>4. Rev' \in Nat /\ Rev' >= Rev
    BY <2>1, RevisionKept
  <2> QED BY <1>0, <2>1, <2>3, <2>4, FenceBesideDaemon
<1>13. ASSUME NEW w \in Windows, SendThrows(w)
       PROVE  FenceInv'
  <2> DEFINE d == drainOutcome(coord[w], "error", None, window[w].inc)
  <2>1. CoordinateNext(w, d) /\ UNCHANGED <<docs, daemon, sidecar>>
    BY <1>13 DEF SendThrows
  <2>2. d.active = "sending" => d.sending.inc = window[w].inc
    <3>1. coord[w] \in Coordinator /\ window[w].inc \in Incs /\ "error" \in Outcomes
      BY <1>0 DEF Outcomes
    <3> QED BY <3>1, DrainOutcomeStamps
  <2> HIDE DEF d
  <2>3. \A v \in Windows : Answered(v)'
    BY <1>0, <2>1, <2>2, CoordinateNextAnswers
  <2>4. \A v \in Windows : window'[v].inc = window[v].inc /\ window'[v].lastPush \in {window[v].lastPush, None}
    BY <1>13, FenceTypes DEF SendThrows, IInv, TypeOK, WindowStates
  <2>5. Rev' \in Nat /\ Rev' >= Rev
    BY <2>1, RevisionKept
  <2> QED BY <2>1, <2>3, <2>4, <2>5, FenceBesideDaemon
<1>14. ASSUME NEW rev \in Revs, NEW applied \in BOOLEAN, NEW running \in BOOLEAN,
              SyncBrowserDns(rev, applied, running), UNCHANGED <<docs, coord, window>>,
              \A v \in Windows : wire'[v] = wire[v] \/
                (wire[v].state = "request" /\ wire[v].rev = rev /\ wire'[v] = Reply(rev, applied, running))
       PROVE  FenceInv'
  <2>1. /\ daemon'.inc = daemon.inc /\ daemon.up /\ daemon'.up
        /\ TableIsSaved(daemon.table)' /\ sidecar' = daemon'.table
        /\ \A r \in Revs : Serves(r) => Serves(r)'
        /\ applied => Serves(rev)'
    BY <1>14, SyncServes
  <2>2. \A v \in Windows : Remembered(v)'
    <3> SUFFICES ASSUME NEW v \in Windows PROVE Remembered(v)'
      OBVIOUS
    <3>1. window'[v] = window[v] /\ Remembered(v) /\ (window[v].lastPush # None => window[v].lastPush.rev \in Revs)
      BY <1>14, FenceTypes DEF FenceInv, Batch
    <3> QED BY <2>1, <3>1 DEF Remembered
  <2>3. \A v \in Windows : Answered(v)'
    <3> SUFFICES ASSUME NEW v \in Windows PROVE Answered(v)'
      OBVIOUS
    <3>1. coord'[v] = coord[v] /\ Answered(v)
      BY <1>14 DEF FenceInv
    <3>2. CASE wire'[v] = wire[v]
      <4>1. wire[v].state = "reply" => wire[v].rev \in Revs
        BY FenceTypes, WireRev
      <4> QED BY <2>1, <3>1, <3>2, <4>1 DEF Answered
    <3>3. CASE wire[v].state = "request" /\ wire[v].rev = rev /\ wire'[v] = Reply(rev, applied, running)
      <4>1. /\ wire'[v].state = "reply" /\ wire'[v].rev = rev /\ wire'[v].applied = applied
        <5>1. wire'[v] = Reply(rev, applied, running)
          BY <3>3
        <5> QED BY ONLY <5>1 DEF Reply
      <4>2. coord'[v].active = "sending" => coord'[v].sending.inc <= daemon'.inc
        BY <2>1, <3>1 DEF Answered
      <4>3. wire'[v].rev = coord'[v].sending.rev
        BY <3>1, <3>3, <4>1 DEF Answered
      <4>4. wire'[v].applied => Serves(rev)'
        BY <2>1, <4>1
      <4> QED BY <4>1, <4>2, <4>3, <4>4 DEF Answered, Serves
    <3> QED BY <1>14, <3>2, <3>3
  <2> QED BY <2>1, <2>2, <2>3 DEF FenceInv, TableIsSaved
<1>15. ASSUME NEW w \in Windows, DaemonHandlesRequest(w)
       PROVE  FenceInv'
  <2>1. PICK applied \in BOOLEAN, running \in BOOLEAN :
          /\ SyncBrowserDns(wire[w].rev, applied, running)
          /\ wire' = [wire EXCEPT ![w] = Reply(wire[w].rev, applied, running)]
    BY <1>15 DEF DaemonHandlesRequest
  <2>2. wire[w].rev \in Revs /\ wire[w].state = "request" /\ wire \in [Windows -> Wires]
    <3>1. wire[w].state = "request" /\ wire \in [Windows -> Wires]
      BY <1>15 DEF DaemonHandlesRequest, IInv, TypeOK
    <3> QED BY <3>1, WireRev
  <2>3. \A v \in Windows : wire'[v] = wire[v] \/
          (wire[v].state = "request" /\ wire[v].rev = wire[w].rev
             /\ wire'[v] = Reply(wire[w].rev, applied, running))
    BY <2>1, <2>2
  <2> QED BY <1>14, <1>15, <2>1, <2>2, <2>3 DEF DaemonHandlesRequest
<1>16. ASSUME NEW rev \in Revs, DaemonHandlesStray(rev)
       PROVE  FenceInv'
  BY <1>14, <1>16 DEF DaemonHandlesStray
<1>17. CASE ResponderCloses
  <2>1. daemon'.inc = daemon.inc /\ daemon'.table = daemon.table /\ daemon'.up = daemon.up /\ daemon.up
    BY <1>17, FenceTypes DEF ResponderCloses, DaemonStates
  <2> QED BY <1>17, <2>1, FenceTypes, FenceBesideWindows DEF ResponderCloses, FenceInv, TableIsSaved, Rev
<1>18. CASE DaemonCrashes
  <2>1. daemon'.inc = daemon.inc /\ daemon'.table = None /\ ~daemon'.up
    BY <1>18, FenceTypes DEF DaemonCrashes, DaemonStates
  <2>2. ASSUME NEW v \in Windows, wire[v].state = "request", FenceAccepts(wire[v].rev)
        PROVE  wire[v].rev \in 0..Rev
    <3>1. wire[v].rev \in Revs
      BY <2>2, FenceTypes, WireRev
    <3> QED BY <1>0, <2>2, <3>1, FenceTypes DEF FenceAccepts
  <2>3. TableIsSaved(sidecar)' /\ TableIsSaved(daemon.table)'
    BY <1>18, <2>1, <2>2 DEF DaemonCrashes, FenceInv, TableIsSaved, Rev
  <2> QED BY <1>18, <2>1, <2>3, FenceTypes, FenceBesideWindows DEF DaemonCrashes
<1>19. CASE DaemonStarts
  <2>1. daemon'.inc = daemon.inc + 1 /\ daemon'.table = sidecar /\ sidecar' = sidecar
    BY <1>19 DEF DaemonStarts
  <2>2. TableIsSaved(sidecar)' /\ TableIsSaved(daemon.table)'
    BY <1>19, <2>1 DEF DaemonStarts, FenceInv, TableIsSaved, Rev
  <2>3. daemon'.inc \in Nat
    BY <2>1, FenceTypes
  <2>4. UNCHANGED <<docs, coord, window, wire>>
    BY <1>19 DEF DaemonStarts
  <2> QED BY <2>1, <2>2, <2>3, <2>4, FenceBesideWindows
<1>20. CASE StopDaemon
  <2>1. daemon'.inc = daemon.inc /\ daemon'.table = None /\ ~daemon'.up
    BY <1>20, FenceTypes DEF StopDaemon, DaemonStates
  <2>2. TableIsSaved(sidecar)' /\ TableIsSaved(daemon.table)'
    BY <1>20, <2>1 DEF StopDaemon, FenceInv, TableIsSaved, Rev
  <2> QED BY <1>20, <2>1, <2>2, FenceTypes, FenceBesideWindows DEF StopDaemon
<1>21. CASE UNCHANGED <<docs, coord, window, wire, daemon, sidecar>>
  BY <1>21 DEF FenceInv, TableIsSaved, Rev, Answered, Remembered, Serves
<1> QED
  BY <1>2, <1>3, <1>4, <1>5, <1>6, <1>8, <1>9, <1>10, <1>11, <1>12, <1>13, <1>15, <1>16, <1>17, <1>18,
     <1>19, <1>20, <1>21
  DEF Next, WindowStep, UserStep, DaemonStep, ConnectionLost, RequestTimesOut, ResumeDaemon, vars

\* No table has been accepted to begin with, and no window remembers a push.
LEMMA FenceInit == Init => FenceInv
<1> SUFFICES ASSUME Init PROVE FenceInv
  OBVIOUS
<1>1. /\ daemon = [inc |-> 1, up |-> TRUE, table |-> None, running |-> FALSE] /\ sidecar = None
      /\ wire = [w \in Windows |-> NoCall]
      /\ \A w \in Windows : coord[w].active = "idle" /\ window[w].inc = 1 /\ window[w].lastPush = None
  BY DEF Init, NewCoordinator
<1>2. TableIsSaved(daemon.table) /\ TableIsSaved(sidecar) /\ (daemon.up => sidecar = daemon.table)
  BY <1>1 DEF TableIsSaved
<1>3. ASSUME NEW w \in Windows PROVE Answered(w) /\ Remembered(w)
  <2>1. coord[w].active = "idle" /\ wire[w].state = "none"
    BY <1>1 DEF NoCall
  <2>2. window[w].inc <= daemon.inc /\ window[w].lastPush = None
    BY <1>1
  <2> QED BY <2>1, <2>2 DEF Answered, Remembered
<1> QED BY <1>2, <1>3 DEF FenceInv

\* The types hold, and a window that believes the running daemon has the current
\* document's table, and so skips the push (queueBrowserDnsDaemonSync), is right:
\* for any windows, documents and faults.
THEOREM PushesAnswered == Spec => []PushesAreAnswered
<1>1. IInv /\ FenceInv => PushesAreAnswered
  <2> SUFFICES ASSUME IInv, FenceInv PROVE PushesAreAnswered
    OBVIOUS
  <2>1. ASSUME NEW w \in Windows, window[w].lastPush = [rev |-> Rev, inc |-> daemon.inc], daemon.up
        PROVE  daemon.table = Rev
    <3>1. window[w].lastPush # None
      BY <2>1, SyncConstants, DnsConstants DEF IInv, TypeOK, DaemonStates, Rev
    <3>2. daemon.table # None /\ daemon.table >= Rev /\ daemon.table \in 0..Rev
      <4>1. window[w].lastPush.inc = daemon.inc /\ window[w].lastPush.rev = Rev
        BY <2>1
      <4>2. Remembered(w) /\ TableIsSaved(daemon.table)
        BY DEF FenceInv
      <4>3. Serves(Rev)
        BY <2>1, <3>1, <4>1, <4>2 DEF Remembered
      <4> QED BY <4>2, <4>3 DEF Serves, TableIsSaved
    <3> QED BY <3>2, FenceTypes
  <2> QED BY <2>1 DEF PushesAreAnswered, SkippedPushIsServed, IInv
<1> QED BY <1>1, FenceInit, FenceNext, InitIInv, NextIInv, PTL DEF Spec

\* The revision fence, as a property of every step: the accepted table never goes back
\* to an older document, whatever pushes, stray requests, crashes and restarts happen.
THEOREM NeverRegresses == Spec => TableNeverRegresses
<1> DEFINE A == AcceptedTable # None => AcceptedTable' # None /\ AcceptedTable' >= AcceptedTable
<1>1. IInv /\ FenceInv /\ [Next]_vars => A
  <2> SUFFICES ASSUME IInv, FenceInv, [Next]_vars PROVE A
    OBVIOUS
  <2>0. /\ AcceptedTable # None => AcceptedTable \in 0..Rev
        /\ AcceptedTable = sidecar /\ Rev \in Nat
    BY FenceTypes DEF AcceptedTable, FenceInv, TableIsSaved
  <2>1. CASE UNCHANGED <<daemon, sidecar>>
    BY <2>0, <2>1 DEF AcceptedTable
  <2>2. ASSUME NEW rev \in Revs, NEW applied \in BOOLEAN, NEW running \in BOOLEAN,
               SyncBrowserDns(rev, applied, running), UNCHANGED docs
        PROVE  A
    <3>1. daemon.up /\ daemon'.up /\ (\A r \in Revs : Serves(r) => Serves(r)')
      BY <2>2, SyncServes
    <3>2. daemon.table # None => daemon.table \in Revs /\ daemon.table \in Nat
      BY FenceTypes DEF DaemonStates
    <3> QED BY <3>1, <3>2 DEF AcceptedTable, Serves
  <2>3. ASSUME NEW w \in Windows, DaemonHandlesRequest(w) PROVE A
    <3>1. wire[w].rev \in Revs
      BY <2>3, FenceTypes, WireRev DEF DaemonHandlesRequest
    <3> QED BY <2>2, <2>3, <3>1 DEF DaemonHandlesRequest
  <2>4. ASSUME NEW rev \in Revs, DaemonHandlesStray(rev) PROVE A
    BY <2>2, <2>4 DEF DaemonHandlesStray
  <2>5. CASE ResponderCloses
    <3>1. daemon'.table = daemon.table /\ daemon'.up = daemon.up /\ sidecar' = sidecar
      BY <2>5, FenceTypes DEF ResponderCloses, DaemonStates
    <3> QED BY <2>0, <3>1 DEF AcceptedTable
  <2>6. CASE DaemonCrashes
    <3>1. ~daemon'.up /\ daemon.up
      BY <2>6, FenceTypes DEF DaemonCrashes, DaemonStates
    <3>2. ASSUME NEW v \in Windows, wire[v].state = "request", FenceAccepts(wire[v].rev), sidecar # None
          PROVE  wire[v].rev # None /\ wire[v].rev >= sidecar
      <4>1. wire[v].rev \in Revs
        BY <3>2, FenceTypes, WireRev
      <4>2. wire[v].rev \in Nat /\ wire[v].rev # None
        BY <4>1, FenceTypes
      <4>3. sidecar = daemon.table /\ sidecar \in 0..Rev /\ Rev \in Nat
        BY <2>0, <3>1, <3>2 DEF AcceptedTable
      <4>4. IF wire[v].rev = 0 THEN sidecar = 0 ELSE wire[v].rev = Rev
        BY <3>2, <4>3 DEF FenceAccepts, browserDnsRevision
      <4> QED BY <4>2, <4>3, <4>4
    <3> QED BY <2>0, <2>6, <3>1, <3>2 DEF DaemonCrashes, AcceptedTable
  <2>7. CASE DaemonStarts
    <3>1. daemon'.table = sidecar /\ sidecar' = sidecar
      BY <2>7 DEF DaemonStarts
    <3> QED BY <2>0, <3>1 DEF AcceptedTable
  <2>8. CASE StopDaemon
    <3>1. ~daemon'.up /\ sidecar' = sidecar
      BY <2>8, FenceTypes DEF StopDaemon, DaemonStates
    <3> QED BY <2>0, <3>1 DEF AcceptedTable
  <2> HIDE DEF A
  <2> QED
    BY <2>1, <2>3, <2>4, <2>5, <2>6, <2>7, <2>8
    DEF Next, WindowStep, UserStep, DaemonStep, SaveState, ReloadSharedNetworkState, ApplySnapshot,
        ProcessServiceChanged, FlushBrowserDnsDaemonSync, RetryTimerFires, DrainSettles, Dispose,
        ReplyArrives, SuspendedReplyArrives, SendThrows, ConnectionLost, RequestTimesOut,
        ResumeDaemon, vars
<1>2. IInv /\ FenceInv /\ [Next]_vars => [A]_vars
  BY <1>1
<1> QED BY <1>2, FenceInit, FenceNext, InitIInv, NextIInv, PTL DEF Spec, TableNeverRegresses
=============================================================================
