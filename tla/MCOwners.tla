------------------------------ MODULE MCOwners ------------------------------
(* Owner elections among two windows.  A scene plays in one of the parts; the *)
(* other part has no window open.                                             *)
EXTENDS LogicalRouterOwner
CONSTANTS a, b
TwoWindows == {a, b}

Faults(s, w, c, d) == [slips |-> s, writes |-> w, crashes |-> c, daemon |-> d]
RouterScene(r, c, o, f) ==
  [alive |-> Windows, router |-> r, control |-> c, want |-> {1}, overlaps |-> o, faults |-> f]
RouterScenes == {
  RouterScene(a, {a}, 1, Faults(0, 1, 0, 0)), \* a renewal fails in the only loop
  RouterScene(a, {b}, 0, Faults(1, 0, 0, 0)), \* b takes the lease of a stalled window
  RouterScene(a, {b}, 0, Faults(0, 0, 1, 0)), \* the router window is killed
  RouterScene(a, {a}, 0, Faults(0, 0, 0, 2))} \* the daemon is lost, servers come and go
NoRouters ==
  [alive |-> {}, router |-> Nobody, control |-> {}, want |-> {}, overlaps |-> 0,
   faults |-> Faults(0, 0, 0, 0)]

Quiet ==
  [writes |-> 0, torn |-> 0, stalls |-> 0, commands |-> 0, changes |-> 0, takes |-> 0,
   closes |-> 0, kills |-> 0, later |-> {}]
ControlScene(o, w, m) == [owner |-> o, open |-> w, mishaps |-> m]
ControlScenes == {
  \* two windows start at once, one is closed again
  ControlScene(Nobody, {}, [Quiet EXCEPT !.later = {a, b}, !.closes = 1, !.changes = 1]),
  \* the lease is stolen
  ControlScene(a, {a, b}, [Quiet EXCEPT !.takes = 1, !.closes = 1]),
  \* a renewal fails
  ControlScene(a, {a, b}, [Quiet EXCEPT !.writes = 1, !.changes = 1]),
  \* a half-written file is read
  ControlScene(a, {a, b}, [Quiet EXCEPT !.torn = 1]),
  \* the owner is stalled beyond the end of its lease
  ControlScene(a, {a, b}, [Quiet EXCEPT !.stalls = 1, !.commands = 1]),
  \* the owner is killed, maybe with the lock
  ControlScene(a, {a}, [Quiet EXCEPT !.kills = 1, !.later = {b}, !.commands = 1])}
NoControl == ControlScene(Nobody, {}, Quiet)
\* Both windows start, and the lease is stolen twice.
TakeScene == ControlScene(Nobody, {}, [Quiet EXCEPT !.later = {a, b}, !.takes = 2])

Init ==
  \/ \E s \in RouterScenes : RouterInit(s) /\ ControlInit(NoControl)
  \/ \E s \in ControlScenes : ControlInit(s) /\ RouterInit(NoRouters)
InitTake == RouterInit(NoRouters) /\ ControlInit(TakeScene)

\* The event loop of a window gets to every event and timer, a synchronous
\* function runs to its end, and the file and socket operations that are awaited
\* end.  The daemon is restarted when it is lost.  In a scene only one part has
\* steps, so one condition serves both.
Fairness ==
  /\ \A w \in Windows :
       /\ WF_ownerVars(Either(Continue(w), LeaseWork(w) \/ Results(w)))
       /\ WF_ownerVars(Either(refreshOwnerLeaseFromFileSignal(w),
                        scheduleNextTerminalAttachmentMarkerPoll(w)))
       /\ SF_ownerVars(Either(refreshRouterLeaseHeartbeat(w), refreshControlLeaseHeartbeat(w)))
       /\ SF_ownerVars(Either(RoutingLoop(w), Startup(w)))
       /\ SF_ownerVars(Either(syncGatewayClaimFilesExclusive(w), refreshControlOwnerFromFileSignal(w)))
       /\ WF_ownerVars(Either(ProcessChange(w), FALSE))
       /\ WF_ownerVars(Either(\E p \in Ports : Retire(w, p), FALSE))
  /\ WF_ownerVars(Either(\E p \in Ports : ClaimExpires(p), FALSE))
  /\ WF_ownerVars(Either(DaemonReturns, FALSE))
Spec == Init /\ [][OwnersNext]_ownerVars /\ Fairness
SpecTake == InitTake /\ [][OwnersNext]_ownerVars /\ Fairness
=============================================================================
