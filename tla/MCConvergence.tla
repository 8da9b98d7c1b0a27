--------------------------- MODULE MCConvergence ---------------------------
(* What must come to agree: the daemon's routes with the sockets of the      *)
(* machine, and the windows' registries with the shared document.  A scene   *)
(* plays in one of the two parts.                                            *)
EXTENDS SharedNetworkState, PortRouting, TLC

CONSTANTS w1, w2, n1, n2, n3, t1, i1, i2, i3, i4, h1, h2, p1

Addresses == (n1 :> {1}) @@ (n2 :> {2}) @@ (n3 :> {2})
AttachmentRow(id, n, at) == [id |-> id, net |-> n, keys |-> {t1}, at |-> at]
ExposureRow == [id |-> i1, net |-> n1, host |-> h1, status |-> "active"]
Two == [NoRows EXCEPT !.networks = {n1, n2}]
One == [NoRows EXCEPT !.networks = {n1}]
Free == [h \in Endpoints |-> Unused]
Scene(d, kinds, left, l, b) ==
  [doc |-> d, commands |-> [kinds |-> kinds, left |-> left, ids |-> {i2, i3}], windows |-> Windows,
   listener |-> l, director |-> w1, broker |-> b]
SharedScenes == {
  \* a document of an older version has two rows for a terminal
  Scene([Two EXCEPT !.attachments = {AttachmentRow(i1, n1, 1), AttachmentRow(i4, n2, 2)}],
        {"terminals", "networks"}, 2, Free, Nobody),
  Scene(One, {"window", "refresh"}, 2, Free, Nobody),
  Scene(Two, {"window", "networks"}, 2, Free, Nobody),
  Scene([One EXCEPT !.exposures = {ExposureRow}],
        {"exposures", "bindings", "handover"}, 3, Free, Nobody),
  Scene([One EXCEPT !.bindings = {[id |-> i1, net |-> n1, port |-> p1]}],
        {"exposures", "presets", "networks"}, 3, Free, w2),
  \* another program holds an endpoint
  Scene([Two EXCEPT !.exposures = {ExposureRow}],
        {"exposures", "close", "networks"}, 3, [Free EXCEPT ![h2] = <<Nobody, i1>>], w2)}
NothingShared == [Scene(NoRows, {}, 0, Free, Nobody) EXCEPT !.windows = {}]

ASSUME ScenesAreLoadable == \A s \in SharedScenes \cup {NothingShared} : LoadableScene(s)

-----------------------------------------------------------------------------
CONSTANTS None, Foreign
VARIABLES pending, rows, reserved, cache, queue, stage, snap, client, sent, sockets, lastId, faults
allocVars == <<pending, rows, reserved, cache, queue, stage, snap, client, sent, sockets, lastId, faults>>

\* Two servers a and b and a client s of the logical port 1.
Trio == {"a", "b", "s"}
Budget(live, worker, snaps, n) ==
  [live |-> live, snaps |-> snaps, faults |-> n,
   asks |-> [c \in Trio |-> IF c \in worker THEN 0 ELSE 1]]
\* A fault, a worker, a client; nobody.
Alone == Budget({}, {}, {}, 0)
AllocBudgets ==
  {Budget({"a"}, {}, {"poll"}, 1), Budget({"a", "b"}, {"b"}, {"poll"}, 0),
   Budget({"a", "s"}, {}, {"poll"}, 0), Alone}

Alloc ==
  INSTANCE RouteAllocation WITH
    Clients <- Trio, Listen <- {"a", "b"}, Port <- [c \in Trio |-> 1], Net <- [c \in Trio |-> None],
    Host <- [c \in Trio |-> "localhost"], Terminal <- [c \in Trio |-> "t"],
    Candidates <- [c \in Trio |-> buildHashedPortCandidates(0, 1, 2, 3)],
    Scoped <- TRUE, Threshold <- 1, Budgets <- AllocBudgets

NobodyAsks == \A c \in Trio : client[c].pc = "dead"
Init ==
  /\ Alloc!Init
  /\ IF NobodyAsks THEN \E s \in SharedScenes : SharedInit(s) ELSE SharedInit(NothingShared)
vars == <<sharedVars, allocVars>>
Either(A, S) == (A /\ UNCHANGED sharedVars) \/ (S /\ UNCHANGED allocVars)
Next == Either(Alloc!Next, SharedNext)

\* Alloc!FairSpec and the progress of the windows.
Fairness ==
  /\ WF_vars(Either(Alloc!QueueStep, SharedProgress))
  /\ WF_vars(Either("poll" \in DOMAIN snap /\ Alloc!Scan("poll"), FALSE))
  /\ WF_vars(Either("poll" \in DOMAIN snap
                    /\ (Alloc!Scanned("poll") \/ Alloc!Recover("poll") \/ Alloc!Snapshot("poll")), FALSE))
  /\ WF_vars(Either(Alloc!Expires, FALSE)) /\ SF_vars(Either(Alloc!GraceEnds, FALSE))
  /\ \A c \in Trio : WF_vars(Either(Alloc!Deliver(c), FALSE))
Spec == Init /\ [][Next]_vars /\ Fairness

\* Every request for a port is answered (RouteAllocation).
AsksAnswered == Alloc!AsksAnswered

\* When processes come to rest, routes and sockets agree (RouteAllocation).
EventuallyConsistent == Alloc!EventuallyConsistent
=============================================================================
