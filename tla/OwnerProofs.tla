---------------------------- MODULE OwnerProofs ----------------------------
(* The lease file implements the election, and a demoted window is idle, for *)
(* any number of windows and ports, mishaps, faults and windows still to     *)
(* open.  The first part is about the control plane, the second about the    *)
(* routers.                                                                  *)
EXTENDS LogicalRouterOwner, TLAPS

Jobs == {"none", "start", "beat", "tick", "take", "demote", "exit"}
CallType == [step : LeaseSteps, try : 1..2, job : Jobs]
Kinds == {"writes", "torn", "stalls", "commands", "changes", "takes", "closes", "kills"}
MishapType ==
  [writes : Nat, torn : Nat, stalls : Nat, commands : Nat, changes : Nat, takes : Nat,
   closes : Nat, kills : Nat, later : SUBSET Windows]

\* What may be open, owned and still to come: a window that opens later is new.
Scenes ==
  {s \in [owner : Windows \cup {Nobody}, open : SUBSET Windows, mishaps : MishapType] :
     s.owner \notin s.mishaps.later /\ s.open \cap s.mishaps.later = {}}

TypesOK ==
  /\ open \subseteq Windows
  /\ lease \in [owner : Windows \cup {Nobody}, age : {"current", "renewable", "expired"}]
  /\ lock \in {"free", "held", "stale"} /\ disturbed \in BOOLEAN
  /\ call \in [Windows -> CallType]
  /\ mishaps \in MishapType
NewcomersOwnNothing == mishaps.later \cap open = {} /\ lease.owner \notin mishaps.later

\* Until something disturbs the election: the lock is held by the one window between Lock and
\* its write, which has seen that no other live window owns the lease; and a window that renews
\* or removes the document is the owner.
Locking(w) == w \in open /\ call[w].step \in {"check", "write"}
Orderly ==
  /\ lease.age # "expired" /\ lock # "stale"
  /\ \A w \in open :
       /\ call[w].step \notin {"remove", "fill", "refill"}
       /\ call[w].step = "write" => lease.owner \notin open \ {w}
       /\ call[w].step \in {"renew", "rm"} => lease.owner = w
       /\ Locking(w) => lock = "held"
  /\ \A v, w \in open : Locking(v) /\ Locking(w) => v = w

IInv == TypesOK /\ NewcomersOwnNothing /\ (disturbed \/ Orderly)
Mapped == Election!ElectionNext \/ UNCHANGED <<lease.owner, open, disturbed>>

----------------------------------------------------------------------------
(* The steps of a call *)

Moves(w, step) ==
  /\ call' \in [Windows -> CallType]
  /\ call'[w].step = step
  /\ \A v \in Windows : v # w => call'[v].step = call[v].step

LEMMA ToMoves ==
  ASSUME TypesOK, NEW w \in Windows, NEW step \in LeaseSteps, To(w, step)
  PROVE  Moves(w, step)
<1>1. call \in [Windows -> CallType]
  BY DEF TypesOK
<1>2. [call[w] EXCEPT !.step = step] \in CallType /\ [call[w] EXCEPT !.step = step].step = step
  BY <1>1 DEF CallType
<1>3. call' = [call EXCEPT ![w] = [call[w] EXCEPT !.step = step]]
  BY DEF To
<1> HIDE DEF CallType
<1> QED BY <1>1, <1>2, <1>3 DEF Moves

LEMMA CallMoves ==
  ASSUME TypesOK, NEW w \in Windows, NEW step \in LeaseSteps, NEW job \in Jobs, Call(w, step, job)
  PROVE  Moves(w, step)
<1>1. call \in [Windows -> CallType]
  BY DEF TypesOK
<1> DEFINE c == [step |-> step, try |-> 1, job |-> job]
<1>2. c \in CallType /\ c.step = step
  BY DEF CallType
<1>3. call' = [call EXCEPT ![w] = c]
  BY DEF Call
<1> HIDE DEF c
<1> QED BY <1>1, <1>2, <1>3 DEF Moves

LEMMA ReturnMoves ==
  ASSUME TypesOK, NEW w \in Windows, Return(w)
  PROVE  Moves(w, "none")
<1>1. Call(w, "none", "none")
  BY DEF Return, Call, NoCall
<1> QED BY <1>1, CallMoves DEF LeaseSteps, Jobs

LEMMA NextAttemptMoves ==
  ASSUME TypesOK, NEW w \in Windows, NextAttempt(w)
  PROVE  Moves(w, "lock") \/ Moves(w, "no")
<1>1. call \in [Windows -> CallType]
  BY DEF TypesOK
<1> DEFINE step == IF call[w].try = 1 THEN "lock" ELSE "no"
           c == [call[w] EXCEPT !.step = step, !.try = 2]
<1>2. call' = [call EXCEPT ![w] = c]
  BY DEF NextAttempt
<1>3. (step = "lock" \/ step = "no") /\ step \in LeaseSteps
  BY DEF LeaseSteps
<1> HIDE DEF step
<1>4. c \in CallType /\ c.step = step
  <2>1. call[w] \in CallType /\ 2 \in 1..2
    BY <1>1
  <2> QED BY <1>3, <2>1 DEF CallType
<1> HIDE DEF c
<1> QED BY <1>1, <1>2, <1>3, <1>4 DEF Moves

LEMMA MishapOK ==
  ASSUME TypesOK, NEW kind \in Kinds, Mishap(kind)
  PROVE  mishaps' \in MishapType /\ mishaps'.later = mishaps.later
<1>1. mishaps \in MishapType /\ mishaps[kind] \in Nat /\ mishaps[kind] > 0
  BY DEF TypesOK, MishapType, Kinds, Mishap
<1>2. mishaps[kind] - 1 \in Nat
  BY <1>1
<1>3. mishaps' = [mishaps EXCEPT ![kind] = mishaps[kind] - 1]
  BY DEF Mishap
<1> QED BY <1>1, <1>2, <1>3 DEF MishapType, Kinds

----------------------------------------------------------------------------
(* A step that leaves the files and the windows alone, and after which the   *)
(* window's call is at none of the places Orderly speaks of.                 *)

CalmSteps == {"none", "read", "lock", "release", "yes", "no"}
Calm(w) ==
  /\ UNCHANGED files
  /\ mishaps' \in MishapType /\ mishaps'.later = mishaps.later
  /\ UNCHANGED call \/ \E step \in CalmSteps : Moves(w, step)

LEMMA CalmOK ==
  ASSUME IInv, NEW w \in Windows, Calm(w)
  PROVE  IInv' /\ Mapped
<1>1. UNCHANGED <<open, lease, lock, disturbed>> /\ mishaps' \in MishapType /\ mishaps'.later = mishaps.later
  BY DEF Calm, files
<1>2. Mapped
  BY <1>1 DEF Mapped
<1>3. NewcomersOwnNothing'
  BY <1>1 DEF IInv, NewcomersOwnNothing
<1>4. CASE UNCHANGED call
  BY <1>1, <1>2, <1>3, <1>4 DEF IInv, TypesOK, Orderly, Locking
<1>5. ASSUME NEW step \in CalmSteps, Moves(w, step) PROVE IInv'
  <2>1. TypesOK'
    BY <1>1, <1>5 DEF IInv, TypesOK, Moves
  <2>2. ASSUME NEW v \in Windows
        PROVE  call'[v].step = call[v].step \/ call'[v].step \in CalmSteps
    BY <1>5 DEF Moves
  <2>3. Orderly => Orderly'
    BY <1>1, <2>2 DEF IInv, TypesOK, Orderly, Locking, CalmSteps
  <2> QED BY <1>1, <1>3, <2>1, <2>3 DEF IInv
<1> QED BY <1>2, <1>4, <1>5 DEF Calm

\* The calls a window makes from its handlers are calm.
LEMMA HandlersCalm ==
  ASSUME TypesOK, NEW w \in Windows
  PROVE  /\ Return(w) => \E step \in CalmSteps : Moves(w, step)
         /\ \A job \in Jobs : Call(w, "read", job) \/ Call(w, "release", job)
              => \E step \in CalmSteps : Moves(w, step)
         /\ \A p : demoteControlPlaneOwner(w, p) => \E step \in CalmSteps : Moves(w, step)
         /\ startControlPlaneOwnerIfAvailable(w) => \E step \in CalmSteps : Moves(w, step)
<1>1. Return(w) => \E step \in CalmSteps : Moves(w, step)
  BY ReturnMoves DEF CalmSteps
<1>2. \A job \in Jobs : Call(w, "read", job) \/ Call(w, "release", job)
        => \E step \in CalmSteps : Moves(w, step)
  BY CallMoves DEF CalmSteps, LeaseSteps
<1>3. \A p : demoteControlPlaneOwner(w, p) => \E step \in CalmSteps : Moves(w, step)
  BY <1>1, <1>2 DEF demoteControlPlaneOwner, Jobs
<1>4. startControlPlaneOwnerIfAvailable(w) => \E step \in CalmSteps : Moves(w, step)
  BY <1>1, <1>2 DEF startControlPlaneOwnerIfAvailable, Jobs
<1> QED BY <1>1, <1>2, <1>3, <1>4

\* A window that closes or is killed.
LEMMA ClosingOK ==
  ASSUME IInv, NEW w \in Windows, open' = open \ {w}, Moves(w, "none"),
         UNCHANGED <<lease, lock, disturbed>>, mishaps' \in MishapType, mishaps'.later = mishaps.later
  PROVE  IInv' /\ Mapped
<1>1. open' \subseteq Windows /\ UNCHANGED <<lease.owner, disturbed>>
  BY DEF IInv, TypesOK
<1>2. Mapped
  BY <1>1 DEF Mapped, Election!ElectionNext, Election!ComeOrGo
<1>3. TypesOK'
  BY DEF IInv, TypesOK, Moves
<1>4. NewcomersOwnNothing'
  BY DEF IInv, NewcomersOwnNothing
<1>5. \A v \in open' : call'[v].step = call[v].step
  BY DEF IInv, TypesOK, Moves
<1>6. Orderly => Orderly'
  BY <1>5 DEF Orderly, Locking
<1> QED BY <1>2, <1>3, <1>4, <1>6 DEF IInv

LEMMA ResultsOK ==
  ASSUME IInv, NEW w \in Windows, Results(w)
  PROVE  IInv' /\ Mapped
<1>0. TypesOK /\ mishaps \in MishapType
  BY DEF IInv, TypesOK
<1>1. CASE Demoted(w)
  BY <1>0, <1>1, HandlersCalm, CalmOK DEF Demoted, Calm
<1>2. CASE startControlPlaneOwnerIfAvailableExclusive(w)
  BY <1>0, <1>2, HandlersCalm, CalmOK DEF startControlPlaneOwnerIfAvailableExclusive, Calm
<1>3. CASE Beaten(w)
  BY <1>0, <1>3, HandlersCalm, CalmOK DEF Beaten, Calm
<1>4. CASE refreshRoutingSignalsExclusive(w)
  BY <1>0, <1>4, HandlersCalm, CalmOK DEF refreshRoutingSignalsExclusive, Calm
<1>5. CASE Taken(w)
  BY <1>0, <1>5, HandlersCalm, CalmOK DEF Taken, Calm
<1>6. CASE Exit(w)
  <2>1. /\ open' = open \ {w} /\ Moves(w, "none")
        /\ UNCHANGED <<lease, lock, disturbed, mishaps>>
    BY <1>0, <1>6, ReturnMoves DEF Exit
  <2>2. mishaps' \in MishapType /\ mishaps'.later = mishaps.later
    BY <1>0, <2>1
  <2> QED BY <2>1, <2>2, ClosingOK
<1> QED BY <1>1, <1>2, <1>3, <1>4, <1>5, <1>6 DEF Results

\* The handlers of timers and events.
LEMMA TimersOK ==
  ASSUME IInv, NEW w \in Windows,
         \/ Startup(w) \/ refreshControlLeaseHeartbeat(w) \/ refreshRoutingSignals(w)
         \/ RefreshEnds(w) \/ scheduleNextTerminalAttachmentMarkerPoll(w)
         \/ refreshControlOwnerFromFileSignal(w)
  PROVE  IInv' /\ Mapped
<1>0. TypesOK /\ mishaps \in MishapType
  BY DEF IInv, TypesOK
<1>1. CASE Startup(w)
  BY <1>0, <1>1, CalmOK
  DEF Startup, startControlPlaneOwnerWatchers, startControlPlaneOwnerServices, Calm, leaseVars, files
<1>2. CASE refreshControlLeaseHeartbeat(w)
  BY <1>0, <1>2, HandlersCalm, CalmOK DEF refreshControlLeaseHeartbeat, Calm, Jobs
<1>3. CASE refreshRoutingSignals(w)
  BY <1>0, <1>3, HandlersCalm, CalmOK DEF refreshRoutingSignals, Calm, Jobs
<1>4. CASE RefreshEnds(w) \/ scheduleNextTerminalAttachmentMarkerPoll(w)
  BY <1>0, <1>4, CalmOK
  DEF RefreshEnds, scheduleNextTerminalAttachmentMarkerPoll, Calm, leaseVars, files
<1>5. CASE refreshControlOwnerFromFileSignal(w)
  BY <1>0, <1>5, HandlersCalm, CalmOK DEF refreshControlOwnerFromFileSignal, Calm
<1> QED BY <1>1, <1>2, <1>3, <1>4, <1>5

\* A step that disturbs the election promises nothing.
LEMMA DisturbedOK ==
  ASSUME TypesOK', NewcomersOwnNothing', disturbed'
  PROVE  IInv' /\ Mapped
<1>1. Mapped
  BY DEF Mapped, Election!ElectionNext, Election!Disturb, TypesOK
<1> QED BY <1>1 DEF IInv

LEMMA VisitsOK ==
  ASSUME IInv, NEW w \in Windows, Visits(w)
  PROVE  IInv' /\ Mapped
<1>0. TypesOK /\ NewcomersOwnNothing
  BY DEF IInv
<1>1. CASE Command(w)
  BY <1>0, <1>1, MishapOK, HandlersCalm, CalmOK DEF Command, Calm, Kinds
<1>2. CASE runControlPlaneRegistrySideEffects(w)
  BY <1>0, <1>2, MishapOK, HandlersCalm, CalmOK DEF runControlPlaneRegistrySideEffects, Calm, Kinds, Jobs
<1>3. CASE takeControlPlaneOwnership(w)
  <2>1. Moves(w, "renew") /\ disturbed' = TRUE /\ UNCHANGED <<open, lease, lock>>
    BY <1>0, <1>3, CallMoves DEF takeControlPlaneOwnership, LeaseSteps, Jobs
  <2>2. mishaps' \in MishapType /\ mishaps'.later = mishaps.later
    BY <1>0, <1>3, MishapOK DEF takeControlPlaneOwnership, Kinds
  <2>3. TypesOK' /\ NewcomersOwnNothing'
    BY <1>0, <2>1, <2>2 DEF TypesOK, NewcomersOwnNothing, Moves
  <2> QED BY <2>1, <2>3, DisturbedOK
<1>4. CASE OpenWindow(w)
  <2>1. /\ Moves(w, "read") /\ open' = open \cup {w}
        /\ UNCHANGED <<lease, lock, disturbed>>
    BY <1>0, <1>4, CallMoves DEF OpenWindow, LeaseSteps, Jobs
  <2>2. /\ w \in mishaps.later /\ mishaps' \in MishapType
        /\ mishaps'.later = mishaps.later \ {w}
    BY <1>0, <1>4 DEF OpenWindow, TypesOK, MishapType
  <2>3. TypesOK'
    BY <1>0, <2>1, <2>2 DEF TypesOK, Moves
  <2>4. NewcomersOwnNothing'
    BY <1>0, <2>1, <2>2 DEF NewcomersOwnNothing
  <2>5. lease.owner # w /\ w \notin open
    BY <1>0, <2>2 DEF NewcomersOwnNothing
  <2>6. \A v \in open : call'[v].step = call[v].step
    BY <1>0, <2>1, <2>5 DEF TypesOK, Moves
  <2>7. call'[w].step = "read"
    BY <2>1 DEF Moves
  <2>8. Orderly => Orderly'
    BY <2>1, <2>5, <2>6, <2>7 DEF Orderly, Locking
  <2>9. Mapped
    <3>1. open' \subseteq Windows /\ UNCHANGED <<lease.owner, disturbed>>
      BY <2>1, <2>3 DEF TypesOK
    <3> QED BY <3>1 DEF Mapped, Election!ElectionNext, Election!ComeOrGo
  <2> QED BY <2>1, <2>3, <2>4, <2>8, <2>9 DEF IInv
<1>5. CASE dispose(w)
  BY <1>0, <1>5, MishapOK, HandlersCalm, CalmOK DEF dispose, Calm, Kinds, Jobs
<1>6. CASE KillWindow(w)
  <2>1. /\ open' = open \ {w} /\ Moves(w, "none")
        /\ UNCHANGED <<lease, lock, disturbed>>
    BY <1>0, <1>6, ReturnMoves DEF KillWindow
  <2>2. mishaps' \in MishapType /\ mishaps'.later = mishaps.later
    BY <1>0, <1>6, MishapOK DEF KillWindow, Kinds
  <2> QED BY <2>1, <2>2, ClosingOK
<1> QED BY <1>1, <1>2, <1>3, <1>4, <1>5, <1>6 DEF Visits

----------------------------------------------------------------------------
(* The file operations *)

LEMMA WriteOK ==
  ASSUME IInv, NEW w \in Windows, writeControlPlaneOwnerLease(w)
  PROVE  IInv' /\ Mapped
<1>1. /\ w \in open /\ lease' = [owner |-> w, age |-> "current"]
      /\ UNCHANGED <<open, disturbed, mishaps>> /\ Moves(w, "yes")
  BY ToMoves DEF writeControlPlaneOwnerLease, Step, Put, IInv, LeaseSteps
<1>2. lock' \in {"free", "held", "stale"}
  BY DEF writeControlPlaneOwnerLease, IInv, TypesOK
<1>3. lease' \in [owner : Windows \cup {Nobody}, age : {"current", "renewable", "expired"}] /\ lease'.owner = w
  BY <1>1
<1>4. TypesOK'
  BY <1>1, <1>2, <1>3 DEF IInv, TypesOK, Moves
<1>5. NewcomersOwnNothing'
  BY <1>1, <1>3 DEF IInv, NewcomersOwnNothing
<1>6. CASE disturbed
  <2>1. Mapped
    BY <1>1, <1>3, <1>4, <1>6 DEF Mapped, Election!ElectionNext, Election!Disturb, TypesOK
  <2> QED BY <1>1, <1>4, <1>5, <1>6, <2>1 DEF IInv
<1>7. CASE ~disturbed
  <2>0. Orderly
    BY <1>7 DEF IInv
  <2>1. lease.owner \notin open \ {w}
    BY <1>1, <2>0 DEF writeControlPlaneOwnerLease, Step, Orderly
  <2>2. Mapped
    BY <1>1, <1>3, <2>1 DEF Mapped, Election!ElectionNext, Election!Take
  <2>3. \A v \in open : v # w => call'[v].step = call[v].step
    BY <1>1 DEF Moves, IInv, TypesOK
  <2>4. call'[w].step = "yes"
    BY <1>1 DEF Moves
  <2>5. ASSUME NEW v \in open, v # w
        PROVE  /\ call[v].step \notin {"remove", "fill", "refill", "renew", "rm", "write"}
               /\ Locking(v) => lock' = lock
    <3>1. call[w].step \in {"write", "renew"} /\ (call[w].step = "renew" => lock' = lock)
      BY <1>1, <2>0 DEF writeControlPlaneOwnerLease, Step, Orderly
    <3>2. CASE call[w].step = "write"
      <4>1. Locking(w) /\ lease.owner # v
        BY <1>1, <2>0, <2>5, <3>2 DEF Locking, Orderly
      <4> QED BY <1>1, <2>0, <2>5, <4>1 DEF Orderly, Locking
    <3>3. CASE call[w].step = "renew"
      <4>1. lease.owner = w
        BY <1>1, <2>0, <3>3 DEF Orderly
      <4> QED BY <1>1, <2>0, <2>5, <3>1, <3>3, <4>1 DEF Orderly
    <3> QED BY <3>1, <3>2, <3>3
  <2>6. lease'.age = "current" /\ lock' # "stale"
    BY <1>1, <2>0 DEF writeControlPlaneOwnerLease, Orderly
  <2>7. \A v \in open : Locking(v)' => v # w /\ Locking(v)
    BY <1>1, <2>3, <2>4 DEF Locking
  <2>8. Orderly'
    BY <1>1, <2>0, <2>3, <2>4, <2>5, <2>6, <2>7 DEF Orderly
  <2> QED BY <1>4, <1>5, <2>2, <2>8 DEF IInv
<1> QED BY <1>6, <1>7

\* A file operation that leaves the document, and may take or free the lock.
LEMMA LockingOK ==
  ASSUME IInv, NEW w \in Windows, ReadOwner(w) \/ Lock(w) \/ CheckOwner(w) \/ ReadBeforeRelease(w)
  PROVE  IInv' /\ Mapped
<1>0. TypesOK /\ w \in open /\ UNCHANGED <<open, lease, disturbed, mishaps>>
  BY DEF IInv, ReadOwner, Lock, CheckOwner, ReadBeforeRelease, Step
<1>1. PICK step \in LeaseSteps : Moves(w, step)
  BY <1>0, ToMoves, NextAttemptMoves
  DEF ReadOwner, Lock, CheckOwner, ReadBeforeRelease, LeaseSteps
<1>2. Mapped
  BY <1>0 DEF Mapped
<1>3. TypesOK' /\ NewcomersOwnNothing'
  BY <1>0, <1>1 DEF IInv, TypesOK, NewcomersOwnNothing, Moves, ReadOwner, Lock, CheckOwner, ReadBeforeRelease
<1>4. ASSUME ~disturbed PROVE Orderly'
  <2>0. Orderly /\ \A v \in open : v # w => call'[v].step = call[v].step
    BY <1>0, <1>1, <1>4 DEF IInv, TypesOK, Moves
  <2>1. CASE ReadOwner(w)
    <3>1. /\ UNCHANGED lock
          /\ call'[w].step \in {"yes", "no", "lock"} \/ (call'[w].step = "renew" /\ lease.owner = w)
      BY <1>0, <2>1, ToMoves DEF ReadOwner, LeaseSteps, Moves
    <3> QED BY <1>0, <2>0, <3>1 DEF Orderly, Locking
  <2>2. CASE ReadBeforeRelease(w)
    <3>1. UNCHANGED lock /\ (call'[w].step = "yes" \/ (call'[w].step = "rm" /\ lease.owner = w))
      BY <1>0, <2>2, ToMoves DEF ReadBeforeRelease, LeaseSteps, Moves
    <3> QED BY <1>0, <2>0, <3>1 DEF Orderly, Locking
  <2>3. CASE Lock(w)
    <3>1. \/ lock = "free" /\ lock' = "held" /\ call'[w].step = "check"
          \/ UNCHANGED lock /\ call'[w].step \in {"lock", "no"}
      BY <1>0, <2>0, <2>3, ToMoves, NextAttemptMoves DEF Lock, LeaseSteps, Moves, Orderly, TypesOK
    <3>2. CASE lock = "free" /\ lock' = "held" /\ call'[w].step = "check"
      <4>1. \A v \in open : call[v].step \notin {"check", "write"}
        BY <2>0, <3>2 DEF Orderly, Locking
      <4>2. \A v \in open : v # w => call'[v].step \notin {"check", "write"}
        BY <2>0, <4>1
      <4>3. \A v, x \in open : Locking(v)' /\ Locking(x)' => v = x
        BY <1>0, <4>2 DEF Locking
      <4> QED BY <1>0, <2>0, <3>2, <4>2, <4>3 DEF Orderly, Locking
    <3>3. CASE UNCHANGED lock /\ call'[w].step \in {"lock", "no"}
      BY <1>0, <2>0, <3>3 DEF Orderly, Locking
    <3> QED BY <3>1, <3>2, <3>3
  <2>4. CASE CheckOwner(w)
    <3>1. \/ lock' = "free" /\ call'[w].step = "no"
          \/ UNCHANGED lock /\ call'[w].step = "write" /\ lease.owner \notin open \ {w}
      BY <1>0, <2>0, <2>4, ToMoves
      DEF CheckOwner, LeaseSteps, Moves, isActiveControlPlaneOwner, Orderly
    <3>2. Locking(w)
      BY <2>4 DEF CheckOwner, Step, Locking
    <3>3. \A v \in open : Locking(v)' => v = w
      BY <1>0, <2>0, <3>2 DEF Orderly, Locking
    <3> QED BY <1>0, <2>0, <3>1, <3>2, <3>3 DEF Orderly, Locking
  <2> QED BY <2>1, <2>2, <2>3, <2>4
<1> QED BY <1>0, <1>2, <1>3, <1>4 DEF IInv

LEMMA LeaseStepOK ==
  ASSUME IInv, NEW w \in Windows, LeaseStep(w)
  PROVE  IInv' /\ Mapped
<1>0. TypesOK
  BY DEF IInv
<1>1. CASE removeStaleControlPlaneOwnerLock(w)
  <2>1. UNCHANGED <<open, lease, disturbed, mishaps>> /\ lock' = "free" /\ call' \in [Windows -> CallType]
    BY <1>0, <1>1, NextAttemptMoves DEF removeStaleControlPlaneOwnerLock, Moves
  <2>2. disturbed
    BY <1>1 DEF IInv, Orderly, removeStaleControlPlaneOwnerLock, Step
  <2>3. TypesOK' /\ NewcomersOwnNothing'
    BY <2>1 DEF IInv, TypesOK, NewcomersOwnNothing
  <2> QED BY <2>1, <2>2, <2>3, DisturbedOK
<1>2. CASE releaseControlPlaneOwnerLease(w)
  <2>1. /\ w \in open /\ lease' = NoLease /\ UNCHANGED <<open, lock, disturbed, mishaps>>
        /\ Moves(w, "yes")
    BY <1>0, <1>2, ToMoves DEF releaseControlPlaneOwnerLease, Step, Put, LeaseSteps
  <2>2. TypesOK'
    BY <2>1 DEF IInv, TypesOK, Moves, NoLease
  <2>3. NewcomersOwnNothing'
    BY <2>1, NobodyAssumption DEF IInv, TypesOK, MishapType, NewcomersOwnNothing, NoLease
  <2>4. CASE disturbed
    BY <2>1, <2>2, <2>3, <2>4, DisturbedOK
  <2>5. CASE ~disturbed
    <3>1. Orderly /\ lease.owner = w
      BY <1>2, <2>5 DEF IInv, Orderly, releaseControlPlaneOwnerLease, Step
    <3>2. Mapped
      BY <2>1, <3>1 DEF Mapped, Election!ElectionNext, Election!Give, NoLease
    <3>3. \A v \in open : v # w => /\ call'[v].step = call[v].step
                                   /\ call[v].step \notin {"renew", "rm"}
      BY <1>0, <2>1, <3>1 DEF Moves, TypesOK, Orderly
    <3>4. Orderly'
      BY <2>1, <3>1, <3>3, NobodyAssumption DEF Orderly, Locking, Moves, NoLease, IInv, TypesOK
    <3> QED BY <2>2, <2>3, <3>2, <3>4 DEF IInv
  <2> QED BY <2>4, <2>5
<1> QED BY <1>1, <1>2, WriteOK, LockingOK DEF LeaseStep

\* What goes wrong with a write, and what time does.
LEMMA FaultsOK ==
  ASSUME IInv, (\E w \in Windows : Truncate(w) \/ FailWrite(w)) \/ LeaseAges \/ LockAges
  PROVE  IInv' /\ Mapped
<1>0. TypesOK /\ NewcomersOwnNothing
  BY DEF IInv
<1>1. ASSUME NEW w \in Windows, Truncate(w) PROVE IInv' /\ Mapped
  <2>1. PICK step \in LeaseSteps : Moves(w, step)
    BY <1>0, <1>1, ToMoves DEF Truncate, LeaseSteps
  <2>2. lease' = NoLease /\ UNCHANGED <<open, lock>> /\ disturbed' = TRUE
    BY <1>1 DEF Truncate, Put
  <2>3. mishaps' \in MishapType /\ mishaps'.later = mishaps.later
    BY <1>0, <1>1, MishapOK DEF Truncate, Kinds
  <2>4. TypesOK'
    BY <1>0, <2>1, <2>2, <2>3 DEF TypesOK, Moves, NoLease
  <2>5. NewcomersOwnNothing'
    BY <1>0, <2>2, <2>3, NobodyAssumption DEF TypesOK, MishapType, NewcomersOwnNothing, NoLease
  <2> QED BY <2>2, <2>4, <2>5, DisturbedOK
<1>2. ASSUME NEW w \in Windows, FailWrite(w) PROVE IInv' /\ Mapped
  <2>1. Moves(w, "no") /\ w \in open /\ UNCHANGED <<open, lease, disturbed>>
    BY <1>0, <1>2, ToMoves DEF FailWrite, Step, LeaseSteps
  <2>2. mishaps' \in MishapType /\ mishaps'.later = mishaps.later
    BY <1>0, <1>2, MishapOK DEF FailWrite, Kinds
  <2>3. TypesOK' /\ NewcomersOwnNothing'
    BY <1>0, <1>2, <2>1, <2>2 DEF TypesOK, Moves, NewcomersOwnNothing, FailWrite
  <2>4. Mapped
    BY <2>1 DEF Mapped
  <2>5. ASSUME Orderly PROVE Orderly'
    <3>1. \A v \in open : v # w => call'[v].step = call[v].step
      BY <1>0, <2>1 DEF Moves, TypesOK
    <3>2. (call[w].step = "write" /\ lock' = "free") \/ UNCHANGED lock
      BY <1>2 DEF FailWrite, Step
    <3>3. \A v \in open : Locking(v)' => v # w /\ Locking(v)
      BY <2>1, <3>1 DEF Locking, Moves
    <3>4. \A v \in open : Locking(v)' => UNCHANGED lock
      BY <2>1, <2>5, <3>2, <3>3 DEF Orderly, Locking
    <3> QED BY <2>1, <2>5, <3>1, <3>2, <3>3, <3>4 DEF Orderly, Moves
  <2> QED BY <2>1, <2>3, <2>4, <2>5 DEF IInv
<1>3. CASE LeaseAges
  <2>1. lease'.owner = lease.owner /\ UNCHANGED <<open, lock, call>>
    BY <1>0, <1>3 DEF LeaseAges, TypesOK
  <2>2. lease' \in [owner : Windows \cup {Nobody}, age : {"current", "renewable", "expired"}]
    BY <1>0, <1>3 DEF LeaseAges, TypesOK
  <2>3. mishaps' \in MishapType /\ mishaps'.later = mishaps.later /\ disturbed' \in BOOLEAN
    BY <1>0, <1>3, MishapOK DEF LeaseAges, Kinds, TypesOK
  <2>4. TypesOK' /\ NewcomersOwnNothing'
    BY <1>0, <2>1, <2>2, <2>3 DEF TypesOK, NewcomersOwnNothing
  <2>5. CASE disturbed'
    BY <2>4, <2>5, DisturbedOK
  <2>6. CASE ~disturbed'
    <3>1. UNCHANGED disturbed /\ lease'.age = "renewable"
      BY <1>0, <1>3, <2>6 DEF LeaseAges, TypesOK
    <3>2. Orderly'
      BY <2>1, <2>6, <3>1 DEF IInv, Orderly, Locking
    <3> QED BY <2>1, <2>4, <3>1, <3>2 DEF IInv, Mapped
  <2> QED BY <2>5, <2>6
<1>4. CASE LockAges
  <2>1. TypesOK' /\ NewcomersOwnNothing'
    BY <1>0, <1>4 DEF LockAges, TypesOK, NewcomersOwnNothing
  <2> QED BY <1>4, <2>1, DisturbedOK DEF LockAges
<1> QED BY <1>1, <1>2, <1>3, <1>4

LEMMA NextOK ==
  ASSUME IInv, [ControlNext]_controlVars
  PROVE  IInv' /\ [Election!ElectionNext]_<<lease.owner, open, disturbed>>
<1>1. CASE ControlNext
  <2>1. IInv' /\ Mapped
    BY <1>1, LeaseStepOK, ResultsOK, TimersOK, VisitsOK, FaultsOK DEF ControlNext, LeaseWork
  <2> QED BY <2>1 DEF Mapped
<1>2. CASE UNCHANGED controlVars
  <2>1. UNCHANGED <<open, lease, lock, call, disturbed, mishaps>>
    BY <1>2 DEF controlVars, leaseVars
  <2> QED BY <2>1 DEF IInv, TypesOK, NewcomersOwnNothing, Orderly, Locking
<1> QED BY <1>1, <1>2

LEMMA InitOK ==
  ASSUME NEW s \in Scenes, ControlInit(s)
  PROVE  IInv /\ Election!ElectionInit
<1>1. /\ s.owner \in Windows \cup {Nobody} /\ s.open \subseteq Windows /\ s.mishaps \in MishapType
      /\ s.owner \notin s.mishaps.later /\ s.open \cap s.mishaps.later = {}
  BY DEF Scenes
<1>2. NoCall \in CallType /\ NoCall.step = "none"
  BY DEF NoCall, CallType, LeaseSteps, Jobs
<1>3. TypesOK /\ NewcomersOwnNothing /\ Orderly
  BY <1>1, <1>2 DEF ControlInit, TypesOK, NewcomersOwnNothing, Orderly, Locking
<1> QED BY <1>1, <1>3 DEF ControlInit, IInv, Election!ElectionInit

\* The lock file, the check under it and the read before a renewal or a removal implement the
\* election (tryAcquireControlPlaneOwnerLease, releaseControlPlaneOwnerLease): until a stalled
\* owner, a half-written file, a stale lock or a steal disturbs it, no live owner loses its lease
\* to another window, for any windows, openings, closings and kills.
THEOREM ElectionImplemented ==
  ASSUME NEW s \in Scenes
  PROVE  ControlInit(s) /\ [][ControlNext]_controlVars => ElectionHolds
<1>1. ControlInit(s) => IInv /\ Election!ElectionInit
  BY InitOK
<1>2. IInv /\ [ControlNext]_controlVars => IInv' /\ [Election!ElectionNext]_<<lease.owner, open, disturbed>>
  BY NextOK
<1> QED BY <1>1, <1>2, PTL DEF ElectionHolds, Election!ElectionSpec

----------------------------------------------------------------------------
(* The owner's loop *)

LoopOK(p) == p \in Planes /\ (p.loop \/ p.tracking => p.owns)
PlanesOK == plane \in [Windows -> Planes] /\ LoopRunsInOwner

LEMMA SetOK ==
  ASSUME PlanesOK, NEW w \in Windows, NEW p, LoopOK(p), Set(w, p)
  PROVE  PlanesOK'
BY DEF PlanesOK, LoopRunsInOwner, LoopOK, Set

LEMMA PlaneOK ==
  ASSUME PlanesOK, NEW w \in Windows
  PROVE  LoopOK(plane[w])
BY DEF PlanesOK, LoopRunsInOwner, LoopOK

\* What the handlers make of a plane.
LEMMA PlaneStepsOK ==
  ASSUME NEW p, LoopOK(p)
  PROVE  /\ LoopOK(Stopped(p)) /\ LoopOK(scheduleNextRoutingSignalRefresh(p)) /\ LoopOK(SyncTrackers(p))
         /\ scheduleNextRoutingSignalRefresh(p).owns = p.owns /\ SyncTrackers(p).owns = p.owns
<1>1. LoopOK(Stopped(p))
  BY DEF LoopOK, Planes, Stopped
<1>2. LoopOK(scheduleNextRoutingSignalRefresh(p)) /\ scheduleNextRoutingSignalRefresh(p).owns = p.owns
  <2>1. (p.loop \/ p.owns) \in BOOLEAN
    OBVIOUS
  <2> QED BY <2>1 DEF LoopOK, Planes, scheduleNextRoutingSignalRefresh
<1>3. LoopOK(SyncTrackers(p)) /\ SyncTrackers(p).owns = p.owns
  BY DEF LoopOK, Planes, SyncTrackers
<1> QED BY <1>1, <1>2, <1>3

LEMMA FieldsOK ==
  ASSUME NEW p, LoopOK(p), NEW b \in BOOLEAN, NEW st \in {"none", "watchers", "services", "late"}
  PROVE  /\ LoopOK([p EXCEPT !.loop = FALSE]) /\ LoopOK([p EXCEPT !.poll = b])
         /\ LoopOK([p EXCEPT !.refreshing = b]) /\ LoopOK([p EXCEPT !.startup = st])
         /\ LoopOK([p EXCEPT !.watching = b, !.startup = st])
         /\ LoopOK([p EXCEPT !.poll = b, !.startup = st])
         /\ LoopOK([p EXCEPT !.owns = TRUE, !.startup = st])
BY DEF LoopOK, Planes

LEMMA DemoteOK ==
  ASSUME PlanesOK, NEW w \in Windows, NEW p, LoopOK(p), demoteControlPlaneOwner(w, p)
  PROVE  PlanesOK'
BY SetOK, PlaneStepsOK DEF demoteControlPlaneOwner

LEMMA LoopNextOK ==
  ASSUME PlanesOK, [ControlNext]_controlVars
  PROVE  PlanesOK'
<1>0. CASE UNCHANGED plane
  BY <1>0 DEF PlanesOK, LoopRunsInOwner
<1>1. ASSUME NEW w \in Windows, Results(w) PROVE PlanesOK'
  <2>1. LoopOK(plane[w])
    BY PlaneOK
  <2>2. CASE startControlPlaneOwnerIfAvailableExclusive(w)
    <3>1. CASE demoteControlPlaneOwner(w, plane[w])
      BY <2>1, <3>1, DemoteOK
    <3> DEFINE st == IF plane[w].owns THEN plane[w].startup
                     ELSE IF plane[w].watching THEN "services" ELSE "watchers"
    <3>2. CASE Set(w, [plane[w] EXCEPT !.owns = TRUE, !.startup = st])
      <4>1. st \in {"none", "watchers", "services", "late"}
        BY <2>1 DEF LoopOK, Planes
      <4> HIDE DEF st
      <4> QED BY <2>1, <3>2, <4>1, FieldsOK, SetOK
    <3> QED BY <2>2, <3>1, <3>2 DEF startControlPlaneOwnerIfAvailableExclusive
  <2>3. CASE Demoted(w) \/ Exit(w)
    BY <1>0, <2>3 DEF Demoted, Exit
  <2>4. CASE Beaten(w)
    BY <1>0, <2>1, <2>4, DemoteOK DEF Beaten
  <2>5. CASE refreshRoutingSignalsExclusive(w)
    <3>1. CASE Set(w, [SyncTrackers(plane[w]) EXCEPT !.refreshing = TRUE])
      BY <2>1, <3>1, PlaneStepsOK, FieldsOK, SetOK
    <3> QED BY <2>1, <2>5, <3>1, DemoteOK DEF refreshRoutingSignalsExclusive
  <2>6. CASE Taken(w)
    BY <1>0, <2>6 DEF Taken, startControlPlaneOwnerIfAvailable
  <2> QED BY <1>1, <2>2, <2>3, <2>4, <2>5, <2>6 DEF Results
<1>2. ASSUME NEW w \in Windows, Startup(w) PROVE PlanesOK'
  <2>1. LoopOK(plane[w])
    BY PlaneOK
  <2>2. CASE startControlPlaneOwnerWatchers(w)
    BY <2>1, <2>2, FieldsOK, SetOK DEF startControlPlaneOwnerWatchers
  <2>3. CASE startControlPlaneOwnerServices(w)
    <3>1. CASE Set(w, [scheduleNextRoutingSignalRefresh(plane[w]) EXCEPT !.poll = TRUE, !.startup = "late"])
      BY <2>1, <3>1, PlaneStepsOK, FieldsOK, SetOK
    <3>2. CASE Set(w, [SyncTrackers(plane[w]) EXCEPT !.startup = "none"])
      BY <2>1, <3>2, PlaneStepsOK, FieldsOK, SetOK
    <3> QED BY <2>3, <3>1, <3>2 DEF startControlPlaneOwnerServices
  <2> QED BY <1>2, <2>2, <2>3 DEF Startup
<1>3. ASSUME NEW w \in Windows, Visits(w) PROVE PlanesOK'
  <2>1. LoopOK(plane[w]) /\ LoopOK(NoPlane)
    BY PlaneOK DEF LoopOK, Planes, NoPlane
  <2>2. CASE Command(w) \/ takeControlPlaneOwnership(w) \/ OpenWindow(w)
    BY <1>0, <2>2 DEF Command, startControlPlaneOwnerIfAvailable, takeControlPlaneOwnership, OpenWindow
  <2>3. CASE dispose(w) \/ KillWindow(w)
    BY <2>1, <2>3, SetOK DEF dispose, KillWindow
  <2>4. CASE runControlPlaneRegistrySideEffects(w)
    BY <2>1, <2>4, PlaneStepsOK, SetOK, DemoteOK DEF runControlPlaneRegistrySideEffects
  <2> QED BY <1>3, <2>2, <2>3, <2>4 DEF Visits
<1>4. ASSUME NEW w \in Windows,
             \/ refreshControlLeaseHeartbeat(w) \/ refreshRoutingSignals(w) \/ RefreshEnds(w)
             \/ scheduleNextTerminalAttachmentMarkerPoll(w) \/ refreshControlOwnerFromFileSignal(w)
      PROVE  PlanesOK'
  <2>1. LoopOK(plane[w]) /\ LoopOK([plane[w] EXCEPT !.loop = FALSE])
    BY PlaneOK, FieldsOK
  <2>2. CASE refreshControlLeaseHeartbeat(w)
    BY <1>0, <2>2 DEF refreshControlLeaseHeartbeat
  <2>3. CASE refreshRoutingSignals(w)
    BY <2>1, <2>3, SetOK, DemoteOK DEF refreshRoutingSignals
  <2>4. CASE RefreshEnds(w)
    BY <2>1, <2>4, PlaneStepsOK, FieldsOK, SetOK DEF RefreshEnds
  <2>5. CASE scheduleNextTerminalAttachmentMarkerPoll(w)
    BY <2>1, <2>5, FieldsOK, SetOK DEF scheduleNextTerminalAttachmentMarkerPoll
  <2>6. CASE refreshControlOwnerFromFileSignal(w)
    BY <1>0, <2>1, <2>6, DemoteOK DEF refreshControlOwnerFromFileSignal, startControlPlaneOwnerIfAvailable
  <2> QED BY <1>4, <2>2, <2>3, <2>4, <2>5, <2>6
<1> QED BY <1>0, <1>1, <1>2, <1>3, <1>4 DEF ControlNext, LeaseWork, controlVars

LEMMA PlanesInit ==
  ASSUME NEW s \in Scenes, ControlInit(s)
  PROVE  PlanesOK
<1> DEFINE first == [NoPlane EXCEPT !.owns = TRUE, !.watching = TRUE, !.loop = TRUE, !.poll = TRUE]
<1>1. LoopOK(NoPlane) /\ LoopOK(first)
  BY DEF LoopOK, Planes, NoPlane
<1>2. plane = [w \in Windows |-> IF w = s.owner THEN first ELSE NoPlane]
  BY DEF ControlInit
<1> HIDE DEF first
<1> QED BY <1>1, <1>2 DEF PlanesOK, LoopRunsInOwner, LoopOK

\* The routing loop, the freshness heartbeat and the container events stream run in no
\* demoted window (scheduleNextRoutingSignalRefresh, demoteControlPlaneOwner), for any scene.
THEOREM LoopsRunInOwner ==
  ASSUME NEW s \in Scenes
  PROVE  ControlInit(s) /\ [][ControlNext]_controlVars => []LoopRunsInOwner
<1>1. ControlInit(s) => PlanesOK
  BY PlanesInit
<1>2. PlanesOK /\ [ControlNext]_controlVars => PlanesOK'
  BY LoopNextOK
<1>3. PlanesOK => LoopRunsInOwner
  BY DEF PlanesOK
<1> QED BY <1>1, <1>2, <1>3, PTL
----------------------------------------------------------------------------
(* The routers: a window's router r with its claim operations t.  A window   *)
(* that does not own the routers has no listener; what it is still opening   *)
(* belongs to an older generation; its sockets are closed before a demotion  *)
(* in progress ends; and the last claim operation leaves it no claim.        *)

Held(r) == r.listeners \cup r.closing
RouterOK(r, t) ==
  /\ r \in Routers /\ t \in Seq(ClaimOps)
  /\ r.retiring \subseteq r.listeners /\ r.listeners \cap r.closing = {}
  /\ ~r.owns =>
       /\ r.listeners = {} /\ (r.at # {} => r.stale)
       /\ r.closing # {} => r.release \/ \E i \in DOMAIN t : t[i].by = "demotion"
       /\ IF t = <<>> THEN r.claims = {} ELSE t[Len(t)].ports = {}

RestOK ==
  /\ alive \subseteq Windows /\ holder \in Windows \cup {Nobody} /\ signal \subseteq Windows
  /\ want \subseteq Ports /\ daemon \in BOOLEAN /\ control \subseteq Windows
  /\ claim \subseteq Ports /\ changed \subseteq Windows /\ retry \subseteq Windows
BoundOK ==
  /\ bound \in [Ports -> Windows \cup {Nobody}]
  /\ \A w \in alive, p \in Ports : bound[p] = w <=> p \in Held(router[w])
  /\ \A w \in Windows \ alive, p \in Ports : bound[p] # w
RouterInv ==
  /\ RestOK /\ BoundOK
  /\ router \in [Windows -> Routers] /\ tail \in [Windows -> Seq(ClaimOps)]
  /\ \A w \in Windows : RouterOK(router[w], tail[w])

Demotion == [ports |-> {}, by |-> "demotion"]

LEMMA AppendFacts ==
  ASSUME NEW t \in Seq(ClaimOps), NEW op \in ClaimOps
  PROVE  /\ Append(t, op) \in Seq(ClaimOps) /\ Append(t, op) # <<>>
         /\ Append(t, op)[Len(Append(t, op))] = op /\ Len(Append(t, op)) \in DOMAIN Append(t, op)
OBVIOUS

LEMMA TailFacts ==
  ASSUME NEW t \in Seq(ClaimOps), t # <<>>
  PROVE  /\ Head(t) \in ClaimOps /\ Tail(t) \in Seq(ClaimOps) /\ Len(t) \in Nat \ {0} /\ Head(t) = t[1]
         /\ Tail(t) = <<>> => Len(t) = 1
         /\ Tail(t) # <<>> => Tail(t)[Len(Tail(t))] = t[Len(t)]
         /\ \A i \in DOMAIN t : i # 1 => i - 1 \in DOMAIN Tail(t) /\ Tail(t)[i - 1] = t[i]
<1>1. Len(t) \in Nat \ {0} /\ Head(t) = t[1] /\ Head(t) \in ClaimOps /\ Tail(t) \in Seq(ClaimOps)
  OBVIOUS
<1>2. Len(Tail(t)) = Len(t) - 1 /\ \A i \in 1..Len(t) - 1 : Tail(t)[i] = t[i + 1]
  OBVIOUS
<1>3. Tail(t) = <<>> => Len(t) = 1
  BY <1>1, <1>2
<1>4. Tail(t) # <<>> => Tail(t)[Len(Tail(t))] = t[Len(t)]
  <2> SUFFICES ASSUME Tail(t) # <<>> PROVE Tail(t)[Len(Tail(t))] = t[Len(t)]
    OBVIOUS
  <2>1. Len(t) - 1 \in 1..Len(t) - 1
    BY <1>1, <1>2
  <2> QED BY <1>1, <1>2, <2>1
<1>5. \A i \in DOMAIN t : i # 1 => i - 1 \in DOMAIN Tail(t) /\ Tail(t)[i - 1] = t[i]
  <2> SUFFICES ASSUME NEW i \in DOMAIN t, i # 1 PROVE i - 1 \in DOMAIN Tail(t) /\ Tail(t)[i - 1] = t[i]
    OBVIOUS
  <2>1. i \in 1..Len(t) /\ i - 1 \in 1..Len(t) - 1 /\ (i - 1) + 1 = i
    BY <1>1
  <2>2. DOMAIN Tail(t) = 1..Len(t) - 1
    BY <1>1, <1>2
  <2> QED BY <1>2, <2>1, <2>2
<1> QED BY <1>1, <1>3, <1>4, <1>5

LEMMA DemotionOK ==
  Demotion \in ClaimOps /\ Demotion.ports = {} /\ Demotion.by = "demotion"
BY DEF Demotion, ClaimOps

\* A demotion leaves a router in order, whatever it was before.
LEMMA DemotedRouterOK ==
  ASSUME NEW r \in Routers, NEW t \in Seq(ClaimOps), ~r.owns, r.stale, r.listeners = {}, r.retiring = {}
  PROVE  RouterOK(r, Append(t, Demotion))
BY AppendFacts, DemotionOK DEF RouterOK

\* So does an acquisition.
LEMMA OwningRouterOK ==
  ASSUME NEW r, NEW t, RouterOK(r, t), NEW q \in Routers, NEW u \in Seq(ClaimOps), q.owns,
         q.retiring \subseteq q.listeners, q.listeners \cap q.closing = {}
  PROVE  RouterOK(q, u)
BY DEF RouterOK

\* The fields the invariant does not look at.
Same(r, q) ==
  /\ q \in Routers
  /\ q.owns = r.owns /\ q.at = r.at /\ q.stale = r.stale /\ q.listeners = r.listeners
  /\ q.retiring = r.retiring /\ q.closing = r.closing /\ q.claims = r.claims /\ q.release = r.release
LEMMA SameOK ==
  ASSUME NEW r, NEW q, NEW t, RouterOK(r, t), Same(r, q)
  PROVE  RouterOK(q, t) /\ Held(q) = Held(r)
BY DEF RouterOK, Same, Held

\* releaseAll closes every listener.
LEMMA ReleaseAllOK ==
  ASSUME NEW r \in Routers
  PROVE  LET q == [releaseAll(r) EXCEPT !.owns = FALSE] IN
         /\ q \in Routers /\ ~q.owns /\ q.stale /\ q.listeners = {} /\ q.retiring = {}
         /\ Held(q) = Held(r) /\ q.release = r.release
<1>1. releaseAll(r) \in Routers
  BY DEF Routers, releaseAll
<1> QED BY <1>1 DEF Routers, releaseAll, Held

----------------------------------------------------------------------------
\* A step of one window after which it holds the ports H.
Reaches(w, H) ==
  /\ \E q \in Routers, t \in Seq(ClaimOps) :
       /\ RouterOK(q, t) /\ Held(q) = H
       /\ router' = [router EXCEPT ![w] = q] /\ tail' = [tail EXCEPT ![w] = t]
  /\ holder' \in Windows \cup {Nobody} /\ signal' \subseteq Windows
Advances(w) == Reaches(w, Held(router[w]))

\* The table of sockets.
LEMMA BoundFacts ==
  ASSUME RouterInv
  PROVE  /\ bound \in [Ports -> Windows \cup {Nobody}] /\ alive \subseteq Windows /\ Nobody \notin Windows
         /\ \A v \in alive, p \in Ports : bound[p] = v <=> p \in Held(router[v])
         /\ \A v \in Windows \ alive, p \in Ports : bound[p] # v
BY NobodyAssumption DEF RouterInv, RestOK, BoundOK
LEMMA BindFacts ==
  ASSUME RouterInv, NEW p \in Ports, NEW h \in Windows \cup {Nobody}, bound' = [bound EXCEPT ![p] = h]
  PROVE  /\ bound' \in [Ports -> Windows \cup {Nobody}] /\ bound'[p] = h
         /\ \A x \in Ports : x # p => bound'[x] = bound[x]
<1>1. bound \in [Ports -> Windows \cup {Nobody}]
  BY BoundFacts
<1> QED BY <1>1

LEMMA ReachesOK ==
  ASSUME RouterInv, NEW w \in Windows, NEW H, Reaches(w, H), UNCHANGED host,
         claim' \subseteq Ports, changed' \subseteq Windows, retry' \subseteq Windows,
         bound' \in [Ports -> Windows \cup {Nobody}],
         w \in alive => \A p \in Ports : bound'[p] = w <=> p \in H,
         \A v \in Windows, p \in Ports : v # w \/ v \notin alive => (bound'[p] = v <=> bound[p] = v)
  PROVE  RouterInv'
<1>1. PICK q \in Routers, t \in Seq(ClaimOps) :
        /\ RouterOK(q, t) /\ Held(q) = H
        /\ router' = [router EXCEPT ![w] = q] /\ tail' = [tail EXCEPT ![w] = t]
  BY DEF Reaches
<1>2. /\ router' \in [Windows -> Routers] /\ tail' \in [Windows -> Seq(ClaimOps)]
      /\ router'[w] = q /\ tail'[w] = t
      /\ \A v \in Windows : v # w => router'[v] = router[v] /\ tail'[v] = tail[v]
  BY <1>1 DEF RouterInv
<1>3. \A v \in Windows : RouterOK(router[v], tail[v])'
  BY <1>1, <1>2 DEF RouterInv
<1>5. RestOK'
  BY DEF RouterInv, RestOK, Reaches, host
<1>6. BoundOK'
  <2>1. alive' = alive /\ alive \subseteq Windows
    BY BoundFacts DEF host
  <2>2. ASSUME NEW v \in alive, NEW p \in Ports PROVE bound'[p] = v <=> p \in Held(router'[v])
    <3>1. CASE v = w
      BY <1>1, <1>2, <2>1, <3>1
    <3>2. CASE v # w
      <4>1. v \in Windows /\ router'[v] = router[v]
        BY <1>2, <2>1, <3>2
      <4>2. bound[p] = v <=> p \in Held(router[v])
        BY BoundFacts
      <4>3. bound'[p] = v <=> bound[p] = v
        BY <3>2, <4>1
      <4> QED BY <4>1, <4>2, <4>3
    <3> QED BY <3>1, <3>2
  <2>3. ASSUME NEW v \in Windows \ alive, NEW p \in Ports PROVE bound'[p] # v
    BY BoundFacts
  <2> QED BY <2>1, <2>2, <2>3 DEF BoundOK
<1> QED BY <1>2, <1>3, <1>5, <1>6 DEF RouterInv

LEMMA AdvancesOK ==
  ASSUME RouterInv, NEW w \in Windows, Advances(w), UNCHANGED <<bound, host>>,
         claim' \subseteq Ports, changed' \subseteq Windows, retry' \subseteq Windows
  PROVE  RouterInv'
<1>1. /\ bound' \in [Ports -> Windows \cup {Nobody}]
      /\ w \in alive => \A p \in Ports : bound'[p] = w <=> p \in Held(router[w])
      /\ \A v \in Windows, p \in Ports : v # w \/ v \notin alive => (bound'[p] = v <=> bound[p] = v)
  BY DEF RouterInv, BoundOK
<1> QED BY <1>1, ReachesOK DEF Advances

LEMMA AcquireTypes ==
  ASSUME RestOK, NEW w \in Windows, NEW ok, NEW left \in SUBSET Windows,
         tryAcquireLogicalRouterOwnerLease(w, ok, left)
  PROVE  holder' \in Windows \cup {Nobody} /\ signal' \subseteq Windows
BY DEF RestOK, tryAcquireLogicalRouterOwnerLease, Name

LEMMA RetainsTypes ==
  ASSUME RestOK, NEW w \in Windows, NEW current, NEW ok \in BOOLEAN,
         retainsLogicalRouterOwnership(w, current, ok)
  PROVE  /\ holder' \in Windows \cup {Nobody} /\ signal' \subseteq Windows
         /\ ok => router[w].owns /\ current
BY AcquireTypes DEF RestOK, retainsLogicalRouterOwnership

\* A demotion keeps the sockets it finds.
LEMMA DemoteReaches ==
  ASSUME RouterInv, NEW w \in Windows, NEW r \in Routers, demoteLogicalRouterOwner(w, r),
         holder' \in Windows \cup {Nobody}, signal' \subseteq Windows
  PROVE  Reaches(w, Held(r))
<1> DEFINE q == [releaseAll(r) EXCEPT !.owns = FALSE]
<1>1. q \in Routers /\ ~q.owns /\ q.stale /\ q.listeners = {} /\ q.retiring = {} /\ Held(q) = Held(r)
  BY ReleaseAllOK
<1>2. router' = [router EXCEPT ![w] = q] /\ tail' = [tail EXCEPT ![w] = Append(tail[w], Demotion)]
  BY DEF demoteLogicalRouterOwner, Only, syncGatewayClaimFiles, Demotion
<1> HIDE DEF q
<1>3. tail[w] \in Seq(ClaimOps)
  BY DEF RouterInv
<1>4. RouterOK(q, Append(tail[w], Demotion)) /\ Append(tail[w], Demotion) \in Seq(ClaimOps)
  BY <1>1, <1>3, DemotedRouterOK, AppendFacts, DemotionOK
<1> QED BY <1>1, <1>2, <1>4 DEF Reaches

LEMMA DemoteAdvances ==
  ASSUME RouterInv, NEW w \in Windows, NEW r \in Routers, Held(r) = Held(router[w]),
         demoteLogicalRouterOwner(w, r), holder' \in Windows \cup {Nobody}, signal' \subseteq Windows
  PROVE  Advances(w)
BY DemoteReaches DEF Advances

LEMMA ExclusiveAdvances ==
  ASSUME RouterInv, NEW w \in Windows, NEW r, Same(router[w], r), NEW left \in SUBSET Windows,
         syncLogicalPortRoutersExclusive(w, r, left)
  PROVE  Advances(w)
<1> DEFINE wanted == IF daemon THEN want ELSE r.claims
           begun == [r EXCEPT !.queued = FALSE, !.keep = ~daemon, !.want = wanted]
<1>0. /\ RestOK /\ RouterOK(router[w], tail[w]) /\ tail[w] \in Seq(ClaimOps)
      /\ RouterOK(r, tail[w]) /\ Held(r) = Held(router[w]) /\ r \in Routers
  BY SameOK DEF RouterInv, Same
<1>1. wanted \in SUBSET Ports /\ (~daemon) \in BOOLEAN
  BY <1>0 DEF RestOK, Routers
<1>2. PICK ok \in BOOLEAN :
        /\ tryAcquireLogicalRouterOwnerLease(w, ok, left)
        /\ IF ok THEN /\ Only(w, [begun EXCEPT !.owns = TRUE, !.stale = FALSE, !.step = "claims"])
                      /\ syncGatewayClaimFiles(w, begun.want, "sync")
                 ELSE demoteLogicalRouterOwner(w, [begun EXCEPT !.step = "demoting"])
  BY DEF syncLogicalPortRoutersExclusive
<1>3. holder' \in Windows \cup {Nobody} /\ signal' \subseteq Windows
  BY <1>0, <1>2, AcquireTypes
<1> HIDE DEF wanted
<1>4. Same(r, begun) /\ begun.want = wanted
  BY <1>0, <1>1 DEF Same, Routers
<1> HIDE DEF begun
<1>5. RouterOK(begun, tail[w]) /\ Held(begun) = Held(r) /\ begun \in Routers
  BY <1>0, <1>4, SameOK DEF Same
<1>6. CASE ok
  <2> DEFINE q == [begun EXCEPT !.owns = TRUE, !.stale = FALSE, !.step = "claims"]
             op == [ports |-> wanted, by |-> "sync"]
  <2>1. /\ q \in Routers /\ q.owns /\ Held(q) = Held(begun)
        /\ q.retiring \subseteq q.listeners /\ q.listeners \cap q.closing = {}
    BY <1>5 DEF RouterOK, Routers, Held
  <2>2. op \in ClaimOps
    BY <1>1 DEF ClaimOps
  <2>3. router' = [router EXCEPT ![w] = q] /\ tail' = [tail EXCEPT ![w] = Append(tail[w], op)]
    BY <1>2, <1>4, <1>6 DEF Only, syncGatewayClaimFiles
  <2> HIDE DEF q, op
  <2>4. Append(tail[w], op) \in Seq(ClaimOps)
    BY <1>0, <2>2, AppendFacts
  <2>5. RouterOK(q, Append(tail[w], op))
    BY <1>5, <2>1, <2>4, OwningRouterOK
  <2> QED BY <1>0, <1>3, <1>5, <2>1, <2>3, <2>4, <2>5 DEF Advances, Reaches
<1>7. CASE ~ok
  <2> DEFINE q == [begun EXCEPT !.step = "demoting"]
  <2>1. q \in Routers /\ Held(q) = Held(begun)
    BY <1>5 DEF Routers, Held
  <2>2. demoteLogicalRouterOwner(w, q)
    BY <1>2, <1>7
  <2> HIDE DEF q
  <2> QED BY <1>0, <1>3, <1>5, <2>1, <2>2, DemoteAdvances
<1> QED BY <1>6, <1>7

LEMMA SyncAdvances ==
  ASSUME RouterInv, NEW w \in Windows, NEW left \in SUBSET Windows,
         syncLogicalPortRouters(w, router[w], left)
  PROVE  Advances(w)
<1>0. /\ RestOK /\ router[w] \in Routers /\ tail[w] \in Seq(ClaimOps) /\ RouterOK(router[w], tail[w])
      /\ tail \in [Windows -> Seq(ClaimOps)]
  BY DEF RouterInv
<1>1. CASE router[w].step = "idle"
  BY <1>0, <1>1, ExclusiveAdvances DEF syncLogicalPortRouters, Same
<1>2. CASE router[w].step # "idle"
  <2> DEFINE q == [router[w] EXCEPT !.queued = TRUE]
  <2>1. Same(router[w], q)
    BY <1>0 DEF Same, Routers
  <2>2. /\ router' = [router EXCEPT ![w] = q] /\ tail' = tail /\ signal' = left /\ holder' = holder
    BY <1>2 DEF syncLogicalPortRouters, Only
  <2> HIDE DEF q
  <2>3. RouterOK(q, tail[w]) /\ Held(q) = Held(router[w]) /\ q \in Routers
    BY <1>0, <2>1, SameOK DEF Same
  <2>4. tail' = [tail EXCEPT ![w] = tail[w]]
    BY <1>0, <2>2
  <2> QED BY <1>0, <2>2, <2>3, <2>4 DEF Advances, Reaches, RestOK
<1> QED BY <1>1, <1>2

----------------------------------------------------------------------------
\* What a handler leaves alone.
LEMMA RestTypes ==
  ASSUME RouterInv
  PROVE  /\ RestOK /\ claim \subseteq Ports /\ changed \subseteq Windows /\ retry \subseteq Windows
         /\ signal \subseteq Windows /\ alive \subseteq Windows
         /\ tail \in [Windows -> Seq(ClaimOps)] /\ router \in [Windows -> Routers]
         /\ \A w \in Windows : /\ router[w] \in Routers /\ tail[w] \in Seq(ClaimOps)
                               /\ RouterOK(router[w], tail[w])
BY DEF RouterInv, RestOK

LEMMA IdleFields ==
  ASSUME NEW r \in Routers
  PROVE  Same(r, [r EXCEPT !.step = "idle"])
BY DEF Same, Routers

LEMMA QueuedOK ==
  ASSUME RouterInv, NEW w \in Windows, syncLogicalPortRoutersQueued(w)
  PROVE  RouterInv'
<1> DEFINE q == [router[w] EXCEPT !.step = "idle"]
<1>0. UNCHANGED <<host, bound, claim, changed, retry>>
  BY DEF syncLogicalPortRoutersQueued
<1>1. Same(router[w], q)
  BY RestTypes, IdleFields
<1>2. CASE router[w].queued
  <2>1. syncLogicalPortRoutersExclusive(w, q, signal)
    BY <1>2 DEF syncLogicalPortRoutersQueued
  <2> HIDE DEF q
  <2>2. Advances(w)
    BY <1>1, <2>1, RestTypes, ExclusiveAdvances
  <2> QED BY <1>0, <2>2, RestTypes, AdvancesOK
<1>3. CASE ~router[w].queued
  <2>1. router' = [router EXCEPT ![w] = q] /\ UNCHANGED <<holder, signal, tail>>
    BY <1>3 DEF syncLogicalPortRoutersQueued, Only
  <2> HIDE DEF q
  <2>2. RouterOK(q, tail[w]) /\ Held(q) = Held(router[w]) /\ q \in Routers
    BY <1>1, SameOK, RestTypes DEF Same
  <2>3. tail' = [tail EXCEPT ![w] = tail[w]]
    BY <2>1, RestTypes
  <2>4. Advances(w)
    BY <2>1, <2>2, <2>3, RestTypes DEF Advances, Reaches, RestOK
  <2> QED BY <1>0, <2>4, RestTypes, AdvancesOK
<1> QED BY <1>2, <1>3

LEMMA ReleasedFields ==
  ASSUME NEW r \in Routers
  PROVE  LET q == [r EXCEPT !.release = FALSE] IN
         /\ q \in Routers /\ q.owns = r.owns /\ q.retiring = r.retiring /\ q.claims = r.claims
         /\ q.listeners = r.listeners /\ q.closing = r.closing /\ q.at = r.at /\ q.stale = r.stale
BY DEF Routers

LEMMA ReleaseOK ==
  ASSUME RouterInv, NEW w \in Windows, releaseLogicalRouterOwnerLease(w)
  PROVE  RouterInv'
<1> DEFINE q == [router[w] EXCEPT !.release = FALSE]
<1>1. /\ router' = [router EXCEPT ![w] = q] /\ UNCHANGED <<host, bound, claim, changed, retry, tail>>
      /\ router[w].closing = {}
      /\ IF holder = w THEN holder' = Nobody /\ signal' = alive ELSE UNCHANGED <<holder, signal>>
  BY DEF releaseLogicalRouterOwnerLease, Only
<1>2. /\ q \in Routers /\ q.owns = router[w].owns /\ q.retiring = router[w].retiring /\ q.claims = router[w].claims
      /\ q.listeners = router[w].listeners /\ q.closing = router[w].closing
      /\ q.at = router[w].at /\ q.stale = router[w].stale
  BY RestTypes, ReleasedFields
<1> HIDE DEF q
<1>3. RouterOK(q, tail[w]) /\ Held(q) = Held(router[w])
  <2>1. RouterOK(router[w], tail[w])
    BY RestTypes
  <2> QED BY <1>1, <1>2, <2>1 DEF RouterOK, Held
<1>4. tail' = [tail EXCEPT ![w] = tail[w]]
  BY <1>1, RestTypes
<1>5. Advances(w)
  BY <1>1, <1>2, <1>3, <1>4, RestTypes DEF Advances, Reaches, RestOK
<1> QED BY <1>1, <1>5, RestTypes, AdvancesOK

LEMMA HeartbeatOK ==
  ASSUME RouterInv, NEW w \in Windows, refreshRouterLeaseHeartbeat(w)
  PROVE  RouterInv'
<1>0. UNCHANGED <<host, bound, claim, changed, retry>> /\ router[w].owns
  BY DEF refreshRouterLeaseHeartbeat
<1>1. CASE /\ retainsLogicalRouterOwnership(w, TRUE, TRUE)
           /\ syncGatewayClaimFiles(w, router[w].claims, "beat") /\ UNCHANGED router
  <2> DEFINE op == [ports |-> router[w].claims, by |-> "beat"]
  <2>1. op \in ClaimOps
    BY RestTypes DEF ClaimOps, Routers
  <2>2. tail' = [tail EXCEPT ![w] = Append(tail[w], op)] /\ router' = [router EXCEPT ![w] = router[w]]
    BY <1>1, RestTypes DEF syncGatewayClaimFiles
  <2> HIDE DEF op
  <2>3. Append(tail[w], op) \in Seq(ClaimOps)
    BY <2>1, RestTypes, AppendFacts
  <2>4. RouterOK(router[w], Append(tail[w], op))
    BY <1>0, <2>3, RestTypes DEF RouterOK
  <2>5. holder' \in Windows \cup {Nobody} /\ signal' \subseteq Windows
    BY <1>1, RestTypes, RetainsTypes
  <2>6. Advances(w)
    BY <2>2, <2>3, <2>4, <2>5, RestTypes DEF Advances, Reaches
  <2> QED BY <1>0, <2>6, RestTypes, AdvancesOK
<1>2. CASE retainsLogicalRouterOwnership(w, TRUE, FALSE) /\ demoteLogicalRouterOwner(w, router[w])
  <2>1. holder' \in Windows \cup {Nobody} /\ signal' \subseteq Windows
    BY <1>2, RestTypes, RetainsTypes
  <2>2. Advances(w)
    BY <1>2, <2>1, RestTypes, DemoteAdvances
  <2> QED BY <1>0, <2>2, RestTypes, AdvancesOK
<1> QED BY <1>1, <1>2 DEF refreshRouterLeaseHeartbeat

LEMMA SignalOK ==
  ASSUME RouterInv, NEW w \in Windows, refreshOwnerLeaseFromFileSignal(w)
  PROVE  RouterInv'
<1> DEFINE left == signal \ {w}
<1>0. UNCHANGED <<host, bound, claim, changed>> /\ left \in SUBSET Windows
  BY RestTypes DEF refreshOwnerLeaseFromFileSignal
<1>1. CASE demoteLogicalRouterOwner(w, router[w]) /\ signal' = left /\ UNCHANGED <<holder, retry>>
  <2>1. holder' \in Windows \cup {Nobody} /\ signal' \subseteq Windows
    BY <1>0, <1>1, RestTypes DEF RestOK
  <2>2. Advances(w)
    BY <1>1, <2>1, RestTypes, DemoteAdvances
  <2> QED BY <1>0, <1>1, <2>2, RestTypes, AdvancesOK
<1>2. CASE syncLogicalPortRouters(w, router[w], left) /\ retry' = retry \cup {w}
  <2>1. Advances(w)
    BY <1>0, <1>2, SyncAdvances
  <2> QED BY <1>0, <1>2, <2>1, RestTypes, AdvancesOK
<1>3. CASE signal' = left /\ UNCHANGED <<holder, router, tail, retry>>
  <2>1. router' = [router EXCEPT ![w] = router[w]] /\ tail' = [tail EXCEPT ![w] = tail[w]]
    BY <1>3, RestTypes
  <2>2. Advances(w)
    BY <1>0, <1>3, <2>1, RestTypes DEF Advances, Reaches, RestOK
  <2> QED BY <1>0, <1>3, <2>2, RestTypes, AdvancesOK
<1> QED BY <1>1, <1>2, <1>3 DEF refreshOwnerLeaseFromFileSignal

LEMMA TriggersOK ==
  ASSUME RouterInv, NEW w \in Windows, HandoffRetry(w) \/ ProcessChange(w) \/ RoutingLoop(w)
  PROVE  RouterInv'
<1>0. /\ UNCHANGED <<host, bound, claim>> /\ changed' \subseteq Windows /\ retry' \subseteq Windows
  BY RestTypes DEF HandoffRetry, ProcessChange, RoutingLoop
<1>1. CASE syncLogicalPortRouters(w, router[w], signal)
  <2>1. Advances(w)
    BY <1>1, RestTypes, SyncAdvances
  <2> QED BY <1>0, <2>1, RestTypes, AdvancesOK
<1>2. CASE UNCHANGED <<holder, signal, router, tail>>
  <2>1. router' = [router EXCEPT ![w] = router[w]] /\ tail' = [tail EXCEPT ![w] = tail[w]]
    BY <1>2, RestTypes
  <2>2. Advances(w)
    BY <1>2, <2>1, RestTypes DEF Advances, Reaches, RestOK
  <2> QED BY <1>0, <2>2, RestTypes, AdvancesOK
<1> QED BY <1>1, <1>2 DEF HandoffRetry, ProcessChange, RoutingLoop

\* The next port keeps the sockets and the owner.
LEMMA NextPortOK ==
  ASSUME NEW r \in Routers, NEW q \in NextPort(r)
  PROVE  /\ q \in Routers /\ q.owns = r.owns /\ q.retiring = r.retiring
         /\ q.listeners = r.listeners /\ q.closing = r.closing
<1>1. CASE r.todo = {}
  <2> DEFINE step == IF r.queued THEN "again" ELSE "idle"
  <2>1. q = [r EXCEPT !.step = step, !.at = {}, !.todo = {}]
    BY <1>1 DEF NextPort, Ended
  <2>2. step \in {"again", "idle"}
    OBVIOUS
  <2> HIDE DEF step
  <2> QED BY <2>1, <2>2 DEF Routers
<1>2. CASE r.todo # {}
  <2>1. PICK p \in r.todo : q = [r EXCEPT !.step = "open", !.todo = r.todo \ {p}, !.at = {p}]
    BY <1>2 DEF NextPort
  <2>2. p \in Ports /\ r.todo \ {p} \subseteq Ports
    BY DEF Routers
  <2> QED BY <2>1, <2>2 DEF Routers
<1> QED BY <1>1, <1>2

LEMMA SyncOK ==
  ASSUME NEW r \in Routers, r.retiring \subseteq r.listeners
  PROVE  LET q == sync(r) IN
         /\ q \in Routers /\ q.owns = r.owns /\ q.retiring \subseteq q.listeners
         /\ q.listeners = r.listeners /\ q.closing = r.closing
BY DEF sync, Routers

LEMMA ClaimFields ==
  ASSUME NEW r \in Routers, NEW P \in SUBSET Ports
  PROVE  LET q == [r EXCEPT !.claims = P] IN
         /\ q \in Routers /\ q.claims = P /\ q.owns = r.owns /\ q.retiring = r.retiring
         /\ q.listeners = r.listeners /\ q.closing = r.closing /\ q.at = r.at
         /\ q.stale = r.stale /\ q.release = r.release
BY DEF Routers

LEMMA DemotingFields ==
  ASSUME NEW r \in Routers
  PROVE  LET q == [releaseAll(r) EXCEPT !.owns = FALSE, !.step = "demoting"] IN
         /\ q \in Routers /\ ~q.owns /\ q.stale /\ q.listeners = {} /\ q.retiring = {}
         /\ Held(q) = Held(r)
<1> DEFINE k == [releaseAll(r) EXCEPT !.owns = FALSE]
<1>1. k \in Routers /\ ~k.owns /\ k.stale /\ k.listeners = {} /\ k.retiring = {} /\ Held(k) = Held(r)
  BY ReleaseAllOK
<1>2. [releaseAll(r) EXCEPT !.owns = FALSE, !.step = "demoting"] = [k EXCEPT !.step = "demoting"]
  BY DEF releaseAll, Routers
<1> HIDE DEF k
<1> QED BY <1>1, <1>2 DEF Routers, Held

LEMMA ClaimsOK ==
  ASSUME RouterInv, NEW w \in Windows, syncGatewayClaimFilesExclusive(w)
  PROVE  RouterInv'
<1> DEFINE op == Head(tail[w])
           r == [router[w] EXCEPT !.claims = op.ports]
           rest == Tail(tail[w])
<1>0. /\ UNCHANGED <<host, bound, changed, retry>> /\ tail[w] # <<>>
      /\ claim' = (claim \ (router[w].claims \ op.ports)) \cup op.ports
  BY DEF syncGatewayClaimFilesExclusive
<1>1. /\ op \in ClaimOps /\ rest \in Seq(ClaimOps) /\ op.ports \subseteq Ports
      /\ op.by \in {"sync", "beat", "demotion"}
  BY <1>0, RestTypes, TailFacts DEF ClaimOps
<1>2. claim' \subseteq Ports
  BY <1>0, <1>1, RestTypes
<1>3. /\ r \in Routers /\ r.claims = op.ports /\ r.owns = router[w].owns /\ r.retiring = router[w].retiring
      /\ r.listeners = router[w].listeners /\ r.closing = router[w].closing /\ r.at = router[w].at
      /\ r.stale = router[w].stale /\ r.release = router[w].release
  BY <1>1, RestTypes, ClaimFields
<1>4. /\ r.retiring \subseteq r.listeners /\ r.listeners \cap r.closing = {} /\ Held(r) = Held(router[w])
  BY <1>3, RestTypes DEF RouterOK, Held
<1>5. \/ /\ op.by # "sync"
         /\ Only(w, [r EXCEPT !.release = r.release \/ op.by = "demotion"])
         /\ tail' = [tail EXCEPT ![w] = rest]
         /\ UNCHANGED <<holder, signal>>
      \/ /\ retainsLogicalRouterOwnership(w, ~r.stale, TRUE)
         /\ \E s \in NextPort(sync(r)) : Only(w, s)
         /\ tail' = [tail EXCEPT ![w] = rest]
      \/ /\ retainsLogicalRouterOwnership(w, ~r.stale, FALSE)
         /\ Only(w, [releaseAll(r) EXCEPT !.owns = FALSE, !.step = "demoting"])
         /\ tail' = [tail EXCEPT ![w] = Append(rest, [ports |-> {}, by |-> "demotion"])]
  BY DEF syncGatewayClaimFilesExclusive
<1> HIDE DEF r
<1>6. CASE /\ Only(w, [r EXCEPT !.release = r.release \/ op.by = "demotion"])
           /\ tail' = [tail EXCEPT ![w] = rest] /\ UNCHANGED <<holder, signal>>
  <2> DEFINE ends == r.release \/ op.by = "demotion"
             q == [r EXCEPT !.release = ends]
  <2>1. ends \in BOOLEAN
    BY <1>3 DEF Routers
  <2> HIDE DEF ends
  <2>2. /\ q \in Routers /\ Held(q) = Held(r) /\ q.claims = r.claims /\ q.owns = r.owns
        /\ q.retiring = r.retiring /\ q.listeners = r.listeners /\ q.closing = r.closing
        /\ q.at = r.at /\ q.stale = r.stale /\ q.release = ends
    BY <1>3, <2>1 DEF Routers, Held
  <2>3. router' = [router EXCEPT ![w] = q]
    BY <1>6 DEF Only, ends
  <2> HIDE DEF q
  <2>4. ASSUME ~q.owns
        PROVE  /\ q.listeners = {} /\ (q.at # {} => q.stale)
               /\ q.closing # {} => q.release \/ \E i \in DOMAIN rest : rest[i].by = "demotion"
               /\ IF rest = <<>> THEN q.claims = {} ELSE rest[Len(rest)].ports = {}
    <3>1. /\ ~router[w].owns /\ router[w].listeners = {} /\ (router[w].at # {} => router[w].stale)
          /\ router[w].closing # {} => router[w].release \/ \E i \in DOMAIN tail[w] : tail[w][i].by = "demotion"
          /\ tail[w][Len(tail[w])].ports = {}
      BY <1>0, <1>3, <2>2, <2>4, RestTypes DEF RouterOK
    <3>2. q.closing # {} => q.release \/ \E i \in DOMAIN rest : rest[i].by = "demotion"
      <4> SUFFICES ASSUME q.closing # {}, ~q.release PROVE \E i \in DOMAIN rest : rest[i].by = "demotion"
        OBVIOUS
      <4>1. ~r.release /\ op.by # "demotion"
        BY <2>2 DEF ends
      <4>2. PICK i \in DOMAIN tail[w] : tail[w][i].by = "demotion"
        BY <1>3, <2>2, <3>1, <4>1
      <4>3. i # 1
        BY <1>0, <4>1, <4>2, RestTypes, TailFacts
      <4>4. i - 1 \in DOMAIN rest /\ rest[i - 1] = tail[w][i]
        BY <1>0, <4>3, RestTypes, TailFacts
      <4> QED BY <4>2, <4>4
    <3>3. IF rest = <<>> THEN q.claims = {} ELSE rest[Len(rest)].ports = {}
      <4>1. rest = <<>> => Len(tail[w]) = 1 /\ op = tail[w][1]
        BY <1>0, RestTypes, TailFacts
      <4>2. rest # <<>> => rest[Len(rest)] = tail[w][Len(tail[w])]
        BY <1>0, RestTypes, TailFacts
      <4> HIDE DEF rest, op
      <4> QED BY <1>3, <2>2, <3>1, <4>1, <4>2
    <3> QED BY <1>3, <2>2, <3>1, <3>2, <3>3
  <2> HIDE DEF rest, op
  <2>5. RouterOK(q, rest)
    BY <1>1, <1>4, <2>2, <2>4 DEF RouterOK
  <2>6. Advances(w)
    BY <1>1, <1>4, <1>6, <2>2, <2>3, <2>5, RestTypes DEF Advances, Reaches, RestOK
  <2> QED BY <1>0, <1>2, <2>6, RestTypes, AdvancesOK
<1> HIDE DEF rest, op
<1>7. CASE /\ retainsLogicalRouterOwnership(w, ~r.stale, TRUE)
           /\ \E s \in NextPort(sync(r)) : Only(w, s)
           /\ tail' = [tail EXCEPT ![w] = rest]
  <2>1. holder' \in Windows \cup {Nobody} /\ signal' \subseteq Windows /\ router[w].owns
    BY <1>7, RestTypes, RetainsTypes
  <2>2. PICK q \in NextPort(sync(r)) : router' = [router EXCEPT ![w] = q]
    BY <1>7 DEF Only
  <2>3. /\ sync(r) \in Routers /\ sync(r).owns /\ sync(r).retiring \subseteq sync(r).listeners
        /\ sync(r).listeners = r.listeners /\ sync(r).closing = r.closing
    BY <1>3, <1>4, <2>1, SyncOK
  <2>4. /\ q \in Routers /\ q.owns /\ q.retiring \subseteq q.listeners
        /\ q.listeners = r.listeners /\ q.closing = r.closing
    BY <2>3, NextPortOK
  <2>5. RouterOK(q, rest) /\ Held(q) = Held(router[w])
    BY <1>1, <1>4, <2>4 DEF RouterOK, Held
  <2>6. Advances(w)
    BY <1>1, <1>7, <2>1, <2>2, <2>4, <2>5 DEF Advances, Reaches
  <2> QED BY <1>0, <1>2, <2>6, RestTypes, AdvancesOK
<1>8. CASE /\ retainsLogicalRouterOwnership(w, ~r.stale, FALSE)
           /\ Only(w, [releaseAll(r) EXCEPT !.owns = FALSE, !.step = "demoting"])
           /\ tail' = [tail EXCEPT ![w] = Append(rest, [ports |-> {}, by |-> "demotion"])]
  <2> DEFINE q == [releaseAll(r) EXCEPT !.owns = FALSE, !.step = "demoting"]
  <2>1. holder' \in Windows \cup {Nobody} /\ signal' \subseteq Windows
    BY <1>8, RestTypes, RetainsTypes
  <2>3. /\ q \in Routers /\ ~q.owns /\ q.stale /\ q.listeners = {} /\ q.retiring = {} /\ Held(q) = Held(r)
    BY <1>3, DemotingFields
  <2>4. router' = [router EXCEPT ![w] = q] /\ tail' = [tail EXCEPT ![w] = Append(rest, Demotion)]
    BY <1>8 DEF Only, Demotion
  <2> HIDE DEF q
  <2>5. RouterOK(q, Append(rest, Demotion)) /\ Append(rest, Demotion) \in Seq(ClaimOps)
    BY <1>1, <2>3, DemotedRouterOK, AppendFacts, DemotionOK
  <2>6. Advances(w)
    BY <1>4, <2>1, <2>3, <2>4, <2>5 DEF Advances, Reaches
  <2> QED BY <1>0, <1>2, <2>6, RestTypes, AdvancesOK
<1> QED BY <1>5, <1>6, <1>7, <1>8

LEMMA EndedOK ==
  ASSUME NEW r \in Routers
  PROVE  LET q == Ended(r) IN
         /\ q \in Routers /\ q.owns = r.owns /\ q.retiring = r.retiring
         /\ q.listeners = r.listeners /\ q.closing = r.closing
<1> DEFINE step == IF r.queued THEN "again" ELSE "idle"
<1>1. Ended(r) = [r EXCEPT !.step = step, !.at = {}, !.todo = {}] /\ step \in {"again", "idle"}
  BY DEF Ended
<1> HIDE DEF step
<1> QED BY <1>1 DEF Routers

LEMMA OpenFields ==
  ASSUME NEW r \in Routers
  PROVE  /\ LET q == [r EXCEPT !.at = {}] IN
              /\ q \in Routers /\ q.owns = r.owns /\ q.stale = r.stale /\ q.retiring = r.retiring
              /\ q.listeners = r.listeners /\ q.closing = r.closing
         /\ LET q == [r EXCEPT !.step = "demoting", !.todo = {}] IN
              q \in Routers /\ q.listeners = r.listeners /\ q.closing = r.closing
BY DEF Routers
LEMMA ClosingFields ==
  ASSUME NEW r \in Routers, NEW P \in SUBSET Ports
  PROVE  LET q == [r EXCEPT !.closing = P] IN
         /\ q \in Routers /\ q.owns = r.owns /\ q.retiring = r.retiring /\ q.claims = r.claims
         /\ q.listeners = r.listeners /\ q.closing = P /\ q.at = r.at
         /\ q.stale = r.stale /\ q.release = r.release
BY DEF Routers
LEMMA ListenFields ==
  ASSUME NEW r \in Routers, NEW P \in SUBSET Ports
  PROVE  LET q == [r EXCEPT !.listeners = P] IN
         /\ q \in Routers /\ q.owns = r.owns /\ q.stale = r.stale /\ q.retiring = r.retiring
         /\ q.listeners = P /\ q.closing = r.closing
BY DEF Routers
LEMMA PortFields ==
  ASSUME NEW r \in Routers, NEW p \in Ports
  PROVE  /\ r.closing \cup {p} \in SUBSET Ports /\ r.listeners \cup {p} \in SUBSET Ports
         /\ r.closing \ {p} \in SUBSET Ports
BY DEF Routers

LEMMA OpenedOK ==
  ASSUME RouterInv, NEW w \in Windows, NEW p \in Ports, Opened(w, p)
  PROVE  RouterInv'
<1> DEFINE free == bound[p] = Nobody
           old == [router[w] EXCEPT !.at = {}]
           r == IF ~free THEN old
                ELSE IF old.stale THEN [old EXCEPT !.closing = old.closing \cup {p}]
                ELSE [old EXCEPT !.listeners = old.listeners \cup {p}]
<1>0. /\ UNCHANGED <<host, claim, retry>> /\ w \in alive /\ p \in router[w].at
      /\ IF free THEN bound' = [bound EXCEPT ![p] = w] /\ changed' = alive ELSE UNCHANGED <<bound, changed>>
  BY DEF Opened, Rescan
<1>1. \/ /\ ~r.stale /\ \E s \in NextPort(r) : Only(w, s)
         /\ UNCHANGED <<holder, signal, tail>>
      \/ /\ retainsLogicalRouterOwnership(w, ~r.stale, TRUE)
         /\ Only(w, Ended(r)) /\ UNCHANGED tail
      \/ /\ retainsLogicalRouterOwnership(w, ~r.stale, FALSE)
         /\ demoteLogicalRouterOwner(w, [r EXCEPT !.step = "demoting", !.todo = {}])
  BY DEF Opened
<1>2. /\ old \in Routers /\ old.owns = router[w].owns /\ old.stale = router[w].stale
      /\ old.listeners = router[w].listeners /\ old.closing = router[w].closing
      /\ old.retiring = router[w].retiring
  BY RestTypes, OpenFields
<1>3. /\ Nobody \notin Windows /\ alive \subseteq Windows
      /\ p \in Held(router[w]) <=> bound[p] = w
  BY <1>0, BoundFacts
<1>4. /\ old.retiring \subseteq old.listeners /\ old.listeners \cap old.closing = {}
      /\ free => p \notin old.listeners \cup old.closing
      /\ ~old.stale => old.owns
  BY <1>0, <1>2, <1>3, RestTypes DEF RouterOK, Held
<1> HIDE DEF old
<1>5. /\ r \in Routers /\ r.owns = old.owns /\ r.stale = old.stale
      /\ r.retiring \subseteq r.listeners /\ r.listeners \cap r.closing = {}
      /\ Held(r) = IF free THEN Held(router[w]) \cup {p} ELSE Held(router[w])
  <2>1. CASE ~free
    BY <1>2, <1>4, <2>1 DEF Held
  <2>2. CASE free /\ old.stale
    <3>1. r = [old EXCEPT !.closing = old.closing \cup {p}]
      BY <2>2
    <3>2. /\ r \in Routers /\ r.owns = old.owns /\ r.stale = old.stale /\ r.retiring = old.retiring
          /\ r.listeners = old.listeners /\ r.closing = old.closing \cup {p}
      <4>1. old.closing \cup {p} \in SUBSET Ports
        BY <1>2, PortFields
      <4> HIDE DEF r
      <4> QED BY <1>2, <3>1, <4>1, ClosingFields
    <3> HIDE DEF r
    <3> QED BY <1>2, <1>4, <2>2, <3>2 DEF Held
  <2>3. CASE free /\ ~old.stale
    <3>1. r = [old EXCEPT !.listeners = old.listeners \cup {p}]
      BY <2>3
    <3>2. /\ r \in Routers /\ r.owns = old.owns /\ r.stale = old.stale /\ r.retiring = old.retiring
          /\ r.listeners = old.listeners \cup {p} /\ r.closing = old.closing
      <4>1. old.listeners \cup {p} \in SUBSET Ports
        BY <1>2, PortFields
      <4> HIDE DEF r
      <4> QED BY <1>2, <3>1, <4>1, ListenFields
    <3> HIDE DEF r
    <3> QED BY <1>2, <1>4, <2>3, <3>2 DEF Held
  <2> QED BY <2>1, <2>2, <2>3
<1> HIDE DEF r
<1>6. Reaches(w, Held(r))
  <2>1. CASE ~r.stale /\ (\E s \in NextPort(r) : Only(w, s)) /\ UNCHANGED <<holder, signal, tail>>
    <3>1. PICK q \in NextPort(r) : router' = [router EXCEPT ![w] = q]
      BY <2>1 DEF Only
    <3>2. /\ q \in Routers /\ q.owns /\ q.retiring \subseteq q.listeners
          /\ q.listeners = r.listeners /\ q.closing = r.closing
      BY <1>4, <1>5, <2>1, NextPortOK
    <3>3. RouterOK(q, tail[w]) /\ Held(q) = Held(r) /\ tail' = [tail EXCEPT ![w] = tail[w]]
      BY <1>5, <2>1, <3>2, RestTypes DEF RouterOK, Held
    <3> QED BY <2>1, <3>1, <3>2, <3>3, RestTypes DEF Reaches, RestOK
  <2>2. CASE retainsLogicalRouterOwnership(w, ~r.stale, TRUE) /\ Only(w, Ended(r)) /\ UNCHANGED tail
    <3> DEFINE q == Ended(r)
    <3>1. holder' \in Windows \cup {Nobody} /\ signal' \subseteq Windows /\ router[w].owns
      BY <2>2, RestTypes, RetainsTypes
    <3>2. /\ q \in Routers /\ q.owns /\ q.retiring \subseteq q.listeners
          /\ q.listeners = r.listeners /\ q.closing = r.closing
      BY <1>2, <1>5, <3>1, EndedOK
    <3>3. router' = [router EXCEPT ![w] = q]
      BY <2>2 DEF Only
    <3> HIDE DEF q
    <3>4. RouterOK(q, tail[w]) /\ Held(q) = Held(r) /\ tail' = [tail EXCEPT ![w] = tail[w]]
      BY <1>5, <2>2, <3>2, RestTypes DEF RouterOK, Held
    <3> QED BY <3>1, <3>2, <3>3, <3>4, RestTypes DEF Reaches
  <2>3. CASE /\ retainsLogicalRouterOwnership(w, ~r.stale, FALSE)
             /\ demoteLogicalRouterOwner(w, [r EXCEPT !.step = "demoting", !.todo = {}])
    <3> DEFINE q == [r EXCEPT !.step = "demoting", !.todo = {}]
    <3>1. holder' \in Windows \cup {Nobody} /\ signal' \subseteq Windows
      BY <2>3, RestTypes, RetainsTypes
    <3>2. q \in Routers /\ Held(q) = Held(r)
      BY <1>5, OpenFields DEF Held
    <3>3. demoteLogicalRouterOwner(w, q)
      BY <2>3
    <3> HIDE DEF q
    <3>4. Reaches(w, Held(q))
      BY <3>1, <3>2, <3>3, DemoteReaches
    <3> QED BY <3>2, <3>4
  <2> QED BY <1>1, <2>1, <2>2, <2>3
<1>7. /\ bound' \in [Ports -> Windows \cup {Nobody}]
      /\ \A x \in Ports : bound'[x] = w <=> x \in Held(r)
      /\ \A v \in Windows, x \in Ports : v # w \/ v \notin alive => (bound'[x] = v <=> bound[x] = v)
  <2>1. \A x \in Ports : bound[x] = w <=> x \in Held(router[w])
    BY <1>0, BoundFacts
  <2>2. CASE free
    <3>1. /\ bound' \in [Ports -> Windows \cup {Nobody}] /\ bound'[p] = w
          /\ \A x \in Ports : x # p => bound'[x] = bound[x]
      BY <1>0, <2>2, BindFacts
    <3>2. Held(r) = Held(router[w]) \cup {p}
      BY <1>5, <2>2
    <3>3. \A x \in Ports : bound'[x] = w <=> x \in Held(r)
      BY <2>1, <3>1, <3>2
    <3>4. ASSUME NEW v \in Windows, NEW x \in Ports, v # w PROVE bound'[x] = v <=> bound[x] = v
      BY <1>3, <2>2, <3>1, <3>4
    <3> QED BY <1>0, <3>1, <3>3, <3>4
  <2>3. CASE ~free
    BY <1>0, <1>5, <2>1, <2>3, BoundFacts
  <2> QED BY <2>2, <2>3
<1>8. claim' \subseteq Ports /\ changed' \subseteq Windows /\ retry' \subseteq Windows
  BY <1>0, RestTypes
<1> QED BY <1>0, <1>6, <1>7, <1>8, ReachesOK

LEMMA RetireOK ==
  ASSUME RouterInv, NEW w \in Windows, NEW p \in Ports, Retire(w, p)
  PROVE  RouterInv'
<1> DEFINE r == router[w]
           q == [r EXCEPT !.retiring = r.retiring \ {p}, !.listeners = r.listeners \ {p},
                          !.closing = r.closing \cup {p}]
<1>1. /\ UNCHANGED <<host, holder, signal, tail, bound, claim, changed, retry>>
      /\ p \in r.retiring /\ router' = [router EXCEPT ![w] = q]
  BY DEF Retire, Only
<1>2. r \in Routers /\ RouterOK(r, tail[w])
  BY RestTypes
<1>3. /\ q \in Routers /\ q.owns = r.owns /\ q.retiring = r.retiring \ {p}
      /\ q.listeners = r.listeners \ {p} /\ q.closing = r.closing \cup {p}
  BY <1>2 DEF Routers
<1>4. p \in r.listeners /\ r.owns /\ r.retiring \subseteq r.listeners /\ r.listeners \cap r.closing = {}
  BY <1>1, <1>2 DEF RouterOK
<1> HIDE DEF q, r
<1>5. Held(q) = Held(r) /\ RouterOK(q, tail[w])
  BY <1>2, <1>3, <1>4 DEF Held, RouterOK
<1>6. Advances(w)
  <2>1. tail' = [tail EXCEPT ![w] = tail[w]]
    BY <1>1, RestTypes
  <2> QED BY <1>1, <1>3, <1>5, <2>1, RestTypes DEF Advances, Reaches, RestOK, r
<1> QED BY <1>1, <1>6, RestTypes, AdvancesOK

LEMMA ClosedOK ==
  ASSUME RouterInv, NEW w \in Windows, NEW p \in Ports, Closed(w, p)
  PROVE  RouterInv'
<1> DEFINE r == router[w]
           q == [r EXCEPT !.closing = r.closing \ {p}]
<1>1. /\ UNCHANGED <<host, holder, signal, tail, claim, retry>> /\ w \in alive
      /\ p \in r.closing /\ router' = [router EXCEPT ![w] = q]
      /\ bound' = [bound EXCEPT ![p] = Nobody] /\ changed' = alive
  BY DEF Closed, Only, Rescan
<1>2. r \in Routers /\ RouterOK(r, tail[w]) /\ tail[w] \in Seq(ClaimOps)
  BY RestTypes
<1>3. /\ q \in Routers /\ q.owns = r.owns /\ q.retiring = r.retiring /\ q.claims = r.claims
      /\ q.listeners = r.listeners /\ q.closing = r.closing \ {p} /\ q.at = r.at
      /\ q.stale = r.stale /\ q.release = r.release
  BY <1>2, ClosingFields, PortFields
<1>4. Nobody \notin Windows
  BY NobodyAssumption
<1>5. \A x \in Ports : bound[x] = w <=> x \in Held(r)
  BY <1>1, BoundFacts
<1> HIDE DEF q, r
<1>6. Held(q) = Held(r) \ {p} /\ RouterOK(q, tail[w])
  BY <1>1, <1>2, <1>3 DEF Held, RouterOK
<1>7. Reaches(w, Held(q))
  <2>1. tail' = [tail EXCEPT ![w] = tail[w]]
    BY <1>1, RestTypes
  <2> QED BY <1>1, <1>2, <1>3, <1>6, <2>1, RestTypes DEF Reaches, RestOK
<1>8. bound[p] = w
  BY <1>1, <1>5 DEF Held
<1>9. /\ bound' \in [Ports -> Windows \cup {Nobody}]
      /\ \A x \in Ports : bound'[x] = w <=> x \in Held(q)
      /\ \A v \in Windows, x \in Ports : v # w \/ v \notin alive => (bound'[x] = v <=> bound[x] = v)
  <2>1. /\ bound' \in [Ports -> Windows \cup {Nobody}] /\ bound'[p] = Nobody
        /\ \A x \in Ports : x # p => bound'[x] = bound[x]
    BY <1>1, BindFacts
  <2>2. \A x \in Ports : bound'[x] = w <=> x \in Held(q)
    BY <1>4, <1>5, <1>6, <2>1
  <2>3. ASSUME NEW v \in Windows, NEW x \in Ports, v # w PROVE bound'[x] = v <=> bound[x] = v
    BY <1>4, <1>8, <2>1, <2>3
  <2> QED BY <1>1, <2>1, <2>2, <2>3
<1>10. claim' \subseteq Ports /\ changed' \subseteq Windows /\ retry' \subseteq Windows
  BY <1>1, RestTypes
<1> QED BY <1>1, <1>7, <1>9, <1>10, ReachesOK

LEMMA AtRestOK ==
  ASSUME NEW P \in SUBSET Ports
  PROVE  /\ AtRest(P) \in Routers /\ RouterOK(AtRest(P), <<>>) /\ Held(AtRest(P)) = P
<1>1. (P # {}) \in BOOLEAN
  OBVIOUS
<1>2. AtRest(P) \in Routers
  BY <1>1 DEF AtRest, Routers
<1>3. <<>> \in Seq(ClaimOps)
  OBVIOUS
<1> QED BY <1>2, <1>3 DEF AtRest, RouterOK, Held

LEMMA CrashOK ==
  ASSUME RouterInv, NEW w \in Windows, Crash(w)
  PROVE  RouterInv'
<1> DEFINE q == AtRest({})
<1>1. q \in Routers /\ RouterOK(q, <<>>)
  BY AtRestOK
<1>2. /\ router' = [router EXCEPT ![w] = q] /\ tail' = [tail EXCEPT ![w] = <<>>]
      /\ bound' = [p \in Ports |-> IF bound[p] = w THEN Nobody ELSE bound[p]]
      /\ alive' = alive \ {w} /\ signal' = signal \ {w} /\ retry' = retry \ {w} /\ changed' = alive \ {w}
      /\ UNCHANGED <<want, daemon, control, holder, claim>>
  BY DEF Crash
<1> HIDE DEF q
<1>3. /\ router' \in [Windows -> Routers] /\ tail' \in [Windows -> Seq(ClaimOps)]
      /\ router'[w] = q /\ tail'[w] = <<>>
      /\ \A v \in Windows : v # w => router'[v] = router[v] /\ tail'[v] = tail[v]
  <2>1. <<>> \in Seq(ClaimOps)
    OBVIOUS
  <2> QED BY <1>1, <1>2, <2>1 DEF RouterInv
<1>4. \A v \in Windows : RouterOK(router[v], tail[v])'
  BY <1>1, <1>3 DEF RouterInv
<1>5. RestOK'
  BY <1>2 DEF RouterInv, RestOK
<1>6. BoundOK'
  <2>1. Nobody \notin Windows /\ alive \subseteq Windows /\ bound \in [Ports -> Windows \cup {Nobody}]
    BY BoundFacts
  <2>2. bound' \in [Ports -> Windows \cup {Nobody}]
    BY <1>2, <2>1
  <2>7. \A p \in Ports : bound'[p] = IF bound[p] = w THEN Nobody ELSE bound[p]
    BY <1>2
  <2>3. \A v \in Windows, p \in Ports : v # w => (bound'[p] = v <=> bound[p] = v)
    BY <2>1, <2>7
  <2>4. \A p \in Ports : bound'[p] # w
    BY <2>1, <2>7
  <2>5. ASSUME NEW v \in alive', NEW p \in Ports PROVE bound'[p] = v <=> p \in Held(router'[v])
    <3>1. v \in alive /\ v \in Windows /\ v # w /\ router'[v] = router[v]
      BY <1>2, <1>3, <2>1
    <3>2. bound[p] = v <=> p \in Held(router[v])
      BY <3>1, BoundFacts
    <3> QED BY <2>3, <3>1, <3>2
  <2>6. ASSUME NEW v \in Windows \ alive', NEW p \in Ports PROVE bound'[p] # v
    <3>1. v = w \/ v \in Windows \ alive
      BY <1>2
    <3> QED BY <2>3, <2>4, <3>1, BoundFacts
  <2> QED BY <2>2, <2>5, <2>6 DEF BoundOK
<1> QED BY <1>3, <1>4, <1>5, <1>6 DEF RouterInv

LEMMA EnvironmentOK ==
  ASSUME RouterInv, DaemonChanges \/ DaemonReturns \/ \E p \in Ports : ClaimExpires(p)
  PROVE  RouterInv'
<1>1. UNCHANGED <<alive, control, holder, signal, router, tail, bound, retry>>
  BY DEF DaemonChanges, DaemonReturns, ClaimExpires, host
<1>2. want' \subseteq Ports /\ daemon' \in BOOLEAN /\ claim' \subseteq Ports /\ changed' \subseteq Windows
  BY DEF RouterInv, RestOK, DaemonChanges, DaemonReturns, ClaimExpires, host, Rescan
<1>3. RestOK'
  BY <1>1, <1>2 DEF RouterInv, RestOK
<1>4. BoundOK'
  BY <1>1 DEF RouterInv, BoundOK
<1> QED BY <1>1, <1>3, <1>4 DEF RouterInv

LEMMA RouterNextOK ==
  ASSUME RouterInv, [RouterNext]_routerVars
  PROVE  RouterInv'
<1>1. ASSUME NEW w \in Windows,
             syncGatewayClaimFilesExclusive(w) \/ Continue(w) \/ Timers(w) \/ Events(w) \/ Crash(w)
      PROVE  RouterInv'
  BY <1>1, ClaimsOK, OpenedOK, ClosedOK, QueuedOK, ReleaseOK, HeartbeatOK, TriggersOK, RetireOK, SignalOK,
     CrashOK DEF Continue, Timers, Events
<1>2. CASE UNCHANGED routerVars
  BY <1>2 DEF routerVars, host, RouterInv, RestOK, BoundOK
<1> QED BY <1>1, <1>2, EnvironmentOK DEF RouterNext

----------------------------------------------------------------------------
(* The types of the control plane *)

WokenOK == woken \subseteq open /\ lost \in BOOLEAN
LEMMA WokenNextOK ==
  ASSUME WokenOK, [ControlNext]_controlVars
  PROVE  WokenOK'
<1>1. ASSUME NEW w \in Windows, LeaseWork(w) \/ ((Truncate(w) \/ FailWrite(w)) /\ UNCHANGED <<plane, lost>>)
      PROVE  WokenOK'
  BY <1>1 DEF WokenOK, LeaseWork, LeaseStep, ReadOwner, Lock, removeStaleControlPlaneOwnerLock, CheckOwner,
     writeControlPlaneOwnerLease, ReadBeforeRelease, releaseControlPlaneOwnerLease, Truncate, FailWrite, Put
<1>2. ASSUME NEW w \in Windows, Results(w) PROVE WokenOK'
  <2>1. woken' \subseteq open'
    BY <1>2 DEF WokenOK, Results, Demoted, startControlPlaneOwnerIfAvailableExclusive, Beaten,
       refreshRoutingSignalsExclusive, Taken, Exit, files
  <2>2. lost' \in BOOLEAN
    BY <1>2 DEF WokenOK, Results, Demoted, startControlPlaneOwnerIfAvailableExclusive, Beaten,
       refreshRoutingSignalsExclusive, Taken, Exit, startControlPlaneOwnerIfAvailable
  <2> QED BY <2>1, <2>2 DEF WokenOK
<1>3. ASSUME NEW w \in Windows, Visits(w) PROVE WokenOK'
  <2>1. woken' \subseteq open'
    BY <1>3 DEF WokenOK, Visits, Command, runControlPlaneRegistrySideEffects, takeControlPlaneOwnership,
       OpenWindow, dispose, KillWindow, files
  <2>2. lost' \in BOOLEAN
    BY <1>3 DEF WokenOK, Visits, Command, runControlPlaneRegistrySideEffects, takeControlPlaneOwnership,
       OpenWindow, dispose, KillWindow, startControlPlaneOwnerIfAvailable
  <2> QED BY <2>1, <2>2 DEF WokenOK
<1>4. ASSUME NEW w \in Windows,
             \/ Startup(w) \/ refreshControlLeaseHeartbeat(w) \/ refreshRoutingSignals(w) \/ RefreshEnds(w)
             \/ scheduleNextTerminalAttachmentMarkerPoll(w)
      PROVE  WokenOK'
  BY <1>4 DEF WokenOK, Startup, startControlPlaneOwnerWatchers, startControlPlaneOwnerServices,
     refreshControlLeaseHeartbeat, refreshRoutingSignals, RefreshEnds,
     scheduleNextTerminalAttachmentMarkerPoll, leaseVars, files
<1>5. ASSUME NEW w \in Windows, refreshControlOwnerFromFileSignal(w) PROVE WokenOK'
  <2>1. woken' \subseteq open'
    BY <1>5 DEF WokenOK, refreshControlOwnerFromFileSignal, files
  <2>2. lost' \in BOOLEAN
    BY <1>5 DEF WokenOK, refreshControlOwnerFromFileSignal, startControlPlaneOwnerIfAvailable
  <2> QED BY <2>1, <2>2 DEF WokenOK
<1>6. CASE (LeaseAges \/ LockAges) /\ UNCHANGED <<plane, lost>>
  BY <1>6 DEF WokenOK, LeaseAges, LockAges
<1>7. CASE UNCHANGED controlVars
  BY <1>7 DEF WokenOK, controlVars, leaseVars
<1> QED BY <1>1, <1>2, <1>3, <1>4, <1>5, <1>6, <1>7 DEF ControlNext

----------------------------------------------------------------------------
(* Both roles *)

RouterStarts ==
  {s \in [alive : SUBSET Windows, router : Windows \cup {Nobody}, control : SUBSET Windows,
          want : SUBSET Ports, overlaps : Nat,
          faults : [slips : Nat, writes : Nat, crashes : Nat, daemon : Nat]] :
     s.router \in s.alive \cup {Nobody}}
FirstPorts(s, w) == IF w = s.router THEN s.want ELSE {}
LEMMA RouterInitOK ==
  ASSUME NEW s \in RouterStarts, RouterInit(s)
  PROVE  RouterInv
<1>1. /\ s.alive \subseteq Windows /\ s.control \subseteq Windows /\ s.want \subseteq Ports
      /\ s.router \in s.alive \cup {Nobody} /\ Nobody \notin Windows
  BY NobodyAssumption DEF RouterStarts
<1>2. RestOK
  BY <1>1 DEF RouterInit, RestOK
<1>3. \A w \in Windows : FirstPorts(s, w) \in SUBSET Ports
  BY <1>1 DEF FirstPorts
<1>4. /\ router \in [Windows -> Routers] /\ tail \in [Windows -> Seq(ClaimOps)]
      /\ \A w \in Windows : router[w] = AtRest(FirstPorts(s, w)) /\ tail[w] = <<>>
  <2>1. \A w \in Windows : AtRest(FirstPorts(s, w)) \in Routers
    BY <1>3, AtRestOK, Zenon
  <2>2. router = [w \in Windows |-> AtRest(FirstPorts(s, w))]
    BY DEF RouterInit, FirstPorts
  <2>3. tail = [w \in Windows |-> <<>>]
    BY DEF RouterInit
  <2>4. <<>> \in Seq(ClaimOps)
    OBVIOUS
  <2>5. router \in [Windows -> Routers] /\ \A w \in Windows : router[w] = AtRest(FirstPorts(s, w))
    BY <2>1, <2>2
  <2> QED BY <2>3, <2>4, <2>5
<1>5. \A w \in Windows : /\ AtRest(FirstPorts(s, w)) \in Routers /\ RouterOK(AtRest(FirstPorts(s, w)), <<>>)
                         /\ Held(AtRest(FirstPorts(s, w))) = FirstPorts(s, w)
  BY <1>3, AtRestOK, Zenon
<1>6. BoundOK
  <2>1. bound = [p \in Ports |-> IF p \in s.want THEN s.router ELSE Nobody] /\ alive = s.alive
    BY DEF RouterInit
  <2>2. ASSUME NEW w \in Windows, NEW p \in Ports PROVE bound[p] = w <=> p \in FirstPorts(s, w)
    BY <1>1, <2>1 DEF FirstPorts
  <2>3. \A w \in Windows : Held(router[w]) = FirstPorts(s, w)
    BY <1>4, <1>5, Zenon
  <2>4. \A w \in Windows \ alive : FirstPorts(s, w) = {}
    BY <1>1, <2>1 DEF FirstPorts
  <2>5. bound \in [Ports -> Windows \cup {Nobody}] /\ alive \subseteq Windows
    BY <1>1, <2>1
  <2>6. ASSUME NEW w \in alive, NEW p \in Ports PROVE bound[p] = w <=> p \in Held(router[w])
    BY <2>2, <2>3, <2>5
  <2>7. ASSUME NEW w \in Windows \ alive, NEW p \in Ports PROVE bound[p] # w
    BY <2>2, <2>4
  <2> QED BY <2>5, <2>6, <2>7 DEF BoundOK
<1>7. \A w \in Windows : RouterOK(router[w], tail[w])
  BY <1>4, <1>5, Zenon
<1> QED BY <1>2, <1>4, <1>6, <1>7 DEF RouterInv

LEMMA RouterInvIdle ==
  ASSUME RouterInv
  PROVE  RouterTypeOK /\ DemotedWindowIsEmpty
<1>1. RouterTypeOK
  <2>1. \A w \in Windows : \A i \in DOMAIN tail[w] : tail[w][i] \in ClaimOps
    BY RestTypes
  <2> QED BY <2>1, RestTypes DEF RouterInv, RestOK, BoundOK, Held, RouterTypeOK
<1>2. ASSUME NEW w \in Windows, ~router[w].owns, ~router[w].release, tail[w] = <<>>
      PROVE  /\ router[w].listeners = {} /\ router[w].closing = {} /\ router[w].retiring = {}
             /\ router[w].claims = {} /\ \A p \in Ports : bound[p] # w
  <2>1. /\ router[w].listeners = {} /\ router[w].closing = {} /\ router[w].retiring = {}
        /\ router[w].claims = {}
    <3>1. RouterOK(router[w], tail[w])
      BY RestTypes
    <3>2. /\ router[w].retiring \subseteq router[w].listeners /\ router[w].listeners = {}
          /\ router[w].claims = {}
      BY <1>2, <3>1 DEF RouterOK
    <3>3. router[w].closing = {}
      <4>1. DOMAIN tail[w] = {}
        BY <1>2
      <4>2. router[w].closing # {} => \E i \in DOMAIN tail[w] : tail[w][i].by = "demotion"
        BY <1>2, <3>1 DEF RouterOK
      <4> QED BY <4>1, <4>2
    <3> QED BY <3>2, <3>3
  <2>2. Held(router[w]) = {}
    BY <2>1 DEF Held
  <2> QED BY <2>1, <2>2 DEF RouterInv, BoundOK
<1> QED BY <1>1, <1>2 DEF DemotedWindowIsEmpty

LEMMA ControlTypes ==
  ASSUME IInv, PlanesOK, WokenOK
  PROVE  ControlTypeOK /\ LoopRunsInOwner
BY DEF IInv, TypesOK, PlanesOK, WokenOK, ControlTypeOK, LeaseTypeOK, CallType

\* A window that does not own the routers and has nothing left to do holds no listener, socket,
\* timer or claim (demoteLogicalRouterOwner), and no owner's loop is armed in a demoted window
\* (demoteControlPlaneOwner): for any windows and ports, however reconciliation, heartbeat,
\* signals, crashes and lost leases interleave.
THEOREM DemotedWindowsIdle ==
  ASSUME NEW s \in RouterStarts, NEW c \in Scenes
  PROVE  RouterInit(s) /\ ControlInit(c) /\ [][OwnersNext]_ownerVars => []DemotedWindowIsIdle
<1> DEFINE Inv == RouterInv /\ IInv /\ PlanesOK /\ WokenOK
<1>1. RouterInit(s) /\ ControlInit(c) => Inv
  <2> SUFFICES ASSUME RouterInit(s), ControlInit(c) PROVE Inv
    OBVIOUS
  <2>1. RouterInv /\ IInv /\ PlanesOK
    BY RouterInitOK, InitOK, PlanesInit
  <2>2. WokenOK
    BY DEF ControlInit, WokenOK
  <2> QED BY <2>1, <2>2
<1>2. Inv /\ [OwnersNext]_ownerVars => Inv'
  <2> SUFFICES ASSUME Inv, [OwnersNext]_ownerVars PROVE Inv'
    OBVIOUS
  <2>1. [RouterNext]_routerVars /\ [ControlNext]_controlVars
    BY DEF OwnersNext, Either, ownerVars
  <2> QED BY <2>1, RouterNextOK, NextOK, LoopNextOK, WokenNextOK
<1>3. Inv => DemotedWindowIsIdle
  BY RouterInvIdle, ControlTypes DEF DemotedWindowIsIdle
<1> QED BY <1>1, <1>2, <1>3, PTL
=============================================================================
