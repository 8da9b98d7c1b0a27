----------------------- MODULE RouteAllocationProofs -----------------------
(***************************************************************************)
(* No two reservations share an endpoint, for any clients, ports, hosts and *)
(* candidate sequences.                                                     *)
(*                                                                          *)
(* PendingExclusive is not inductive: that Probe adds a reservation nobody  *)
(* else holds rests on checks made in earlier segments of the same request. *)
(* The strengthening Claim says what stays true between them because the    *)
(* exclusive queue lets no other request add a reservation.                 *)
(***************************************************************************)
EXTENDS RouteAllocation, SequenceTheorems, TLAPS

Conflict(a, b) ==
  \/ <<a.net, a.port>> = <<b.net, b.port>>
  \/ a.actual = b.actual /\ HostMatches(a.host, b.host)

Exclusive(ps) == \A a, b \in ps : Conflict(a, b) => a = b

\* Every reservation of qs was one of ps, but for its freshness.
From(qs, ps) ==
  \A b \in qs : \E a \in ps :
    a.net = b.net /\ a.port = b.port /\ a.actual = b.actual /\ a.host = b.host

Working == stage.pc \in {"same", "pick", "probe"}

Claim ==
  /\ Working => /\ queue # <<>> /\ Head(queue).what = "allocate"
                /\ PendingFor(pending, Who) = {}
  /\ stage.pc = "probe" =>
       /\ stage.at \in DOMAIN Candidates[Who]
       /\ \A a \in pending :
            ~(a.actual = Candidates[Who][stage.at] /\ HostMatches(a.host, Host[Who]))

QueueOK ==
  /\ queue \in Seq(Request) /\ lastId \in Nat
  /\ stage = [pc |-> stage.pc, at |-> stage.at, seen |-> stage.seen] /\ stage.at \in Nat \ {0}

ClientOK ==
  /\ DOMAIN client = Clients
  /\ \A c \in Clients : /\ DOMAIN client[c] = {"pc", "alloc", "actual", "asks"}
                        /\ client[c].alloc \in Nat \cup {None}

IInv == QueueOK /\ ClientOK /\ pending \subseteq Reservation /\ Exclusive(pending) /\ Claim

\* Only `fresh` changes when a reservation expires or is renewed.
LEMMA Renewed ==
  ASSUME NEW a \in Reservation, NEW v \in BOOLEAN, NEW b, b = [a EXCEPT !.fresh = v]
  PROVE  /\ b \in Reservation
         /\ b.net = a.net /\ b.port = a.port /\ b.actual = a.actual /\ b.host = a.host
BY DEF Reservation

\* cleanupExpiredRouteAllocations only drops and renews.
LEMMA CleanedExclusive ==
  ASSUME NEW ps, ps \subseteq Reservation, Exclusive(ps), NEW ls
  PROVE  /\ Cleaned(ps, ls) \subseteq Reservation
         /\ Exclusive(Cleaned(ps, ls)) /\ From(Cleaned(ps, ls), ps)
<1> DEFINE qs == Cleaned(ps, ls)
<1>1. \A b \in qs : \E a \in ps : b = [a EXCEPT !.fresh = TRUE]
  BY DEF Cleaned
<1>2. \A b \in qs : \E a \in ps :
        /\ b = [a EXCEPT !.fresh = TRUE] /\ b \in Reservation
        /\ b.net = a.net /\ b.port = a.port /\ b.actual = a.actual /\ b.host = a.host
  <2> SUFFICES ASSUME NEW b \in qs
               PROVE  \E a \in ps :
                        /\ b = [a EXCEPT !.fresh = TRUE] /\ b \in Reservation
                        /\ b.net = a.net /\ b.port = a.port /\ b.actual = a.actual /\ b.host = a.host
    OBVIOUS
  <2> PICK a \in ps : b = [a EXCEPT !.fresh = TRUE]
    BY <1>1
  <2>1. /\ b \in Reservation
        /\ b.net = a.net /\ b.port = a.port /\ b.actual = a.actual /\ b.host = a.host
    BY Renewed
  <2> QED BY <2>1
<1> HIDE DEF qs
<1>3. Exclusive(qs)
  <2> SUFFICES ASSUME NEW b \in qs, NEW d \in qs, Conflict(b, d) PROVE b = d
    BY DEF Exclusive
  <2> PICK a \in ps : /\ b = [a EXCEPT !.fresh = TRUE] /\ b.net = a.net
                      /\ b.port = a.port /\ b.actual = a.actual /\ b.host = a.host
    BY <1>2
  <2> PICK c \in ps : /\ d = [c EXCEPT !.fresh = TRUE] /\ d.net = c.net
                      /\ d.port = c.port /\ d.actual = c.actual /\ d.host = c.host
    BY <1>2
  <2>1. Conflict(a, c)
    BY DEF Conflict
  <2>2. a = c
    BY <2>1 DEF Exclusive
  <2> QED BY <2>2
<1>4. From(qs, ps) /\ qs \subseteq Reservation
  BY <1>2 DEF From
<1> QED BY <1>3, <1>4 DEF qs

\* A reservation that expires is still the only one of its endpoints.
LEMMA ExpiredExclusive ==
  ASSUME NEW ps, ps \subseteq Reservation, Exclusive(ps), NEW a \in ps,
         NEW b, b = [a EXCEPT !.fresh = FALSE],
         NEW qs, qs = (ps \ {a}) \cup {b}
  PROVE  qs \subseteq Reservation /\ Exclusive(qs) /\ From(qs, ps)
<1>1. /\ b \in Reservation
      /\ b.net = a.net /\ b.port = a.port /\ b.actual = a.actual /\ b.host = a.host
  BY Renewed
<1>2. \A d \in ps : (Conflict(b, d) => Conflict(a, d)) /\ (Conflict(d, b) => Conflict(d, a))
  BY <1>1 DEF Conflict
<1>3. Exclusive(qs)
  <2> SUFFICES ASSUME NEW d \in qs, NEW e \in qs, Conflict(d, e) PROVE d = e
    BY DEF Exclusive
  <2>1. CASE d # b /\ e # b
    BY <2>1 DEF Exclusive
  <2>2. CASE d = b /\ e # b
    BY <1>2, <2>2 DEF Exclusive
  <2>3. CASE d # b /\ e = b
    BY <1>2, <2>3 DEF Exclusive
  <2> QED BY <2>1, <2>2, <2>3
<1>4. From(qs, ps)
  BY <1>1 DEF From
<1> QED BY <1>1, <1>3, <1>4

LEMMA SubsetExclusive ==
  ASSUME NEW ps, ps \subseteq Reservation, Exclusive(ps), NEW qs \in SUBSET ps
  PROVE  qs \subseteq Reservation /\ Exclusive(qs) /\ From(qs, ps)
BY DEF Exclusive, From

LEMMA FromTrans ==
  ASSUME NEW ps, NEW qs, NEW rs, From(qs, ps), From(rs, qs)
  PROVE  From(rs, ps)
BY DEF From

\* What the claim says of a set of reservations holds of any drawn from it.
LEMMA FromKeeps ==
  ASSUME NEW ps, NEW qs, From(qs, ps), NEW c
  PROVE  /\ PendingFor(ps, c) = {} => PendingFor(qs, c) = {}
         /\ \A p, h : (\A a \in ps : ~(a.actual = p /\ HostMatches(a.host, h)))
                      => \A b \in qs : ~(b.actual = p /\ HostMatches(b.host, h))
BY DEF From, PendingFor

\* A step that only drops or renews reservations keeps the invariant, provided
\* it leaves a request that is being worked on at its stage.
LEMMA Quiet ==
  ASSUME IInv, QueueOK', ClientOK', pending' \subseteq Reservation, Exclusive(pending'), From(pending', pending),
         Working' => /\ Working /\ stage'.pc = stage.pc /\ stage'.at = stage.at
                     /\ queue' # <<>> /\ Head(queue') = Head(queue)
  PROVE  IInv'
<1>1. CASE ~Working'
  BY <1>1 DEF IInv, Claim, Working
<1>2. CASE Working'
  <2>1. Working /\ stage'.pc = stage.pc /\ stage'.at = stage.at /\ queue' # <<>>
        /\ Head(queue') = Head(queue)
    BY <1>2
  <2>2. Who' = Who
    BY <2>1 DEF Who
  <2>3. PendingFor(pending', Who) = {}
    BY <2>1, FromKeeps DEF IInv, Claim
  <2>4. stage.pc = "probe" =>
          \A b \in pending' : ~(b.actual = Candidates[Who][stage.at] /\ HostMatches(b.host, Host[Who]))
    BY DEF IInv, Claim, From
  <2>5. Claim'
    BY <2>1, <2>2, <2>3, <2>4 DEF Claim, IInv, Working
  <2> QED BY <2>5 DEF IInv
<1> QED BY <1>1, <1>2

\* Requests join the queue at its end.
LEMMA Joins ==
  ASSUME NEW q \in Seq(Request), NEW r \in Request
  PROVE  /\ Append(q, r) \in Seq(Request) /\ Append(q, r) # <<>>
         /\ q # <<>> => Head(Append(q, r)) = Head(q)
<1>1. /\ Append(q, r) \in Seq(Request) /\ Append(q, r) # <<>>
      /\ Len(Append(q, r)) = Len(q) + 1
      /\ \A i \in 1..Len(q) : Append(q, r)[i] = q[i]
  BY AppendProperties
<1>2. q # <<>> => Len(q) >= 1 /\ Head(q) = q[1]
  OBVIOUS
<1>3. Head(Append(q, r)) = Append(q, r)[1]
  BY <1>1
<1>4. Len(q) >= 1 => Append(q, r)[1] = q[1]
  BY <1>1
<1> QED BY <1>1, <1>2, <1>3, <1>4

\* The head is done: the next request begins.
LEMMA HeadDone ==
  ASSUME QueueOK, queue # <<>>, Done, lastId' \in Nat
  PROVE  QueueOK' /\ ~Working'
<1>1. queue' \in Seq(Request)
  BY HeadTailProperties DEF QueueOK, Done
<1>2. stage' = Ready
  BY DEF Done
<1> QED BY <1>1, <1>2 DEF QueueOK, Working, Ready

\* A client that changes its state keeps its allocation.
LEMMA ClientMoves ==
  ASSUME ClientOK, NEW c \in Clients, NEW pc, client' = [client EXCEPT ![c].pc = pc]
  PROVE  ClientOK'
BY DEF ClientOK

\* A client reads the answer to its request.
LEMMA ClientAnswered ==
  ASSUME ClientOK, NEW c \in Clients, NEW alloc \in Nat \cup {None}, NEW actual,
         Answer(c, alloc, actual)
  PROVE  ClientOK' /\ Done
BY DEF ClientOK, Answer

\* Snapshots, scans, time and crashes leave the queue alone.
LEMMA BesideTheQueue ==
  ASSUME IInv, UNCHANGED <<queue, stage, lastId>>, ClientOK',
         pending' \subseteq Reservation, Exclusive(pending'), From(pending', pending)
  PROVE  IInv'
<1>1. QueueOK'
  BY DEF IInv, QueueOK
<1>2. Working' => /\ Working /\ stage'.pc = stage.pc /\ stage'.at = stage.at
                  /\ queue' # <<>> /\ Head(queue') = Head(queue)
  BY DEF IInv, Claim, Working
<1> QED BY <1>1, <1>2, Quiet

\* A request that arrives changes nothing for the one at the head.
LEMMA Arrives ==
  ASSUME IInv, UNCHANGED <<pending, stage, lastId>>, ClientOK',
         NEW r \in Request, queue' = Append(queue, r)
  PROVE  IInv'
<1>1. queue' \in Seq(Request) /\ queue' # <<>> /\ (queue # <<>> => Head(queue') = Head(queue))
  BY Joins DEF IInv, QueueOK
<1>2. QueueOK'
  BY <1>1 DEF IInv, QueueOK
<1>3. Working' => /\ Working /\ stage'.pc = stage.pc /\ stage'.at = stage.at
                  /\ queue' # <<>> /\ Head(queue') = Head(queue)
  BY <1>1 DEF IInv, Claim, Working
<1>4. pending' \subseteq Reservation /\ Exclusive(pending') /\ From(pending', pending)
  BY SubsetExclusive DEF IInv
<1> QED BY <1>2, <1>3, <1>4, Quiet

\* A request that ends having only dropped or renewed reservations.
LEMMA Finishes ==
  ASSUME IInv, queue # <<>>, Done, lastId' = lastId, ClientOK',
         pending' \subseteq Reservation, Exclusive(pending'), From(pending', pending)
  PROVE  IInv'
<1>1. QueueOK' /\ ~Working'
  BY HeadDone DEF IInv, QueueOK
<1> QED BY <1>1, Quiet

\* The head of the queue is a request of some client.
LEMMA HeadKnown ==
  ASSUME QueueOK, queue # <<>>
  PROVE  /\ Head(queue) \in Request /\ Who \in Clients
         /\ Host[Who] \in Hosts /\ Net[Who] \in Nets /\ Port[Who] \in Nat
<1>1. Head(queue) \in Request
  BY HeadTailProperties DEF QueueOK
<1>2. Who \in Clients
  BY <1>1 DEF Request, Who
<1> QED BY <1>1, <1>2, AllocationConstants DEF Hosts, Nets

\* allocateRoute leaves its first segment for the port search only when no
\* reservation of the endpoint is left.
LEMMA AllocateKeeps == ASSUME IInv, Allocate PROVE IInv'
<1> DEFINE c == Who
           ps == Cleaned(pending, reserved)
           mine == PendingFor(ps, c)
<1>1. c \in Clients /\ queue # <<>> /\ Head(queue).what = "allocate" /\ lastId' = lastId
  BY HeadKnown DEF IInv, Allocate, At
<1>2. ps \subseteq Reservation /\ Exclusive(ps) /\ From(ps, pending)
  BY CleanedExclusive DEF IInv
<1> HIDE DEF ps
<1>3. CASE /\ pending' = ps
           /\ \E n : Answer(c, None, n)
  <2>1. ClientOK' /\ Done
    <3> HIDE DEF c
    <3> PICK n : Answer(c, None, n)
      BY <1>3
    <3> QED BY <1>1, ClientAnswered DEF IInv
  <2> QED BY <1>1, <1>2, <1>3, <2>1, Finishes
<1>4. CASE \E a \in mine : /\ pending' = (ps \ {a}) \cup {[a EXCEPT !.fresh = TRUE]}
                           /\ Answer(c, a.id, a.actual)
  <2> PICK a \in mine : /\ pending' = (ps \ {a}) \cup {[a EXCEPT !.fresh = TRUE]}
                        /\ Answer(c, a.id, a.actual)
    BY <1>4
  <2>1. a \in ps /\ a.fresh = TRUE /\ a.id \in Nat
    <3>1. a \in ps
      BY DEF PendingFor
    <3>2. \E b \in pending : a = [b EXCEPT !.fresh = TRUE]
      BY <3>1 DEF ps, Cleaned
    <3>3. a.fresh = TRUE
      BY <3>2 DEF IInv, Reservation
    <3> QED BY <3>1, <3>3, <1>2 DEF Reservation
  <2>2. [a EXCEPT !.fresh = TRUE] = a
    BY <2>1, <1>2 DEF Reservation
  <2>3. pending' = ps
    BY <2>1, <2>2
  <2>4. ClientOK' /\ Done
    BY <1>1, <2>1, ClientAnswered DEF IInv
  <2> QED BY <1>1, <1>2, <2>3, <2>4, Finishes
<1>5. CASE /\ mine = {} /\ pending' = ps
           /\ \E pc \in {"same", "pick"} : stage' = [stage EXCEPT !.pc = pc]
           /\ UNCHANGED <<queue, client>>
  <2>1. QueueOK' /\ ClientOK' /\ stage'.pc \in {"same", "pick"}
    BY <1>1, <1>5 DEF IInv, QueueOK, ClientOK
  <2>2. Claim'
    BY <1>1, <1>5, <2>1 DEF Claim, Working, Who
  <2> QED BY <1>2, <1>5, <2>1, <2>2 DEF IInv
<1>6. \/ pending' = ps /\ \E n : Answer(c, None, n)
      \/ \E a \in mine : /\ pending' = (ps \ {a}) \cup {[a EXCEPT !.fresh = TRUE]}
                         /\ Answer(c, a.id, a.actual)
      \/ /\ mine = {} /\ pending' = ps
         /\ \E pc \in {"same", "pick"} : stage' = [stage EXCEPT !.pc = pc]
         /\ UNCHANGED <<queue, client>>
  BY DEF Allocate, ps
<1> QED BY <1>3, <1>4, <1>5, <1>6

\* The listener of the same port is looked up before any reservation is made.
LEMMA SamePortKeeps == ASSUME IInv, SamePort PROVE IInv'
<1>1. Who \in Clients /\ queue # <<>> /\ stage.pc = "same" /\ lastId' = lastId
  BY HeadKnown DEF IInv, SamePort, At
<1>2. CASE pending' = Cleaned(pending, reserved') /\ Answer(Who, None, Port[Who])
  <2>1. ClientOK' /\ Done
    BY <1>1, <1>2, ClientAnswered DEF IInv
  <2>2. pending' \subseteq Reservation /\ Exclusive(pending') /\ From(pending', pending)
    BY <1>2, CleanedExclusive DEF IInv
  <2> QED BY <1>1, <2>1, <2>2, Finishes
<1>3. CASE stage' = [stage EXCEPT !.pc = "pick"] /\ UNCHANGED <<pending, queue, client>>
  <2>1. QueueOK' /\ ClientOK' /\ stage'.pc = "pick"
    BY <1>1, <1>3 DEF IInv, QueueOK, ClientOK
  <2>2. Claim'
    BY <1>1, <1>3, <2>1 DEF IInv, Claim, Working, Who
  <2> QED BY <1>3, <2>1, <2>2 DEF IInv
<1> QED BY <1>2, <1>3 DEF SamePort

\* A candidate goes to the probe only if no reservation holds its endpoint.
LEMMA PickKeeps == ASSUME IInv, Pick PROVE IInv'
<1> DEFINE ps == Cleaned(pending, reserved)
           free == {i \in stage.at..Len(Candidates[Who]) :
                      ~isActualPortReserved(ps, Candidates[Who][i], Host[Who])}
<1>1. /\ Who \in Clients /\ queue # <<>> /\ Head(queue).what = "allocate"
      /\ stage.pc = "pick" /\ lastId' = lastId
  BY HeadKnown DEF IInv, Pick, At
<1>2. ps \subseteq Reservation /\ Exclusive(ps) /\ From(ps, pending) /\ pending' = ps
  BY CleanedExclusive DEF IInv, Pick
<1>3. CASE Answer(Who, None, 0)
  <2>1. ClientOK' /\ Done
    BY <1>1, <1>3, ClientAnswered DEF IInv
  <2> QED BY <1>1, <1>2, <2>1, Finishes
<1>4. CASE \E i \in free : /\ stage' = [stage EXCEPT !.pc = "probe", !.at = i]
                           /\ UNCHANGED <<queue, client>>
  <2> PICK i \in free : /\ stage' = [stage EXCEPT !.pc = "probe", !.at = i]
                        /\ UNCHANGED <<queue, client>>
    BY <1>4
  <2>1. Candidates[Who] \in Seq(Nat) /\ stage.at \in Nat \ {0}
    BY <1>1, AllocationConstants DEF IInv, QueueOK
  <2>2. i \in 1..Len(Candidates[Who]) /\ i \in Nat \ {0} /\ i \in DOMAIN Candidates[Who]
    BY <2>1
  <2>3. PendingFor(ps, Who) = {}
    BY <1>1, <1>2, FromKeeps DEF IInv, Claim, Working
  <2>4. \A a \in ps : ~(a.actual = Candidates[Who][i] /\ HostMatches(a.host, Host[Who]))
    BY DEF isActualPortReserved
  <2> HIDE DEF ps, free
  <2>5. QueueOK' /\ ClientOK' /\ stage'.pc = "probe" /\ stage'.at = i /\ Who' = Who
    BY <1>1, <2>2 DEF IInv, QueueOK, ClientOK, Who
  <2>6. Claim'
    BY <1>1, <1>2, <2>2, <2>3, <2>4, <2>5 DEF Claim, Working
  <2> QED BY <1>2, <2>5, <2>6 DEF IInv
<1>5. Answer(Who, None, 0)
      \/ \E i \in free : /\ stage' = [stage EXCEPT !.pc = "probe", !.at = i]
                         /\ UNCHANGED <<queue, client>>
  BY DEF Pick
<1> QED BY <1>3, <1>4, <1>5

\* The reservation Probe adds conflicts with no other one.
LEMMA ProbeKeeps == ASSUME IInv, Probe PROVE IInv'
<1> DEFINE p == Candidates[Who][stage.at]
           new == [id |-> lastId', port |-> Port[Who], net |-> Net[Who], host |-> Host[Who],
                   dir |-> IF Who \in Listen THEN "listen" ELSE "send",
                   actual |-> p, fresh |-> TRUE]
           ps == pending \cup {new}
<1>1. /\ Who \in Clients /\ queue # <<>> /\ Head(queue).what = "allocate" /\ stage.pc = "probe"
      /\ Host[Who] \in Hosts /\ Net[Who] \in Nets /\ Port[Who] \in Nat
  BY HeadKnown DEF IInv, Probe, At
<1>2. CASE /\ stage' = [stage EXCEPT !.pc = "pick", !.at = @ + 1]
           /\ UNCHANGED <<pending, queue, client, lastId>>
  <2>1. stage.at \in Nat \ {0} /\ stage.at + 1 \in Nat \ {0}
        /\ stage = [pc |-> stage.pc, at |-> stage.at, seen |-> stage.seen]
    BY DEF IInv, QueueOK
  <2> DEFINE next == stage.at + 1
  <2>2. stage' = [stage EXCEPT !.pc = "pick", !.at = next]
    BY <1>2
  <2> HIDE DEF next
  <2>3. stage' = [pc |-> "pick", at |-> next, seen |-> stage.seen]
    BY <2>1, <2>2
  <2>4. next \in Nat \ {0}
    BY <2>1 DEF next
  <2>5. UNCHANGED <<queue, client, lastId>>
    BY <1>2
  <2>6. QueueOK' /\ ClientOK' /\ stage'.pc = "pick" /\ Who' = Who
    <3>1. stage'.pc = "pick" /\ stage'.at = next /\ stage'.seen = stage.seen
      BY <2>3
    <3>2. QueueOK'
      BY <2>3, <2>4, <2>5, <3>1 DEF IInv, QueueOK
    <3> QED BY <2>5, <3>1, <3>2 DEF IInv, ClientOK, Who
  <2>7. Claim'
    BY <1>1, <1>2, <2>6 DEF IInv, Claim, Working
  <2> QED BY <1>2, <2>6, <2>7 DEF IInv
<1>3. CASE /\ lastId' = lastId + 1 /\ pending' = Cleaned(ps, reserved)
           /\ Answer(Who, lastId', p)
  <2>1. p \in Nat /\ lastId' \in Nat
    <3>1. Candidates[Who] \in Seq(Nat) /\ stage.at \in DOMAIN Candidates[Who]
      BY <1>1, AllocationConstants DEF IInv, Claim
    <3> QED BY <1>3, <3>1 DEF IInv, QueueOK
  <2>2. new \in Reservation
    BY <1>1, <2>1 DEF Reservation
  <2>3. new.net = Net[Who] /\ new.port = Port[Who] /\ new.actual = p /\ new.host = Host[Who]
    OBVIOUS
  <2> HIDE DEF new
  <2>4. \A a \in pending : ~(a.net = Net[Who] /\ a.port = Port[Who])
    BY <1>1 DEF IInv, Claim, Working, PendingFor, Identity
  <2>5. \A a \in pending : ~(a.actual = p /\ HostMatches(a.host, Host[Who]))
    BY <1>1 DEF IInv, Claim
  <2>6. \A a \in pending : ~Conflict(a, new) /\ ~Conflict(new, a)
    BY <2>3, <2>4, <2>5 DEF Conflict, HostMatches
  <2>7. ps \subseteq Reservation /\ Exclusive(ps)
    BY <2>2, <2>6 DEF IInv, Exclusive
  <2> HIDE DEF ps
  <2>8. pending' \subseteq Reservation /\ Exclusive(pending')
    BY <1>3, <2>7, CleanedExclusive
  <2>9. ClientOK' /\ QueueOK' /\ ~Working'
    <3>1. ClientOK'
      BY <1>1, <1>3, <2>1, ClientAnswered DEF IInv
    <3>2. QueueOK' /\ ~Working'
      BY <1>1, <1>3, <2>1, HeadDone DEF IInv, Answer
    <3> QED BY <3>1, <3>2
  <2>10. Claim'
    BY <2>9 DEF Claim, Working
  <2> QED BY <2>8, <2>9, <2>10 DEF IInv
<1> QED BY <1>2, <1>3 DEF Probe

\* The other requests of the queue, and the daemon's work beside it, only drop
\* or renew reservations.
LEMMA DaemonKeeps ==
  ASSUME IInv,
         \/ Register \/ ReleaseAllocation \/ ReleaseScan \/ ReleaseRoute \/ Removed
         \/ UseCache \/ Expires \/ GraceEnds \/ daemonStatus \/ DaemonRestarts
         \/ \E s \in DOMAIN snap : Scan(s) \/ Scanned(s) \/ Recover(s) \/ Snapshot(s)
  PROVE  IInv'
<1>1. ASSUME NEW ps \in SUBSET pending, NEW ls
      PROVE  /\ ps \subseteq Reservation /\ Exclusive(ps) /\ From(ps, pending)
             /\ Cleaned(ps, ls) \subseteq Reservation /\ Exclusive(Cleaned(ps, ls))
             /\ From(Cleaned(ps, ls), pending)
  <2>1. ps \subseteq Reservation /\ Exclusive(ps) /\ From(ps, pending)
    BY SubsetExclusive DEF IInv
  <2>2. /\ Cleaned(ps, ls) \subseteq Reservation /\ Exclusive(Cleaned(ps, ls))
        /\ From(Cleaned(ps, ls), ps)
    BY <2>1, CleanedExclusive
  <2> QED BY <2>1, <2>2, FromTrans
<1>2. CASE Register
  <2>1. /\ queue # <<>> /\ Done /\ lastId' = lastId /\ UNCHANGED client
        /\ pending' = Cleaned({a \in pending : a.id # Head(queue).arg} \ PendingFor(pending, Who),
                              reserved)
    BY <1>2 DEF Register, At
  <2>2. {a \in pending : a.id # Head(queue).arg} \ PendingFor(pending, Who) \in SUBSET pending
    OBVIOUS
  <2>3. ClientOK'
    BY <2>1 DEF IInv, ClientOK
  <2> QED BY <1>1, <2>1, <2>2, <2>3, Finishes
<1>3. CASE ReleaseAllocation
  <2> DEFINE kept == {a \in pending : a.id # Head(queue).arg}
  <2>1. /\ queue # <<>> /\ Done /\ lastId' = lastId
        /\ pending' = pending \/ pending' = Cleaned(kept, reserved)
    BY <1>3 DEF ReleaseAllocation, At
  <2>2. kept \in SUBSET pending /\ pending \in SUBSET pending
    OBVIOUS
  <2>3. ClientOK'
    BY <1>3, <2>1, HeadKnown, ClientMoves DEF IInv, ReleaseAllocation, ClientOK
  <2> HIDE DEF kept
  <2> QED BY <1>1, <2>1, <2>2, <2>3, Finishes
<1>4. CASE ReleaseScan
  <2>1. /\ stage' = [stage EXCEPT !.pc = "decide", !.seen = {l \in sockets : l.port = client[Who].actual}]
        /\ UNCHANGED <<pending, queue, client, lastId>>
    BY <1>4 DEF ReleaseScan
  <2>2. QueueOK' /\ ClientOK' /\ ~Working'
    BY <2>1 DEF IInv, QueueOK, ClientOK, Working
  <2> QED BY <1>1, <2>1, <2>2, Quiet
<1>5. CASE ReleaseRoute
  <2> DEFINE kept == {a \in pending : a.id # Head(queue).arg}
  <2>1. /\ queue # <<>> /\ Done /\ lastId' = lastId
        /\ pending' = pending \/ pending' = Cleaned(kept, reserved)
    BY <1>5 DEF ReleaseRoute, At
  <2>2. kept \in SUBSET pending /\ pending \in SUBSET pending
    OBVIOUS
  <2>3. ClientOK'
    BY <1>5, <2>1, HeadKnown, ClientMoves DEF IInv, ReleaseRoute, ClientOK
  <2> HIDE DEF kept
  <2> QED BY <1>1, <2>1, <2>2, <2>3, Finishes
<1>6. CASE Removed
  <2>1. /\ queue # <<>> /\ Done /\ lastId' = lastId /\ UNCHANGED client
        /\ pending' = pending \/ pending' = Cleaned(pending, reserved)
    BY <1>6 DEF Removed, At
  <2>2. ClientOK'
    BY <2>1 DEF IInv, ClientOK
  <2> QED BY <1>1, <2>1, <2>2, Finishes
<1>7. CASE /\ UNCHANGED <<queue, stage, client, lastId>>
           /\ \/ pending' = pending
              \/ \E ls : pending' = Cleaned(pending, ls)
              \/ Expires
  <2>1. ClientOK'
    BY <1>7 DEF IInv, ClientOK
  <2>2. CASE pending' = pending
    BY <1>1, <1>7, <2>1, <2>2, BesideTheQueue
  <2>3. CASE \E ls : pending' = Cleaned(pending, ls)
    BY <1>1, <1>7, <2>1, <2>3, BesideTheQueue
  <2>4. CASE Expires
    <3>1. pending' \subseteq Reservation /\ Exclusive(pending') /\ From(pending', pending)
      BY <2>4, ExpiredExclusive DEF IInv, Expires
    <3> QED BY <1>7, <2>1, <3>1, BesideTheQueue
  <2> QED BY <1>7, <2>2, <2>3, <2>4
<1>8. CASE DaemonRestarts
  <2>1. pending' = {} /\ queue' = <<>> /\ stage' = Ready /\ lastId' = lastId
    BY <1>8 DEF DaemonRestarts
  <2>2. ClientOK'
    BY <1>8 DEF IInv, ClientOK, DaemonRestarts
  <2>3. QueueOK' /\ ~Working'
    BY <2>1 DEF IInv, QueueOK, Working, Ready
  <2>4. Claim'
    BY <2>3 DEF Claim, Working
  <2> QED BY <2>1, <2>2, <2>3, <2>4 DEF IInv, Exclusive
<1>9. CASE UseCache \/ Expires \/ GraceEnds \/ daemonStatus
  BY <1>7, <1>9 DEF UseCache, Expires, GraceEnds, daemonStatus
<1>10. CASE \E s \in DOMAIN snap : Scan(s) \/ Scanned(s) \/ Recover(s) \/ Snapshot(s)
  BY <1>7, <1>10 DEF Scan, Scanned, Recover, Snapshot
<1> QED BY <1>2, <1>3, <1>4, <1>5, <1>6, <1>8, <1>9, <1>10

\* What hooked processes do reaches the daemon as requests.
LEMMA ClientsKeep ==
  ASSUME IInv, NEW c \in Clients,
         ClientStep(c) \/ Deliver(c)
  PROVE  IInv'
<1>1. ASSUME UNCHANGED <<pending, queue, stage, lastId>>, ClientOK' PROVE IInv'
  <2>1. pending' \subseteq Reservation /\ Exclusive(pending') /\ From(pending', pending)
    BY <1>1, SubsetExclusive DEF IInv
  <2> QED BY <1>1, <2>1, BesideTheQueue
<1>2. client[c].alloc \in Nat \cup {None} /\ ClientOK
  BY DEF IInv, ClientOK
<1>3. \A what \in {"allocate", "register", "release", "exit", "remove"} :
        Req(what, c, None) \in Request /\ Req(what, c, client[c].alloc) \in Request
  BY <1>2 DEF Req, Request
<1>4. CASE Ask(c)
  <2>1. ClientOK'
    BY <1>2, <1>4 DEF Ask, ClientOK
  <2> QED BY <1>3, <1>4, <2>1, Arrives DEF Ask
<1>5. CASE JoinSender(c)
  <2>1. ClientOK'
    BY <1>2, <1>5 DEF JoinSender, ClientOK
  <2> QED BY <1>1, <1>5, <2>1 DEF JoinSender
<1>6. CASE Bind(c)
  <2>1. UNCHANGED <<pending, stage, lastId>> /\ \E pc : client' = [client EXCEPT ![c].pc = pc]
    BY <1>6 DEF Bind, Steps
  <2>2. ClientOK'
    BY <1>2, <2>1, ClientMoves
  <2>3. UNCHANGED queue \/ queue' = Append(queue, Req("release", c, client[c].alloc))
    BY <1>6 DEF Bind
  <2> QED BY <1>1, <1>3, <2>1, <2>2, <2>3, Arrives
<1>7. CASE Close(c) \/ Ends(c) \/ Crash(c)
  <2>1. UNCHANGED <<pending, queue, stage, lastId>> /\ \E pc : client' = [client EXCEPT ![c].pc = pc]
    BY <1>7 DEF Close, Ends, Crash, Steps
  <2> QED BY <1>1, <1>2, <2>1, ClientMoves
<1>8. CASE Exit(c)
  <2>1. ClientOK'
    BY <1>2, <1>8, ClientMoves DEF Exit, Steps
  <2> QED BY <1>3, <1>8, <2>1, Arrives DEF Exit
<1>9. CASE RemoveRow(c) \/ Deliver(c)
  <2>1. ClientOK'
    BY <1>2, <1>9 DEF RemoveRow, Deliver, ClientOK
  <2> QED BY <1>3, <1>9, <2>1, Arrives DEF RemoveRow, Deliver
<1>10. CASE \E k \in Clients : HandOver(c, k)
  <2>1. ClientOK'
    BY <1>2, <1>10 DEF HandOver, ClientOK
  <2> QED BY <1>1, <1>10, <2>1 DEF HandOver
<1> QED BY <1>4, <1>5, <1>6, <1>7, <1>8, <1>9, <1>10 DEF ClientStep

\* Other programs only open and close sockets.
LEMMA ForeignKeeps == ASSUME IInv, ForeignBinds \/ ForeignEnds PROVE IInv'
<1>1. UNCHANGED <<pending, queue, stage, lastId, client>>
  BY DEF ForeignBinds, ForeignEnds
<1>2. ClientOK'
  BY <1>1 DEF IInv, ClientOK
<1>3. pending' \subseteq Reservation /\ Exclusive(pending') /\ From(pending', pending)
  BY <1>1, SubsetExclusive DEF IInv
<1> QED BY <1>1, <1>2, <1>3, BesideTheQueue

\* For any clients, candidate sequences and interleaving of requests, scans,
\* expiries, crashes and daemon restarts: no two reservations of the daemon are
\* for the same logical endpoint or hold the same actual endpoint.
THEOREM ReservationsExclusive == Spec => []PendingExclusive
<1>1. Init => IInv
  <2> SUFFICES ASSUME Init PROVE IInv
    OBVIOUS
  <2>1. QueueOK /\ ~Working
    BY DEF Init, QueueOK, Ready, Working
  <2>2. ClientOK
    BY DEF Init, ClientOK, NewClient
  <2> QED BY <2>1, <2>2 DEF Init, IInv, Claim, Working, Exclusive
<1>2. IInv /\ [Next]_vars => IInv'
  <2> SUFFICES ASSUME IInv, [Next]_vars PROVE IInv'
    OBVIOUS
  <2>1. CASE UNCHANGED vars
    BY <2>1 DEF vars, IInv, QueueOK, ClientOK, Exclusive, Conflict, Claim, Working, Who
  <2>2. CASE Allocate \/ SamePort \/ Pick \/ Probe
    BY <2>2, AllocateKeeps, SamePortKeeps, PickKeeps, ProbeKeeps
  <2>3. CASE \/ Register \/ ReleaseAllocation \/ ReleaseScan \/ ReleaseRoute \/ Removed
             \/ UseCache \/ Expires \/ GraceEnds \/ daemonStatus \/ DaemonRestarts
             \/ \E s \in DOMAIN snap : Scan(s) \/ Scanned(s) \/ Recover(s) \/ Snapshot(s)
    BY <2>3, DaemonKeeps
  <2>4. CASE \E c \in Clients : ClientStep(c) \/ Deliver(c)
    BY <2>4, ClientsKeep
  <2>5. CASE ForeignBinds \/ ForeignEnds
    BY <2>5, ForeignKeeps
  <2> QED BY <2>1, <2>2, <2>3, <2>4, <2>5 DEF Next, QueueStep
<1>3. IInv => PendingExclusive
  BY DEF IInv, Exclusive, Conflict, PendingExclusive
<1> QED BY <1>1, <1>2, <1>3, PTL DEF Spec
=============================================================================
