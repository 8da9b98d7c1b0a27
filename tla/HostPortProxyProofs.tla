------------------------- MODULE HostPortProxyProofs -------------------------
(***************************************************************************)
(* The host listeners follow the calls of open, close and dispose, for any  *)
(* number of exposures, calls, helpers and faults.                          *)
(*                                                                          *)
(* HostListenersFollowCalls is not inductive.  An opening that was not       *)
(* canceled must still be wanted when its slow bind is done (OpeningsOK); a  *)
(* helper that did not bind holds no port, and only helpers are ever dead    *)
(* without their exit noticed (HandlesOK); and a lookup is named by a number *)
(* no entry and no lookup has had before (LookupsOK).                       *)
(***************************************************************************)
EXTENDS HostPortProxy, FiniteSetTheorems, TLAPS

Handle == [kind : {"native", "node"}, exposure : Exposures,
           state : {"starting", "bound", "ending", "dead", "gone"}, holds : BOOLEAN]
Opening == [canceled : BOOLEAN, at : {"siblings", "native", "starting", "node"}, handle : Nat]
Entry == [job : Nat, age : {"pending", "fresh", "expired"}]
CallType == [opens : Nat, closes : Nat, disposals : Nat, clients : Nat, faults : Nat,
             disposed : BOOLEAN, wanted : SUBSET Exposures]

HostTyped ==
  /\ handles \in Seq(Handle) /\ nativeFree \in Nat /\ hostCalls \in CallType
  /\ hostListeners \in [DOMAIN hostListeners -> DOMAIN handles]
  /\ openingListeners \in [DOMAIN openingListeners -> Opening]
  /\ DOMAIN hostListeners \cup DOMAIN openingListeners \subseteq Exposures

\* Listeners and openings have handles of their own exposure.
EachItsOwn ==
  /\ \A e \in DOMAIN hostListeners : handles[hostListeners[e]].exposure = e
  /\ \A e \in DOMAIN openingListeners : openingListeners[e].at = "starting" =>
       /\ openingListeners[e].handle \in DOMAIN handles
       /\ handles[openingListeners[e].handle].exposure = e
       /\ handles[openingListeners[e].handle].kind = "native"

HandlesOK ==
  \A h \in DOMAIN handles : /\ handles[h].state = "starting" => handles[h].holds = FALSE
                            /\ handles[h].state = "dead" => handles[h].kind = "native"

PortsOnce ==
  \A g, h \in DOMAIN handles : HoldsPort(g) /\ HoldsPort(h) /\ g # h =>
    HostEndpoint[handles[g].exposure] # HostEndpoint[handles[h].exposure]

OpeningsOK ==
  /\ DOMAIN hostListeners \cap DOMAIN openingListeners = {}
  /\ \A e \in DOMAIN openingListeners :
       ~openingListeners[e].canceled /\ ~hostCalls.disposed => e \in hostCalls.wanted

ListenersInv ==
  /\ HostTyped /\ EachItsOwn /\ HandlesOK /\ PortsOnce /\ OpeningsOK
  /\ ListenerIsWanted /\ NoForgottenListener /\ CapacityFollowsChildren

\* Lookups are numbered downwards by the clients still to come.
LookupsOK ==
  /\ targetCache \in [DOMAIN targetCache -> Entry]
  /\ \A j \in DOMAIN lookups : j \in Nat /\ j > hostCalls.clients
  /\ \A e \in DOMAIN targetCache :
       /\ targetCache[e].job > hostCalls.clients
       /\ targetCache[e].job \in DOMAIN lookups => lookups[targetCache[e].job] = e
       /\ targetCache[e].age = "pending" <=> targetCache[e].job \in DOMAIN lookups

HostInv == ListenersInv /\ LookupsOK

-----------------------------------------------------------------------------
(* The maps and the calls.                                                  *)

LEMMA PutFacts ==
  ASSUME NEW f, NEW k, NEW v
  PROVE  /\ DOMAIN Put(f, k, v) = DOMAIN f \cup {k} /\ Put(f, k, v)[k] = v
         /\ \A x \in DOMAIN f : x # k => Put(f, k, v)[x] = f[x]
BY DEF Put

LEMMA DropFacts ==
  ASSUME NEW f, NEW ks
  PROVE  /\ DOMAIN Drop(f, ks) = DOMAIN f \ ks
         /\ \A x \in DOMAIN f \ ks : Drop(f, ks)[x] = f[x]
BY DEF Drop

LEMMA PutTyped ==
  ASSUME NEW S, NEW f, f \in [DOMAIN f -> S], NEW k, NEW v \in S
  PROVE  Put(f, k, v) \in [DOMAIN Put(f, k, v) -> S]
BY DEF Put

LEMMA DropTyped ==
  ASSUME NEW S, NEW f, f \in [DOMAIN f -> S], NEW ks
  PROVE  Drop(f, ks) \in [DOMAIN Drop(f, ks) -> S]
BY DEF Drop

\* A call or a fault is used up.
LEMMA SpendOK ==
  ASSUME hostCalls \in CallType, NEW what \in {"clients", "faults"}, Spend(what)
  PROVE  /\ hostCalls' \in CallType /\ hostCalls'.disposed = hostCalls.disposed
         /\ hostCalls'.wanted = hostCalls.wanted
         /\ what = "clients" => hostCalls.clients > 0 /\ hostCalls'.clients = hostCalls.clients - 1
         /\ what # "clients" => hostCalls'.clients = hostCalls.clients
<1>1. CASE what = "clients"
  <2>1. hostCalls.clients > 0 /\ hostCalls' = [hostCalls EXCEPT !.clients = hostCalls.clients - 1]
    BY <1>1 DEF Spend
  <2>2. hostCalls.clients - 1 \in Nat
    BY <2>1 DEF CallType
  <2> QED BY <1>1, <2>1, <2>2 DEF CallType
<1>2. CASE what = "faults"
  <2>1. hostCalls.faults > 0 /\ hostCalls' = [hostCalls EXCEPT !.faults = hostCalls.faults - 1]
    BY <1>2 DEF Spend
  <2>2. hostCalls.faults - 1 \in Nat
    BY <2>1 DEF CallType
  <2> QED BY <1>2, <2>1, <2>2 DEF CallType
<1> QED BY <1>1, <1>2

\* The next stage of an opening.
LEMMA AdvanceOK ==
  ASSUME openingListeners \in [DOMAIN openingListeners -> Opening], NEW e \in DOMAIN openingListeners,
         NEW at \in {"siblings", "native", "starting", "node"}, Advance(e, at)
  PROVE  /\ openingListeners' \in [DOMAIN openingListeners' -> Opening]
         /\ DOMAIN openingListeners' = DOMAIN openingListeners
         /\ openingListeners'[e].at = at /\ openingListeners'[e].canceled = openingListeners[e].canceled
         /\ \A f \in DOMAIN openingListeners : f # e => openingListeners'[f] = openingListeners[f]
<1> DEFINE o == [openingListeners[e] EXCEPT !.at = at]
<1>1. o \in Opening /\ o.at = at /\ o.canceled = openingListeners[e].canceled
  BY DEF Opening
<1>2. openingListeners' = [openingListeners EXCEPT ![e] = o]
  BY DEF Advance
<1> HIDE DEF o
<1> QED BY <1>1, <1>2

-----------------------------------------------------------------------------
(* The handles.                                                             *)

LEMMA HandleTyped ==
  ASSUME handles \in Seq(Handle), NEW h \in DOMAIN handles
  PROVE  handles[h] \in Handle
<1>1. DOMAIN handles = 1..Len(handles)
  OBVIOUS
<1> QED BY <1>1

LEMMA OneHandle ==
  ASSUME handles \in Seq(Handle), NEW h \in DOMAIN handles, NEW x \in Handle,
         handles' = [handles EXCEPT ![h] = x]
  PROVE  /\ handles' \in Seq(Handle) /\ DOMAIN handles' = DOMAIN handles /\ handles'[h] = x
         /\ \A g \in DOMAIN handles : g # h => handles'[g] = handles[g]
OBVIOUS

Natives == {h \in DOMAIN handles : handles[h].kind = "native" /\ handles[h].state # "gone"}

LEMMA NativesFinite ==
  ASSUME handles \in Seq(Handle)
  PROVE  IsFiniteSet(Natives) /\ Cardinality(Natives) \in Nat
<1>1. DOMAIN handles = 1..Len(handles) /\ Len(handles) \in Nat
  OBVIOUS
<1>2. IsFiniteSet(1..Len(handles))
  BY <1>1, FS_Interval
<1>3. Natives \in SUBSET (1..Len(handles))
  BY <1>1 DEF Natives
<1>4. IsFiniteSet(Natives)
  BY <1>2, <1>3, FS_Subset
<1> QED BY <1>4, FS_CardinalityType

LEMMA CapacityKept ==
  ASSUME CapacityFollowsChildren, UNCHANGED nativeFree, Natives' = Natives
  PROVE  CapacityFollowsChildren'
BY DEF CapacityFollowsChildren, Natives

\* A step after which no more handles run, hold a port or count than before.
Calmer ==
  /\ handles' \in Seq(Handle) /\ DOMAIN handles' = DOMAIN handles
  /\ \A h \in DOMAIN handles :
       /\ handles'[h].kind = handles[h].kind /\ handles'[h].exposure = handles[h].exposure
       /\ HoldsPort(h)' => HoldsPort(h)
       /\ handles'[h].state \in {"starting", "bound"} => handles'[h] = handles[h]
       /\ handles[h].kind = "native" => (handles'[h].state = "gone" <=> handles[h].state = "gone")
       /\ handles'[h].state = "dead" => handles[h].kind = "native"

LEMMA CalmerOK ==
  ASSUME HandlesOK, PortsOnce, CapacityFollowsChildren, UNCHANGED nativeFree, Calmer
  PROVE  HandlesOK' /\ PortsOnce' /\ CapacityFollowsChildren'
<1>1. HandlesOK'
  BY DEF Calmer, HandlesOK
<1>2. PortsOnce'
  BY DEF Calmer, PortsOnce
<1>3. Natives' = Natives
  BY DEF Calmer, Natives
<1> QED BY <1>1, <1>2, <1>3, CapacityKept

LEMMA SameHandles ==
  ASSUME HostTyped, HandlesOK, UNCHANGED handles
  PROVE  Calmer
BY DEF Calmer, HostTyped, HandlesOK, HoldsPort, Alive

\* Those that are closed no longer run, or got their signal.
LEMMA EndedCalms ==
  ASSUME HostTyped, HandlesOK, NEW hs, handles' = Ended(hs)
  PROVE  /\ Calmer
         /\ \A h \in DOMAIN handles : h \in hs => handles'[h].state \notin {"starting", "bound"}
<1>1. DOMAIN handles = 1..Len(handles) /\ Len(handles) \in Nat /\ handles \in Seq(Handle)
  BY DEF HostTyped
<1>2. DOMAIN handles' = DOMAIN handles
  BY DEF Ended
<1>3. ASSUME NEW h \in DOMAIN handles
      PROVE  /\ handles'[h] \in Handle
             /\ handles'[h].kind = handles[h].kind /\ handles'[h].exposure = handles[h].exposure
             /\ HoldsPort(h)' => HoldsPort(h)
             /\ handles'[h].state \in {"starting", "bound"} => handles'[h] = handles[h]
             /\ handles[h].kind = "native" => (handles'[h].state = "gone" <=> handles[h].state = "gone")
             /\ handles'[h].state = "dead" => handles[h].kind = "native"
             /\ h \in hs => handles'[h].state \notin {"starting", "bound"}
  <2>0. handles[h] \in Handle
    BY <1>1, HandleTyped
  <2>1. CASE h \notin hs \/ ~Alive(h)
    <3>1. handles'[h] = handles[h]
      BY <2>1 DEF Ended
    <3> QED BY <2>0, <2>1, <3>1 DEF HandlesOK, HoldsPort, Alive
  <2>2. CASE h \in hs /\ Alive(h) /\ handles[h].kind = "node"
    <3> DEFINE x == [handles[h] EXCEPT !.state = "gone", !.holds = FALSE]
    <3>1. x \in Handle /\ x.kind = handles[h].kind /\ x.exposure = handles[h].exposure /\ x.state = "gone"
      BY <2>0 DEF Handle
    <3>2. handles'[h] = x
      BY <2>2 DEF Ended
    <3> HIDE DEF x
    <3> QED BY <2>2, <3>1, <3>2 DEF HoldsPort, Alive
  <2>3. CASE h \in hs /\ Alive(h) /\ handles[h].kind # "node"
    <3> DEFINE x == [handles[h] EXCEPT !.state = "ending"]
    <3>1. /\ x \in Handle /\ x.kind = handles[h].kind /\ x.exposure = handles[h].exposure /\ x.state = "ending"
          /\ x.holds = handles[h].holds
      BY <2>0 DEF Handle
    <3>2. handles'[h] = x
      BY <2>3 DEF Ended
    <3> HIDE DEF x
    <3> QED BY <2>3, <3>1, <3>2 DEF HoldsPort, Alive
  <2> QED BY <2>1, <2>2, <2>3
<1>4. handles' \in Seq(Handle)
  <2>1. handles' \in [1..Len(handles) -> Handle]
    BY <1>1, <1>2, <1>3 DEF Ended
  <2> QED BY <1>1, <2>1
<1> QED BY <1>2, <1>3, <1>4 DEF Calmer

\* What a step keeps that lets no handle run, publishes none and waits for none.
LEMMA CalmStep ==
  ASSUME ListenersInv, Calmer, UNCHANGED nativeFree, hostCalls' \in CallType,
         hostListeners' \in [DOMAIN hostListeners' -> DOMAIN handles],
         DOMAIN hostListeners' \subseteq DOMAIN hostListeners,
         \A e \in DOMAIN hostListeners' : hostListeners'[e] = hostListeners[e],
         openingListeners' \in [DOMAIN openingListeners' -> Opening],
         DOMAIN openingListeners' \subseteq Exposures,
         \A e \in DOMAIN openingListeners' : openingListeners'[e].at = "starting" =>
           /\ e \in DOMAIN openingListeners /\ openingListeners[e].at = "starting"
           /\ openingListeners'[e].handle = openingListeners[e].handle
  PROVE  HostTyped' /\ EachItsOwn' /\ HandlesOK' /\ PortsOnce' /\ CapacityFollowsChildren'
<1>1. HandlesOK' /\ PortsOnce' /\ CapacityFollowsChildren'
  BY CalmerOK DEF ListenersInv
<1>2. HostTyped'
  BY DEF ListenersInv, HostTyped, Calmer
<1>3. EachItsOwn'
  <2>1. ASSUME NEW e \in DOMAIN hostListeners'
        PROVE  handles'[hostListeners'[e]].exposure = e
    BY <2>1 DEF ListenersInv, EachItsOwn, HostTyped, Calmer
  <2>2. ASSUME NEW e \in DOMAIN openingListeners', openingListeners'[e].at = "starting"
        PROVE  /\ openingListeners'[e].handle \in DOMAIN handles'
               /\ handles'[openingListeners'[e].handle].exposure = e
               /\ handles'[openingListeners'[e].handle].kind = "native"
    BY <2>2 DEF ListenersInv, EachItsOwn, Calmer
  <2> QED BY <2>1, <2>2 DEF EachItsOwn
<1> QED BY <1>1, <1>2, <1>3

\* A handle that runs after such a step is still published or waited for.
LEMMA CalmKeepsFound ==
  ASSUME ListenersInv, Calmer,
         \A h \in DOMAIN handles : handles'[h].state \in {"starting", "bound"} =>
           LET e == handles[h].exposure
           IN  \/ e \in DOMAIN hostListeners' /\ hostListeners'[e] = h
               \/ e \in DOMAIN openingListeners' /\ openingListeners'[e].at = "starting"
                  /\ openingListeners'[e].handle = h
  PROVE  NoForgottenListener'
BY DEF Calmer, NoForgottenListener

-----------------------------------------------------------------------------
(* open                                                                     *)

LEMMA OpenHostOK ==
  ASSUME ListenersInv, NEW e \in Exposures, openHost(e)
  PROVE  ListenersInv'
<1> USE DEF ListenersInv
<1>1. hostCalls' \in CallType /\ hostCalls'.wanted = hostCalls.wanted \cup {e}
      /\ hostCalls'.disposed = FALSE /\ hostCalls.disposed = FALSE
  <2>1. hostCalls \in CallType /\ hostCalls.opens > 0 /\ hostCalls.disposed = FALSE
    BY DEF openHost, HostTyped, CallType
  <2>2. hostCalls.opens - 1 \in Nat /\ hostCalls.wanted \cup {e} \in SUBSET Exposures
    BY <2>1 DEF CallType
  <2>3. hostCalls' = [hostCalls EXCEPT !.opens = hostCalls.opens - 1, !.wanted = hostCalls.wanted \cup {e}]
    BY DEF openHost
  <2> QED BY <2>1, <2>2, <2>3 DEF CallType
<1>2. Calmer /\ UNCHANGED <<handles, nativeFree>>
  BY SameHandles DEF openHost
<1>3. CASE (e \in DOMAIN hostListeners /\ isActive(hostListeners[e])) \/ e \in DOMAIN openingListeners
  <2>1. UNCHANGED <<hostListeners, openingListeners>>
    BY <1>3 DEF openHost
  <2>2. HostTyped' /\ EachItsOwn' /\ HandlesOK' /\ PortsOnce' /\ CapacityFollowsChildren'
    BY <1>1, <1>2, <2>1, CalmStep DEF HostTyped
  <2>3. OpeningsOK' /\ ListenerIsWanted'
    BY <1>1, <2>1 DEF OpeningsOK, ListenerIsWanted
  <2>4. NoForgottenListener'
    BY <1>2, <2>1 DEF NoForgottenListener
  <2> QED BY <2>2, <2>3, <2>4
<1>4. CASE ~((e \in DOMAIN hostListeners /\ isActive(hostListeners[e])) \/ e \in DOMAIN openingListeners)
  <2> DEFINE o == [canceled |-> FALSE, at |-> "siblings", handle |-> 0]
  <2>1. o \in Opening /\ o.at = "siblings"
    BY DEF Opening
  <2>2. hostListeners' = Drop(hostListeners, {e}) /\ openingListeners' = Put(openingListeners, e, o)
    BY <1>4 DEF openHost
  <2> HIDE DEF o
  <2>3. /\ DOMAIN hostListeners' = DOMAIN hostListeners \ {e}
        /\ \A f \in DOMAIN hostListeners \ {e} : hostListeners'[f] = hostListeners[f]
        /\ hostListeners' \in [DOMAIN hostListeners' -> DOMAIN handles]
    BY <2>2, DropFacts, DropTyped DEF HostTyped
  <2>4. /\ DOMAIN openingListeners' = DOMAIN openingListeners \cup {e} /\ openingListeners'[e] = o
        /\ \A f \in DOMAIN openingListeners : f # e => openingListeners'[f] = openingListeners[f]
        /\ openingListeners' \in [DOMAIN openingListeners' -> Opening]
    <3>1. openingListeners \in [DOMAIN openingListeners -> Opening]
      BY DEF HostTyped
    <3>2. openingListeners' \in [DOMAIN openingListeners' -> Opening]
      BY <2>1, <2>2, <3>1, PutTyped
    <3>3. /\ DOMAIN openingListeners' = DOMAIN openingListeners \cup {e} /\ openingListeners'[e] = o
          /\ \A f \in DOMAIN openingListeners : f # e => openingListeners'[f] = openingListeners[f]
      BY <2>2 DEF Put
    <3> QED BY <3>2, <3>3
  <2>5. HostTyped' /\ EachItsOwn' /\ HandlesOK' /\ PortsOnce' /\ CapacityFollowsChildren'
    <3>1. DOMAIN openingListeners' \subseteq Exposures
      BY <2>4 DEF HostTyped
    <3> QED BY <1>1, <1>2, <2>1, <2>3, <2>4, <3>1, CalmStep
  <2>6. OpeningsOK' /\ ListenerIsWanted'
    BY <1>1, <2>3, <2>4 DEF OpeningsOK, ListenerIsWanted
  <2>7. NoForgottenListener'
    <3>1. ASSUME NEW h \in DOMAIN handles, handles[h].state \in {"starting", "bound"}
          PROVE  handles[h].exposure # e
      BY <1>4, <3>1 DEF NoForgottenListener, isActive, Alive
    <3> QED BY <1>2, <2>3, <2>4, <3>1 DEF NoForgottenListener
  <2> QED BY <2>5, <2>6, <2>7
<1> QED BY <1>3, <1>4

\* An opening goes on to a stage without a helper, and no handle is left behind.
LEMMA AdvanceKeeps ==
  ASSUME ListenersInv, Calmer, NEW e \in DOMAIN openingListeners, NEW at \in {"native", "node"},
         Advance(e, at), UNCHANGED <<hostListeners, nativeFree>>, hostCalls' \in CallType,
         hostCalls'.wanted = hostCalls.wanted, hostCalls'.disposed = hostCalls.disposed,
         openingListeners[e].at = "starting" =>
           handles'[openingListeners[e].handle].state \notin {"starting", "bound"}
  PROVE  ListenersInv'
<1> USE DEF ListenersInv
<1>1. /\ openingListeners' \in [DOMAIN openingListeners' -> Opening]
      /\ DOMAIN openingListeners' = DOMAIN openingListeners
      /\ openingListeners'[e].at = at /\ openingListeners'[e].canceled = openingListeners[e].canceled
      /\ \A f \in DOMAIN openingListeners : f # e => openingListeners'[f] = openingListeners[f]
  BY AdvanceOK DEF HostTyped
<1>2. HostTyped' /\ EachItsOwn' /\ HandlesOK' /\ PortsOnce' /\ CapacityFollowsChildren'
  <2>1. /\ hostListeners' \in [DOMAIN hostListeners' -> DOMAIN handles]
        /\ DOMAIN openingListeners' \subseteq Exposures
    BY <1>1 DEF HostTyped
  <2>2. ASSUME NEW f \in DOMAIN openingListeners', openingListeners'[f].at = "starting"
        PROVE  /\ f \in DOMAIN openingListeners /\ openingListeners[f].at = "starting"
               /\ openingListeners'[f].handle = openingListeners[f].handle
    BY <1>1, <2>2
  <2> QED BY <1>1, <2>1, <2>2, CalmStep
<1>3. OpeningsOK' /\ ListenerIsWanted'
  BY <1>1 DEF OpeningsOK, ListenerIsWanted
<1>4. NoForgottenListener'
  <2>1. ASSUME NEW h \in DOMAIN handles, handles'[h].state \in {"starting", "bound"}
        PROVE  LET f == handles[h].exposure
               IN  \/ f \in DOMAIN hostListeners' /\ hostListeners'[f] = h
                   \/ f \in DOMAIN openingListeners' /\ openingListeners'[f].at = "starting"
                      /\ openingListeners'[f].handle = h
    <3>1. handles[h].state \in {"starting", "bound"}
      BY <2>1 DEF Calmer
    <3>2. handles[h].exposure # e \/ ~(openingListeners[e].at = "starting" /\ openingListeners[e].handle = h)
      BY <2>1
    <3>3. PICK f : f = handles[h].exposure
      OBVIOUS
    <3>4. \/ f \in DOMAIN hostListeners /\ hostListeners[f] = h
          \/ f \in DOMAIN openingListeners /\ openingListeners[f].at = "starting"
             /\ openingListeners[f].handle = h
      BY <3>1, <3>3 DEF NoForgottenListener
    <3> QED BY <1>1, <3>2, <3>3, <3>4
  <2> QED BY <2>1, CalmKeepsFound
<1> QED BY <1>2, <1>3, <1>4

LEMMA SiblingsOK ==
  ASSUME ListenersInv, NEW e \in DOMAIN openingListeners, terminateSiblings(e)
  PROVE  ListenersInv'
<1>1. Calmer
  <2> DEFINE siblings == {h \in DOMAIN handles : handles[h].kind = "native"
                            /\ HostEndpoint[handles[h].exposure] = HostEndpoint[e]}
  <2>1. handles' = handles \/ handles' = Ended(siblings)
    BY DEF terminateSiblings
  <2> HIDE DEF siblings
  <2> QED BY <2>1, SameHandles, EndedCalms DEF ListenersInv
<1>2. /\ Advance(e, "native") /\ UNCHANGED <<hostListeners, nativeFree, hostCalls>>
      /\ openingListeners[e].at = "siblings" /\ hostCalls' \in CallType
  BY DEF terminateSiblings, ListenersInv, HostTyped
<1> QED BY <1>1, <1>2, AdvanceKeeps

LEMMA NativeFailsOK ==
  ASSUME ListenersInv, NEW e \in DOMAIN openingListeners, NativeFails(e)
  PROVE  ListenersInv'
<1> DEFINE hs == {openingListeners[e].handle}
<1>1. handles' = Ended(hs) /\ openingListeners[e].handle \in hs /\ openingListeners[e].handle \in DOMAIN handles
  BY DEF NativeFails, ListenersInv, EachItsOwn
<1>2. /\ Advance(e, "node") /\ UNCHANGED <<hostListeners, nativeFree, hostCalls>> /\ hostCalls' \in CallType
  BY DEF NativeFails, ListenersInv, HostTyped
<1> HIDE DEF hs
<1>3. Calmer /\ handles'[openingListeners[e].handle].state \notin {"starting", "bound"}
  BY <1>1, EndedCalms DEF ListenersInv
<1> QED BY <1>2, <1>3, AdvanceKeeps

\* A handle more.
LEMMA OneMore ==
  ASSUME handles \in Seq(Handle), NEW x \in Handle, NEW hs, hs = Append(handles, x)
  PROVE  /\ hs \in Seq(Handle) /\ Len(handles) \in Nat
         /\ Len(handles) + 1 \notin DOMAIN handles
         /\ DOMAIN hs = DOMAIN handles \cup {Len(handles) + 1} /\ hs[Len(handles) + 1] = x
         /\ \A h \in DOMAIN handles : hs[h] = handles[h]
OBVIOUS

LEMMA HelperStartsOK ==
  ASSUME ListenersInv, NEW e \in DOMAIN openingListeners, openingListeners[e].at = "native",
         nativeFree > 0, nativeFree' = nativeFree - 1,
         handles' = Append(handles, [kind |-> "native", exposure |-> e, state |-> "starting", holds |-> FALSE]),
         openingListeners' =
           [openingListeners EXCEPT ![e].at = "starting", ![e].handle = Len(handles) + 1],
         UNCHANGED <<hostListeners, hostCalls>>
  PROVE  ListenersInv'
<1> USE DEF ListenersInv
<1>1. PICK n : n = Len(handles) + 1
  OBVIOUS
<1>2. PICK x \in Handle : /\ x = [kind |-> "native", exposure |-> e, state |-> "starting", holds |-> FALSE]
                          /\ x.kind = "native" /\ x.exposure = e /\ x.state = "starting" /\ x.holds = FALSE
  <2>1. e \in Exposures
    BY DEF HostTyped
  <2> DEFINE y == [kind |-> "native", exposure |-> e, state |-> "starting", holds |-> FALSE]
  <2>2. y \in Handle
    BY <2>1 DEF Handle
  <2>3. y.kind = "native" /\ y.exposure = e /\ y.state = "starting" /\ y.holds = FALSE
    OBVIOUS
  <2> QED BY <2>2, <2>3
<1>3. /\ handles' \in Seq(Handle) /\ n \in Nat /\ n \notin DOMAIN handles
      /\ DOMAIN handles' = DOMAIN handles \cup {n} /\ handles'[n] = x
      /\ \A h \in DOMAIN handles : handles'[h] = handles[h]
  BY <1>1, <1>2, OneMore DEF HostTyped
<1>4. /\ openingListeners' \in [DOMAIN openingListeners' -> Opening]
      /\ DOMAIN openingListeners' = DOMAIN openingListeners
      /\ openingListeners'[e].at = "starting" /\ openingListeners'[e].handle = n
      /\ openingListeners'[e].canceled = openingListeners[e].canceled
      /\ \A f \in DOMAIN openingListeners : f # e => openingListeners'[f] = openingListeners[f]
  <2> DEFINE o == [openingListeners[e] EXCEPT !.at = "starting", !.handle = n]
  <2>1. /\ o \in Opening /\ o.at = "starting" /\ o.handle = n
        /\ o.canceled = openingListeners[e].canceled
    BY <1>3 DEF Opening, HostTyped
  <2>2. openingListeners' = [openingListeners EXCEPT ![e] = o]
    BY <1>1 DEF HostTyped, Opening
  <2> HIDE DEF o
  <2> QED BY <2>1, <2>2 DEF HostTyped
<1>5. HostTyped'
  <2>1. nativeFree - 1 \in Nat
    BY DEF HostTyped
  <2> QED BY <1>3, <1>4, <2>1 DEF HostTyped
<1>6. EachItsOwn'
  <2>1. ASSUME NEW f \in DOMAIN hostListeners
        PROVE  handles'[hostListeners[f]].exposure = f
    BY <1>3 DEF EachItsOwn, HostTyped
  <2>2. ASSUME NEW f \in DOMAIN openingListeners, openingListeners'[f].at = "starting"
        PROVE  /\ openingListeners'[f].handle \in DOMAIN handles'
               /\ handles'[openingListeners'[f].handle].exposure = f
               /\ handles'[openingListeners'[f].handle].kind = "native"
    BY <1>2, <1>3, <1>4, <2>2 DEF EachItsOwn
  <2> QED BY <1>4, <2>1, <2>2 DEF EachItsOwn
<1>7. HandlesOK'
  BY <1>2, <1>3 DEF HandlesOK
<1>8. PortsOnce'
  <2>1. \A h \in DOMAIN handles' : HoldsPort(h)' => h \in DOMAIN handles /\ HoldsPort(h)
    BY <1>2, <1>3 DEF HoldsPort, Alive
  <2> QED BY <1>3, <2>1 DEF PortsOnce
<1>9. OpeningsOK' /\ ListenerIsWanted'
  BY <1>4 DEF OpeningsOK, ListenerIsWanted
<1>10. NoForgottenListener'
  <2>1. ASSUME NEW h \in DOMAIN handles', handles'[h].state \in {"starting", "bound"}
        PROVE  LET f == handles'[h].exposure
               IN  \/ f \in DOMAIN hostListeners /\ hostListeners[f] = h
                   \/ f \in DOMAIN openingListeners' /\ openingListeners'[f].at = "starting"
                      /\ openingListeners'[f].handle = h
    <3>1. CASE h = n
      BY <1>2, <1>3, <1>4, <3>1
    <3>2. CASE h # n
      <4>1. h \in DOMAIN handles /\ handles'[h] = handles[h]
        BY <1>3, <3>2
      <4> QED BY <1>4, <2>1, <4>1 DEF NoForgottenListener
    <3> QED BY <3>1, <3>2
  <2> QED BY <2>1 DEF NoForgottenListener
<1>11. CapacityFollowsChildren'
  <2>1. Natives' = Natives \cup {n} /\ n \notin Natives
    BY <1>2, <1>3 DEF Natives
  <2>2. IsFiniteSet(Natives) /\ Cardinality(Natives) \in Nat
    BY NativesFinite DEF HostTyped
  <2>3. Cardinality(Natives') = Cardinality(Natives) + 1
    BY <2>1, <2>2, FS_AddElement
  <2>4. nativeFree + Cardinality(Natives) = NativeSlots
    BY DEF CapacityFollowsChildren, Natives
  <2>5. nativeFree' + Cardinality(Natives') = NativeSlots
    BY <2>2, <2>3, <2>4 DEF HostTyped
  <2> QED BY <2>5 DEF CapacityFollowsChildren, Natives
<1> QED BY <1>5, <1>6, <1>7, <1>8, <1>9, <1>10, <1>11

LEMMA StartNativeOK ==
  ASSUME ListenersInv, NEW e \in DOMAIN openingListeners, startNative(e)
  PROVE  ListenersInv'
<1>1. CASE /\ nativeFree > 0 /\ nativeFree' = nativeFree - 1
           /\ handles' = Append(handles, [kind |-> "native", exposure |-> e,
                                          state |-> "starting", holds |-> FALSE])
           /\ openingListeners' =
                [openingListeners EXCEPT ![e].at = "starting", ![e].handle = Len(handles) + 1]
           /\ UNCHANGED hostCalls
  BY <1>1, HelperStartsOK DEF startNative
<1>2. CASE /\ IF nativeFree = 0 THEN UNCHANGED hostCalls ELSE Spend("faults")
           /\ Advance(e, "node") /\ UNCHANGED <<handles, nativeFree>>
  <2>1. hostCalls \in CallType
    BY DEF ListenersInv, HostTyped
  <2>2. /\ hostCalls' \in CallType /\ hostCalls'.wanted = hostCalls.wanted
        /\ hostCalls'.disposed = hostCalls.disposed
    BY <1>2, <2>1, SpendOK
  <2>3. Calmer
    BY <1>2, SameHandles DEF ListenersInv
  <2>4. UNCHANGED hostListeners /\ openingListeners[e].at = "native"
    BY DEF startNative
  <2> QED BY <1>2, <2>2, <2>3, <2>4, AdvanceKeeps
<1> QED BY <1>1, <1>2 DEF startNative

\* The handles after the end of an open whose result is published.
LEMMA PublishedOK ==
  ASSUME ListenersInv, NEW e \in DOMAIN openingListeners, NEW h \in DOMAIN handles',
         handles' \in Seq(Handle), handles'[h].exposure = e,
         DOMAIN handles \subseteq DOMAIN handles',
         \A g \in DOMAIN handles : handles'[g] = handles[g],
         \A g \in DOMAIN handles' : g \in DOMAIN handles \/ g = h,
         openingListeners[e].at = "starting" => openingListeners[e].handle = h,
         ~openingListeners[e].canceled, ~hostCalls.disposed,
         hostListeners' = Put(hostListeners, e, h),
         openingListeners' = Drop(openingListeners, {e}),
         UNCHANGED <<nativeFree, hostCalls>>
  PROVE  HostTyped' /\ EachItsOwn' /\ OpeningsOK' /\ ListenerIsWanted' /\ NoForgottenListener'
<1> USE DEF ListenersInv
<1>1. /\ DOMAIN hostListeners' = DOMAIN hostListeners \cup {e} /\ hostListeners'[e] = h
      /\ \A f \in DOMAIN hostListeners : f # e => hostListeners'[f] = hostListeners[f]
      /\ hostListeners' \in [DOMAIN hostListeners' -> DOMAIN handles']
  <2>1. hostListeners \in [DOMAIN hostListeners -> DOMAIN handles']
    BY DEF HostTyped
  <2> QED BY <2>1 DEF Put
<1>2. /\ DOMAIN openingListeners' = DOMAIN openingListeners \ {e}
      /\ \A f \in DOMAIN openingListeners : f # e => openingListeners'[f] = openingListeners[f]
      /\ openingListeners' \in [DOMAIN openingListeners' -> Opening]
  BY DEF Drop, HostTyped
<1>3. HostTyped'
  BY <1>1, <1>2 DEF HostTyped
<1>4. EachItsOwn'
  <2>1. ASSUME NEW f \in DOMAIN hostListeners'
        PROVE  handles'[hostListeners'[f]].exposure = f
    BY <1>1 DEF EachItsOwn, HostTyped
  <2>2. ASSUME NEW f \in DOMAIN openingListeners', openingListeners'[f].at = "starting"
        PROVE  /\ openingListeners'[f].handle \in DOMAIN handles'
               /\ handles'[openingListeners'[f].handle].exposure = f
               /\ handles'[openingListeners'[f].handle].kind = "native"
    <3>1. f \in DOMAIN openingListeners /\ openingListeners'[f] = openingListeners[f]
      BY <1>2
    <3> QED BY <2>2, <3>1 DEF EachItsOwn
  <2> QED BY <2>1, <2>2 DEF EachItsOwn
<1>5. OpeningsOK' /\ ListenerIsWanted'
  <2>1. e \in hostCalls.wanted
    BY DEF OpeningsOK
  <2> QED BY <1>1, <1>2, <2>1 DEF OpeningsOK, ListenerIsWanted
<1>6. NoForgottenListener'
  <2>1. ASSUME NEW g \in DOMAIN handles', handles'[g].state \in {"starting", "bound"}
        PROVE  LET f == handles'[g].exposure
               IN  \/ f \in DOMAIN hostListeners' /\ hostListeners'[f] = g
                   \/ f \in DOMAIN openingListeners' /\ openingListeners'[f].at = "starting"
                      /\ openingListeners'[f].handle = g
    <3>1. CASE g = h
      BY <1>1, <3>1
    <3>2. CASE g # h
      <4>1. g \in DOMAIN handles /\ handles'[g] = handles[g]
        BY <3>2
      <4>2. e \notin DOMAIN hostListeners
        BY DEF OpeningsOK
      <4>3. PICK f : f = handles[g].exposure
        OBVIOUS
      <4>4. CASE f \in DOMAIN hostListeners /\ hostListeners[f] = g
        BY <1>1, <4>1, <4>2, <4>3, <4>4
      <4>5. CASE f \in DOMAIN openingListeners /\ openingListeners[f].at = "starting"
                 /\ openingListeners[f].handle = g
        <5>1. f # e
          BY <3>2, <4>5
        <5> QED BY <1>2, <4>1, <4>3, <4>5, <5>1
      <4> QED BY <2>1, <4>1, <4>3, <4>4, <4>5 DEF NoForgottenListener
    <3> QED BY <3>1, <3>2
  <2> QED BY <2>1 DEF NoForgottenListener
<1> QED BY <1>3, <1>4, <1>5, <1>6

\* An opening ends without a result, or with one that is closed at once.
LEMMA DroppedOK ==
  ASSUME ListenersInv, Calmer, NEW e \in DOMAIN openingListeners,
         openingListeners[e].at = "starting" =>
           handles'[openingListeners[e].handle].state \notin {"starting", "bound"},
         openingListeners' = Drop(openingListeners, {e}),
         UNCHANGED <<hostListeners, nativeFree, hostCalls>>
  PROVE  ListenersInv'
<1> USE DEF ListenersInv
<1>1. /\ DOMAIN openingListeners' = DOMAIN openingListeners \ {e}
      /\ \A f \in DOMAIN openingListeners : f # e => openingListeners'[f] = openingListeners[f]
      /\ openingListeners' \in [DOMAIN openingListeners' -> Opening]
  BY DEF Drop, HostTyped
<1>2. HostTyped' /\ EachItsOwn' /\ HandlesOK' /\ PortsOnce' /\ CapacityFollowsChildren'
  <2>1. /\ hostListeners' \in [DOMAIN hostListeners' -> DOMAIN handles]
        /\ DOMAIN openingListeners' \subseteq Exposures /\ hostCalls' \in CallType
    BY <1>1 DEF HostTyped
  <2> QED BY <1>1, <2>1, CalmStep
<1>3. OpeningsOK' /\ ListenerIsWanted'
  BY <1>1 DEF OpeningsOK, ListenerIsWanted
<1>4. NoForgottenListener'
  <2>1. ASSUME NEW h \in DOMAIN handles, handles'[h].state \in {"starting", "bound"}
        PROVE  LET f == handles[h].exposure
               IN  \/ f \in DOMAIN hostListeners' /\ hostListeners'[f] = h
                   \/ f \in DOMAIN openingListeners' /\ openingListeners'[f].at = "starting"
                      /\ openingListeners'[f].handle = h
    <3>1. handles[h].state \in {"starting", "bound"}
      BY <2>1 DEF Calmer
    <3>2. ~(openingListeners[e].at = "starting" /\ openingListeners[e].handle = h)
      BY <2>1
    <3>3. PICK f : f = handles[h].exposure
      OBVIOUS
    <3>4. \/ f \in DOMAIN hostListeners /\ hostListeners[f] = h
          \/ f \in DOMAIN openingListeners /\ openingListeners[f].at = "starting"
             /\ openingListeners[f].handle = h
      BY <3>1, <3>3 DEF NoForgottenListener
    <3> QED BY <1>1, <3>2, <3>3, <3>4
  <2> QED BY <2>1, CalmKeepsFound
<1> QED BY <1>2, <1>3, <1>4

LEMMA NativeReadyOK ==
  ASSUME ListenersInv, NEW e \in DOMAIN openingListeners, NativeReady(e)
  PROVE  ListenersInv'
<1> USE DEF ListenersInv
<1>1. PICK h \in DOMAIN handles : /\ h = openingListeners[e].handle
                                  /\ handles[h].exposure = e /\ handles[h].kind = "native"
  BY DEF NativeReady, EachItsOwn
<1>2. /\ HoldsPort(h) /\ openingListeners' = Drop(openingListeners, {e})
      /\ UNCHANGED <<nativeFree, hostCalls>>
  BY <1>1 DEF NativeReady, Publish
<1>3. CASE ~openingListeners[e].canceled /\ ~hostCalls.disposed
  <2>1. handles' = handles /\ hostListeners' = Put(hostListeners, e, h)
    BY <1>1, <1>3 DEF NativeReady, Publish
  <2>2. HostTyped' /\ EachItsOwn' /\ OpeningsOK' /\ ListenerIsWanted' /\ NoForgottenListener'
    <3>1. handles' \in Seq(Handle) /\ DOMAIN handles' = DOMAIN handles
      BY <2>1 DEF HostTyped
    <3> QED BY <1>1, <1>2, <1>3, <2>1, <3>1, PublishedOK
  <2>3. HandlesOK' /\ PortsOnce' /\ CapacityFollowsChildren'
    BY <1>2, <2>1, SameHandles, CalmerOK
  <2> QED BY <2>2, <2>3
<1>4. CASE openingListeners[e].canceled \/ hostCalls.disposed
  <2> DEFINE x == [handles[h] EXCEPT !.state = IF handles[h].state = "bound" THEN "ending" ELSE handles[h].state]
  <2>0. handles[h] \in Handle
    BY HandleTyped DEF HostTyped
  <2>1. /\ x \in Handle /\ x.kind = "native" /\ x.exposure = e /\ x.holds = handles[h].holds
        /\ x.state = IF handles[h].state = "bound" THEN "ending" ELSE handles[h].state
    BY <1>1, <2>0 DEF Handle
  <2>2. handles' = [handles EXCEPT ![h] = x] /\ hostListeners' = hostListeners
    BY <1>1, <1>4 DEF NativeReady, Publish
  <2> HIDE DEF x
  <2>3. handles[h].state \in {"bound", "ending"} /\ x.state = "ending"
    BY <1>2, <2>1 DEF HandlesOK, HoldsPort, Alive
  <2>4. /\ handles' \in Seq(Handle) /\ DOMAIN handles' = DOMAIN handles /\ handles'[h] = x
        /\ \A g \in DOMAIN handles : g # h => handles'[g] = handles[g]
    BY <2>1, <2>2, OneHandle DEF HostTyped
  <2>5. Calmer
    <3>1. ASSUME NEW g \in DOMAIN handles
          PROVE  /\ handles'[g].kind = handles[g].kind /\ handles'[g].exposure = handles[g].exposure
                 /\ HoldsPort(g)' => HoldsPort(g)
                 /\ handles'[g].state \in {"starting", "bound"} => handles'[g] = handles[g]
                 /\ handles[g].kind = "native" => (handles'[g].state = "gone" <=> handles[g].state = "gone")
                 /\ handles'[g].state = "dead" => handles[g].kind = "native"
      <4>1. CASE g = h
        BY <1>1, <1>2, <2>1, <2>3, <2>4, <4>1
      <4>2. CASE g # h
        BY <2>4, <4>2 DEF HandlesOK, HoldsPort, Alive
      <4> QED BY <4>1, <4>2
    <3> QED BY <2>4, <3>1 DEF Calmer
  <2> QED BY <1>1, <1>2, <2>2, <2>3, <2>4, <2>5, DroppedOK
<1> QED BY <1>3, <1>4

\* A Node server that is added holds its port alone, counts for no capacity.
LEMMA ServerAdded ==
  ASSUME ListenersInv, NEW e \in Exposures, NEW x \in Handle, x.kind = "node", x.exposure = e,
         x.state \in {"bound", "gone"}, x.state = "bound" => PortFree(e),
         NEW n \in Nat, n \notin DOMAIN handles, DOMAIN handles' = DOMAIN handles \cup {n},
         handles'[n] = x, \A h \in DOMAIN handles : handles'[h] = handles[h], UNCHANGED nativeFree
  PROVE  HandlesOK' /\ PortsOnce' /\ CapacityFollowsChildren'
<1> USE DEF ListenersInv
<1>3. HandlesOK'
  BY DEF HandlesOK
<1>4. PortsOnce'
  <2>1. ASSUME NEW g \in DOMAIN handles', NEW h \in DOMAIN handles', HoldsPort(g)', HoldsPort(h)', g # h
        PROVE  HostEndpoint[handles'[g].exposure] # HostEndpoint[handles'[h].exposure]
    <3>1. CASE g # n /\ h # n
      BY <2>1, <3>1 DEF PortsOnce, HoldsPort, Alive
    <3>2. CASE g = n
      BY <2>1, <3>2 DEF PortFree, HoldsPort, Alive
    <3>3. CASE h = n
      BY <2>1, <3>3 DEF PortFree, HoldsPort, Alive
    <3> QED BY <3>1, <3>2, <3>3
  <2> QED BY <2>1 DEF PortsOnce
<1>5. Natives' = Natives
  BY DEF Natives
<1> QED BY <1>3, <1>4, <1>5, CapacityKept

LEMMA OpenNodeOK ==
  ASSUME ListenersInv, NEW e \in DOMAIN openingListeners, openNode(e)
  PROVE  ListenersInv'
<1> USE DEF ListenersInv
<1>1. openingListeners[e].at = "node" /\ UNCHANGED <<nativeFree, hostCalls>> /\ e \in Exposures
  BY DEF openNode, HostTyped
<1>2. CASE ~PortFree(e)
  <2>1. openingListeners' = Drop(openingListeners, {e}) /\ UNCHANGED <<handles, hostListeners>>
    BY <1>2 DEF openNode
  <2>2. Calmer
    BY <2>1, SameHandles
  <2> QED BY <1>1, <2>1, <2>2, DroppedOK
<1>3. CASE PortFree(e)
  <2> DEFINE x == [kind |-> "node", exposure |-> e, state |-> "bound", holds |-> TRUE]
             hs == Append(handles, x)
             y == [x EXCEPT !.state = "gone", !.holds = FALSE]
  <2>1. x \in Handle /\ x.kind = "node" /\ x.exposure = e /\ x.state = "bound"
    BY <1>1 DEF Handle
  <2>2. y \in Handle /\ y.kind = "node" /\ y.exposure = e /\ y.state = "gone"
    BY <2>1 DEF Handle
  <2>3. PICK n : n = Len(handles) + 1
    OBVIOUS
  <2>4. Publish(e, n, hs)
    BY <1>3, <2>3 DEF openNode
  <2> HIDE DEF x
  <2>5. /\ hs \in Seq(Handle) /\ n \in Nat /\ n \notin DOMAIN handles
        /\ DOMAIN hs = DOMAIN handles \cup {n} /\ hs[n] = x
        /\ \A h \in DOMAIN handles : hs[h] = handles[h]
    BY <2>1, <2>3, OneMore DEF HostTyped
  <2> HIDE DEF hs
  <2>6. CASE ~openingListeners[e].canceled /\ ~hostCalls.disposed
    <3>1. /\ handles' = hs /\ hostListeners' = Put(hostListeners, e, n)
          /\ openingListeners' = Drop(openingListeners, {e})
      BY <2>4, <2>6 DEF Publish
    <3>2. HandlesOK' /\ PortsOnce' /\ CapacityFollowsChildren'
      BY <1>1, <1>3, <2>1, <2>5, <3>1, ServerAdded
    <3>3. HostTyped' /\ EachItsOwn' /\ OpeningsOK' /\ ListenerIsWanted' /\ NoForgottenListener'
      <4>1. /\ n \in DOMAIN handles' /\ handles' \in Seq(Handle) /\ handles'[n].exposure = e
            /\ DOMAIN handles \subseteq DOMAIN handles'
            /\ \A g \in DOMAIN handles : handles'[g] = handles[g]
            /\ \A g \in DOMAIN handles' : g \in DOMAIN handles \/ g = n
        BY <2>1, <2>5, <3>1
      <4> QED BY <1>1, <2>6, <3>1, <4>1, PublishedOK
    <3> QED BY <3>2, <3>3
  <2>7. CASE openingListeners[e].canceled \/ hostCalls.disposed
    <3>1. /\ handles' = [hs EXCEPT ![n] = y] /\ hostListeners' = hostListeners
          /\ openingListeners' = Drop(openingListeners, {e})
      BY <2>1, <2>4, <2>5, <2>7 DEF Publish
    <3> HIDE DEF y
    <3>2. /\ handles' \in Seq(Handle) /\ DOMAIN handles' = DOMAIN handles \cup {n} /\ handles'[n] = y
          /\ \A h \in DOMAIN handles : handles'[h] = handles[h]
      BY <2>2, <2>5, <3>1
    <3>3. HandlesOK' /\ PortsOnce' /\ CapacityFollowsChildren'
      BY <1>1, <2>2, <2>5, <3>2, ServerAdded
    <3>4. /\ DOMAIN openingListeners' = DOMAIN openingListeners \ {e}
          /\ \A f \in DOMAIN openingListeners : f # e => openingListeners'[f] = openingListeners[f]
          /\ openingListeners' \in [DOMAIN openingListeners' -> Opening]
      BY <3>1 DEF Drop, HostTyped
    <3>5. HostTyped'
      BY <1>1, <3>1, <3>2, <3>4 DEF HostTyped
    <3>6. EachItsOwn'
      <4>1. ASSUME NEW f \in DOMAIN hostListeners
            PROVE  handles'[hostListeners[f]].exposure = f
        BY <3>2 DEF EachItsOwn, HostTyped
      <4>2. ASSUME NEW f \in DOMAIN openingListeners', openingListeners'[f].at = "starting"
            PROVE  /\ openingListeners'[f].handle \in DOMAIN handles'
                   /\ handles'[openingListeners'[f].handle].exposure = f
                   /\ handles'[openingListeners'[f].handle].kind = "native"
        <5>1. f \in DOMAIN openingListeners /\ openingListeners'[f] = openingListeners[f]
          BY <3>4
        <5> QED BY <3>2, <4>2, <5>1 DEF EachItsOwn
      <4> QED BY <3>1, <4>1, <4>2 DEF EachItsOwn
    <3>7. OpeningsOK' /\ ListenerIsWanted'
      BY <1>1, <3>1, <3>4 DEF OpeningsOK, ListenerIsWanted
    <3>8. NoForgottenListener'
      <4>1. ASSUME NEW h \in DOMAIN handles', handles'[h].state \in {"starting", "bound"}
            PROVE  LET f == handles'[h].exposure
                   IN  \/ f \in DOMAIN hostListeners' /\ hostListeners'[f] = h
                       \/ f \in DOMAIN openingListeners' /\ openingListeners'[f].at = "starting"
                          /\ openingListeners'[f].handle = h
        <5>1. h \in DOMAIN handles /\ handles'[h] = handles[h]
          BY <2>2, <3>2, <4>1
        <5>2. PICK f : f = handles[h].exposure
          OBVIOUS
        <5>3. \/ f \in DOMAIN hostListeners /\ hostListeners[f] = h
              \/ f \in DOMAIN openingListeners /\ openingListeners[f].at = "starting"
                 /\ openingListeners[f].handle = h
          BY <4>1, <5>1, <5>2 DEF NoForgottenListener
        <5> QED BY <1>1, <3>1, <3>4, <5>1, <5>2, <5>3
      <4> QED BY <4>1 DEF NoForgottenListener
    <3> QED BY <3>3, <3>5, <3>6, <3>7, <3>8
  <2> QED BY <2>6, <2>7
<1> QED BY <1>2, <1>3

-----------------------------------------------------------------------------
(* close and dispose                                                        *)

LEMMA ClosingOK ==
  ASSUME ListenersInv, NEW es \in SUBSET Exposures, Closing(es), UNCHANGED nativeFree,
         hostCalls' \in CallType,
         hostCalls'.wanted = hostCalls.wanted \ es,
         ~hostCalls'.disposed => ~hostCalls.disposed
  PROVE  ListenersInv'
<1> USE DEF ListenersInv
<1> DEFINE hs == {hostListeners[e] : e \in es \cap DOMAIN hostListeners}
<1>1. handles' = Ended(hs) /\ \A e \in es : e \in DOMAIN hostListeners => hostListeners[e] \in hs
  BY DEF Closing
<1> HIDE DEF hs
<1>2. Calmer /\ \A h \in DOMAIN handles : h \in hs => handles'[h].state \notin {"starting", "bound"}
  BY <1>1, EndedCalms
<1>3. /\ DOMAIN hostListeners' = DOMAIN hostListeners \ es
      /\ \A e \in DOMAIN hostListeners : e \notin es => hostListeners'[e] = hostListeners[e]
      /\ hostListeners' \in [DOMAIN hostListeners' -> DOMAIN handles]
  BY DEF Closing, Drop, HostTyped
<1>4. DOMAIN openingListeners' = DOMAIN openingListeners
  BY DEF Closing
<1>5. ASSUME NEW e \in DOMAIN openingListeners
      PROVE  /\ openingListeners'[e] \in Opening /\ openingListeners'[e].at = openingListeners[e].at
             /\ openingListeners'[e].handle = openingListeners[e].handle
             /\ ~openingListeners'[e].canceled => ~openingListeners[e].canceled /\ e \notin es
  <2> DEFINE c == openingListeners[e].canceled \/ e \in es
  <2>1. openingListeners[e] \in Opening
    BY DEF HostTyped
  <2>2. c \in BOOLEAN /\ (~c => ~openingListeners[e].canceled /\ e \notin es)
    OBVIOUS
  <2>3. openingListeners'[e] = [openingListeners[e] EXCEPT !.canceled = c]
    BY DEF Closing
  <2> HIDE DEF c
  <2> QED BY <2>1, <2>2, <2>3 DEF Opening
<1>6. HostTyped' /\ EachItsOwn' /\ HandlesOK' /\ PortsOnce' /\ CapacityFollowsChildren'
  <2>1. openingListeners' \in [DOMAIN openingListeners' -> Opening]
    BY <1>5 DEF Closing
  <2>2. DOMAIN openingListeners' \subseteq Exposures
    BY <1>4 DEF HostTyped
  <2>3. DOMAIN hostListeners' \subseteq DOMAIN hostListeners
        /\ \A e \in DOMAIN hostListeners' : hostListeners'[e] = hostListeners[e]
    BY <1>3
  <2>4. \A e \in DOMAIN openingListeners' : openingListeners'[e].at = "starting" =>
          /\ e \in DOMAIN openingListeners /\ openingListeners[e].at = "starting"
          /\ openingListeners'[e].handle = openingListeners[e].handle
    BY <1>4, <1>5
  <2> QED BY <1>2, <1>3, <2>1, <2>2, <2>3, <2>4, CalmStep
<1>7. OpeningsOK'
  <2>1. ASSUME NEW e \in DOMAIN openingListeners, ~openingListeners'[e].canceled, ~hostCalls'.disposed
        PROVE  e \in hostCalls'.wanted
    BY <1>5, <2>1 DEF OpeningsOK
  <2> QED BY <1>3, <1>4, <2>1 DEF OpeningsOK
<1>8. ListenerIsWanted'
  BY <1>3 DEF ListenerIsWanted
<1>9. NoForgottenListener'
  <2>1. ASSUME NEW h \in DOMAIN handles, handles'[h].state \in {"starting", "bound"}
        PROVE  LET f == handles[h].exposure
               IN  \/ f \in DOMAIN hostListeners' /\ hostListeners'[f] = h
                   \/ f \in DOMAIN openingListeners' /\ openingListeners'[f].at = "starting"
                      /\ openingListeners'[f].handle = h
    <3>1. handles[h].state \in {"starting", "bound"} /\ h \notin hs
      BY <1>2, <2>1 DEF Calmer
    <3>2. PICK f : f = handles[h].exposure
      OBVIOUS
    <3>3. \/ f \in DOMAIN hostListeners /\ hostListeners[f] = h
          \/ f \in DOMAIN openingListeners /\ openingListeners[f].at = "starting"
             /\ openingListeners[f].handle = h
      BY <3>1, <3>2 DEF NoForgottenListener
    <3> QED BY <1>1, <1>3, <1>4, <1>5, <3>1, <3>2, <3>3
  <2> QED BY <1>2, <2>1, CalmKeepsFound
<1> QED BY <1>6, <1>7, <1>8, <1>9

LEMMA CloseHostOK ==
  ASSUME ListenersInv, NEW e \in Exposures, closeHost(e)
  PROVE  ListenersInv'
<1>1. hostCalls \in CallType /\ hostCalls.closes > 0
  BY DEF ListenersInv, HostTyped, closeHost
<1>2. hostCalls.closes - 1 \in Nat /\ hostCalls.wanted \ {e} \in SUBSET Exposures
  BY <1>1 DEF CallType
<1>3. hostCalls' = [hostCalls EXCEPT !.closes = hostCalls.closes - 1, !.wanted = hostCalls.wanted \ {e}]
  BY DEF closeHost
<1>4. /\ hostCalls' \in CallType /\ hostCalls'.wanted = hostCalls.wanted \ {e}
      /\ hostCalls'.disposed = hostCalls.disposed
  BY <1>1, <1>2, <1>3 DEF CallType
<1>5. Closing({e}) /\ UNCHANGED nativeFree
  BY DEF closeHost
<1> QED BY <1>4, <1>5, ClosingOK

LEMMA DisposeHostOK ==
  ASSUME ListenersInv, disposeHost
  PROVE  ListenersInv'
<1>1. hostCalls \in CallType /\ hostCalls' = [hostCalls EXCEPT !.disposed = TRUE, !.wanted = {}]
  BY DEF ListenersInv, HostTyped, disposeHost
<1>2. /\ hostCalls' \in CallType /\ hostCalls'.wanted = hostCalls.wanted \ Exposures
      /\ hostCalls'.disposed = TRUE
  BY <1>1 DEF CallType
<1>3. Closing(Exposures) /\ UNCHANGED nativeFree
  BY DEF disposeHost
<1> QED BY <1>2, <1>3, ClosingOK

-----------------------------------------------------------------------------
(* The helper processes                                                     *)

LEMMA HelperBindsOK ==
  ASSUME ListenersInv, NEW h \in DOMAIN handles, HelperBinds(h)
  PROVE  ListenersInv'
<1> USE DEF ListenersInv
<1> DEFINE x == [handles[h] EXCEPT !.state = "bound", !.holds = TRUE]
<1>0. handles[h] \in Handle
  BY HandleTyped DEF HostTyped
<1>1. x \in Handle /\ x.kind = handles[h].kind /\ x.exposure = handles[h].exposure /\ x.state = "bound"
  BY <1>0 DEF Handle
<1>2. /\ handles[h].state = "starting" /\ PortFree(handles[h].exposure)
      /\ handles' = [handles EXCEPT ![h] = x]
      /\ UNCHANGED <<hostListeners, openingListeners, nativeFree, hostCalls>>
  BY <1>0 DEF HelperBinds, Handle
<1> HIDE DEF x
<1>3. /\ handles' \in Seq(Handle) /\ DOMAIN handles' = DOMAIN handles /\ handles'[h] = x
      /\ \A g \in DOMAIN handles : g # h => handles'[g] = handles[g]
  BY <1>1, <1>2, OneHandle DEF HostTyped
<1>4. \A g \in DOMAIN handles : /\ handles'[g].kind = handles[g].kind
                                /\ handles'[g].exposure = handles[g].exposure
  BY <1>1, <1>3
<1>5. HostTyped'
  BY <1>2, <1>3 DEF HostTyped
<1>6. EachItsOwn'
  BY <1>2, <1>3, <1>4 DEF EachItsOwn, HostTyped
<1>7. HandlesOK'
  BY <1>1, <1>3 DEF HandlesOK
<1>8. PortsOnce'
  <2>1. ASSUME NEW f \in DOMAIN handles, NEW g \in DOMAIN handles, HoldsPort(f)', HoldsPort(g)', f # g
        PROVE  HostEndpoint[handles'[f].exposure] # HostEndpoint[handles'[g].exposure]
    <3>1. CASE f # h /\ g # h
      BY <1>3, <2>1, <3>1 DEF PortsOnce, HoldsPort, Alive
    <3>2. CASE f = h
      BY <1>2, <1>3, <1>4, <2>1, <3>2 DEF PortFree, HoldsPort, Alive
    <3>3. CASE g = h
      BY <1>2, <1>3, <1>4, <2>1, <3>3 DEF PortFree, HoldsPort, Alive
    <3> QED BY <3>1, <3>2, <3>3
  <2> QED BY <1>3, <2>1 DEF PortsOnce
<1>9. OpeningsOK' /\ ListenerIsWanted'
  BY <1>2 DEF OpeningsOK, ListenerIsWanted
<1>10. NoForgottenListener'
  <2>1. \A g \in DOMAIN handles : handles'[g].state \in {"starting", "bound"} =>
          handles[g].state \in {"starting", "bound"}
    BY <1>2, <1>3
  <2> QED BY <1>2, <1>3, <1>4, <2>1 DEF NoForgottenListener
<1>11. Natives' = Natives
  BY <1>1, <1>2, <1>3 DEF Natives
<1> QED BY <1>2, <1>5, <1>6, <1>7, <1>8, <1>9, <1>10, <1>11, CapacityKept

\* Nothing but the state of handles and the calls changed.
LEMMA CalmOnly ==
  ASSUME ListenersInv, Calmer, UNCHANGED <<hostListeners, openingListeners, nativeFree>>,
         hostCalls' \in CallType, hostCalls'.wanted = hostCalls.wanted,
         hostCalls'.disposed = hostCalls.disposed
  PROVE  ListenersInv'
<1> USE DEF ListenersInv
<1>1. HostTyped' /\ EachItsOwn' /\ HandlesOK' /\ PortsOnce' /\ CapacityFollowsChildren'
  BY CalmStep DEF HostTyped
<1>2. OpeningsOK' /\ ListenerIsWanted'
  BY DEF OpeningsOK, ListenerIsWanted
<1>3. NoForgottenListener'
  BY DEF NoForgottenListener, Calmer
<1> QED BY <1>1, <1>2, <1>3

LEMMA HelperEndsOK ==
  ASSUME ListenersInv, NEW h \in DOMAIN handles, HelperEnds(h)
  PROVE  ListenersInv'
<1> DEFINE x == [handles[h] EXCEPT !.state = "dead", !.holds = FALSE]
<1>0. handles[h] \in Handle /\ hostCalls \in CallType /\ handles \in Seq(Handle)
  BY HandleTyped DEF ListenersInv, HostTyped
<1>1. x \in Handle /\ x.kind = handles[h].kind /\ x.exposure = handles[h].exposure /\ x.state = "dead"
  BY <1>0 DEF Handle
<1>2. /\ handles[h].kind = "native" /\ Alive(h) /\ handles' = [handles EXCEPT ![h] = x]
      /\ UNCHANGED hostCalls \/ Spend("faults")
      /\ UNCHANGED <<hostListeners, openingListeners, nativeFree>>
  BY <1>0 DEF HelperEnds, Handle
<1> HIDE DEF x
<1>3. /\ handles' \in Seq(Handle) /\ DOMAIN handles' = DOMAIN handles /\ handles'[h] = x
      /\ \A g \in DOMAIN handles : g # h => handles'[g] = handles[g]
  BY <1>0, <1>1, <1>2, OneHandle
<1>4. Calmer
  <2>1. ASSUME NEW g \in DOMAIN handles
        PROVE  /\ handles'[g].kind = handles[g].kind /\ handles'[g].exposure = handles[g].exposure
               /\ HoldsPort(g)' => HoldsPort(g)
               /\ handles'[g].state \in {"starting", "bound"} => handles'[g] = handles[g]
               /\ handles[g].kind = "native" => (handles'[g].state = "gone" <=> handles[g].state = "gone")
               /\ handles'[g].state = "dead" => handles[g].kind = "native"
    <3>1. CASE g = h
      BY <1>1, <1>2, <1>3, <3>1 DEF HoldsPort, Alive
    <3>2. CASE g # h
      BY <1>3, <3>2 DEF ListenersInv, HandlesOK, HoldsPort, Alive
    <3> QED BY <3>1, <3>2
  <2> QED BY <1>3, <2>1 DEF Calmer
<1>5. /\ hostCalls' \in CallType /\ hostCalls'.wanted = hostCalls.wanted
      /\ hostCalls'.disposed = hostCalls.disposed
  BY <1>0, <1>2, SpendOK
<1> QED BY <1>2, <1>4, <1>5, CalmOnly

LEMMA ExitNoticedOK ==
  ASSUME ListenersInv, NEW h \in DOMAIN handles, ExitNoticed(h)
  PROVE  ListenersInv'
<1> USE DEF ListenersInv
<1> DEFINE x == [handles[h] EXCEPT !.state = "gone"]
<1>0. handles[h] \in Handle
  BY HandleTyped DEF HostTyped
<1>1. x \in Handle /\ x.kind = handles[h].kind /\ x.exposure = handles[h].exposure /\ x.state = "gone"
  BY <1>0 DEF Handle
<1>2. /\ handles[h].state = "dead" /\ handles[h].kind = "native" /\ nativeFree' = nativeFree + 1
      /\ handles' = [handles EXCEPT ![h] = x]
      /\ UNCHANGED <<hostListeners, openingListeners, hostCalls>>
  BY DEF ExitNoticed, HandlesOK
<1> HIDE DEF x
<1>3. /\ handles' \in Seq(Handle) /\ DOMAIN handles' = DOMAIN handles /\ handles'[h] = x
      /\ \A g \in DOMAIN handles : g # h => handles'[g] = handles[g]
  BY <1>1, <1>2, OneHandle DEF HostTyped
<1>4. \A g \in DOMAIN handles : /\ handles'[g].kind = handles[g].kind
                                /\ handles'[g].exposure = handles[g].exposure
  BY <1>1, <1>3
<1>5. HostTyped'
  BY <1>2, <1>3 DEF HostTyped
<1>6. EachItsOwn'
  BY <1>2, <1>3, <1>4 DEF EachItsOwn, HostTyped
<1>7. HandlesOK'
  BY <1>1, <1>3 DEF HandlesOK
<1>8. PortsOnce'
  <2>1. \A g \in DOMAIN handles : HoldsPort(g)' => HoldsPort(g)
    BY <1>1, <1>3 DEF HoldsPort, Alive
  <2> QED BY <1>3, <1>4, <2>1 DEF PortsOnce
<1>9. OpeningsOK' /\ ListenerIsWanted'
  BY <1>2 DEF OpeningsOK, ListenerIsWanted
<1>10. NoForgottenListener'
  <2>1. \A g \in DOMAIN handles : handles'[g].state \in {"starting", "bound"} =>
          handles[g].state \in {"starting", "bound"}
    BY <1>1, <1>3
  <2> QED BY <1>2, <1>3, <1>4, <2>1 DEF NoForgottenListener
<1>11. CapacityFollowsChildren'
  <2>1. Natives' = Natives \ {h} /\ h \in Natives
    BY <1>1, <1>2, <1>3 DEF Natives
  <2>2. IsFiniteSet(Natives) /\ Cardinality(Natives) \in Nat
    BY NativesFinite DEF HostTyped
  <2>3. Cardinality(Natives') = Cardinality(Natives) - 1
    BY <2>1, <2>2, FS_RemoveElement
  <2>4. nativeFree + Cardinality(Natives) = NativeSlots
    BY DEF CapacityFollowsChildren, Natives
  <2>5. nativeFree' + Cardinality(Natives') = NativeSlots
    BY <1>2, <2>2, <2>3, <2>4 DEF HostTyped
  <2> QED BY <2>5 DEF CapacityFollowsChildren, Natives
<1> QED BY <1>5, <1>6, <1>7, <1>8, <1>9, <1>10, <1>11

-----------------------------------------------------------------------------
(* The targets and their lookups                                            *)

\* A step that starts and ends no lookup and at most forgets entries.
LEMMA EntriesForgotten ==
  ASSUME LookupsOK, UNCHANGED lookups, hostCalls'.clients = hostCalls.clients,
         DOMAIN targetCache' \subseteq DOMAIN targetCache,
         \A e \in DOMAIN targetCache' : targetCache'[e] = targetCache[e],
         targetCache' \in [DOMAIN targetCache' -> Entry]
  PROVE  LookupsOK'
<1>1. ASSUME NEW e \in DOMAIN targetCache'
      PROVE  /\ targetCache'[e].job > hostCalls'.clients
             /\ targetCache'[e].job \in DOMAIN lookups => lookups[targetCache'[e].job] = e
             /\ targetCache'[e].age = "pending" <=> targetCache'[e].job \in DOMAIN lookups
  <2>1. e \in DOMAIN targetCache /\ targetCache'[e] = targetCache[e]
    OBVIOUS
  <2> QED BY <2>1 DEF LookupsOK
<1> QED BY <1>1 DEF LookupsOK

LEMMA EntriesKept ==
  ASSUME LookupsOK, UNCHANGED <<lookups, targetCache>>, hostCalls'.clients = hostCalls.clients
  PROVE  LookupsOK'
BY DEF LookupsOK

LEMMA EntryDropped ==
  ASSUME LookupsOK, UNCHANGED lookups, hostCalls'.clients = hostCalls.clients, NEW es,
         targetCache' = Drop(targetCache, es)
  PROVE  LookupsOK'
<1>1. /\ DOMAIN targetCache' \subseteq DOMAIN targetCache
      /\ \A e \in DOMAIN targetCache' : targetCache'[e] = targetCache[e]
  BY DEF Drop
<1>2. targetCache' \in [DOMAIN targetCache' -> Entry]
  BY DEF Drop, LookupsOK
<1> QED BY <1>1, <1>2, EntriesForgotten

LEMMA ResolveOK ==
  ASSUME HostInv, NEW e \in Exposures, resolveTarget(e)
  PROVE  HostInv'
<1>1. hostCalls \in CallType /\ Spend("clients") /\ hostCalls.clients \in Nat
  BY DEF HostInv, ListenersInv, HostTyped, resolveTarget, CallType
<1>2. /\ hostCalls' \in CallType /\ hostCalls'.disposed = hostCalls.disposed
      /\ hostCalls'.wanted = hostCalls.wanted
      /\ hostCalls.clients > 0 /\ hostCalls'.clients = hostCalls.clients - 1
  BY <1>1, SpendOK
<1>3. ListenersInv'
  <2>1. UNCHANGED <<handles, hostListeners, openingListeners, nativeFree>>
    BY DEF resolveTarget
  <2>2. Calmer
    BY <2>1, SameHandles DEF HostInv, ListenersInv
  <2> QED BY <1>2, <2>1, <2>2, CalmOnly DEF HostInv
<1>4. LookupsOK'
  <2> USE DEF HostInv
  <2>1. CASE UNCHANGED <<targetCache, lookups>>
    <3>1. \A f \in DOMAIN targetCache : targetCache[f].job \in Nat
      BY DEF LookupsOK, Entry
    <3> QED BY <1>1, <1>2, <2>1, <3>1 DEF LookupsOK
  <2>2. CASE /\ lookups' = Put(lookups, hostCalls.clients, e)
             /\ targetCache' = Put(targetCache, e, [job |-> hostCalls.clients, age |-> "pending"])
    <3>1. PICK c \in Nat : c = hostCalls.clients
      BY <1>1
    <3> DEFINE x == [job |-> c, age |-> "pending"]
    <3>2. x \in Entry /\ x.job = c /\ x.age = "pending"
      BY DEF Entry
    <3>3. targetCache' = Put(targetCache, e, x)
      BY <2>2, <3>1
    <3> HIDE DEF x
    <3>4. /\ DOMAIN targetCache' = DOMAIN targetCache \cup {e} /\ targetCache'[e] = x
          /\ \A f \in DOMAIN targetCache : f # e => targetCache'[f] = targetCache[f]
      BY <3>3 DEF Put
    <3>5. targetCache' \in [DOMAIN targetCache' -> Entry]
      BY <3>2, <3>3, PutTyped DEF LookupsOK
    <3>6. /\ DOMAIN lookups' = DOMAIN lookups \cup {c} /\ lookups'[c] = e
          /\ \A j \in DOMAIN lookups : j # c => lookups'[j] = lookups[j]
      BY <2>2, <3>1 DEF Put
    <3>7. \A j \in DOMAIN lookups' : j \in Nat /\ j > hostCalls'.clients
      BY <1>2, <3>1, <3>6 DEF LookupsOK
    <3>8. ASSUME NEW f \in DOMAIN targetCache'
          PROVE  /\ targetCache'[f].job > hostCalls'.clients
                 /\ targetCache'[f].job \in DOMAIN lookups' => lookups'[targetCache'[f].job] = f
                 /\ targetCache'[f].age = "pending" <=> targetCache'[f].job \in DOMAIN lookups'
      <4>1. CASE f = e
        BY <1>2, <3>1, <3>2, <3>4, <3>6, <4>1
      <4>2. CASE f # e
        <5>1. f \in DOMAIN targetCache /\ targetCache'[f] = targetCache[f] /\ targetCache[f].job \in Nat
          BY <3>4, <4>2 DEF LookupsOK, Entry
        <5>2. /\ targetCache[f].job > c
              /\ targetCache[f].job \in DOMAIN lookups => lookups[targetCache[f].job] = f
              /\ targetCache[f].age = "pending" <=> targetCache[f].job \in DOMAIN lookups
          BY <3>1, <5>1 DEF LookupsOK
        <5>3. targetCache[f].job # c /\ targetCache[f].job > hostCalls'.clients
          BY <1>2, <3>1, <5>1, <5>2
        <5> QED BY <3>6, <5>1, <5>2, <5>3
      <4> QED BY <4>1, <4>2
    <3> QED BY <3>5, <3>7, <3>8 DEF LookupsOK
  <2> QED BY <2>1, <2>2 DEF resolveTarget
<1> QED BY <1>3, <1>4 DEF HostInv

LEMMA LookupEndsOK ==
  ASSUME LookupsOK, NEW j \in DOMAIN lookups, NEW found \in BOOLEAN, LookupEnds(j, found)
  PROVE  LookupsOK'
<1>1. PICK e : e = lookups[j]
  OBVIOUS
<1>2. /\ DOMAIN lookups' = DOMAIN lookups \ {j}
      /\ \A i \in DOMAIN lookups : i # j => lookups'[i] = lookups[i]
  BY DEF LookupEnds, Drop
<1>3. \A i \in DOMAIN lookups' : i \in Nat /\ i > hostCalls'.clients
  BY <1>2 DEF LookupEnds, LookupsOK
<1>4. ASSUME NEW f \in DOMAIN targetCache, targetCache[f].job # j
      PROVE  /\ targetCache[f].job > hostCalls'.clients
             /\ targetCache[f].job \in DOMAIN lookups' => lookups'[targetCache[f].job] = f
             /\ targetCache[f].age = "pending" <=> targetCache[f].job \in DOMAIN lookups'
  <2>1. /\ targetCache[f].job > hostCalls.clients
        /\ targetCache[f].job \in DOMAIN lookups => lookups[targetCache[f].job] = f
        /\ targetCache[f].age = "pending" <=> targetCache[f].job \in DOMAIN lookups
    BY DEF LookupsOK
  <2>2. hostCalls' = hostCalls
    BY DEF LookupEnds
  <2> QED BY <1>2, <1>4, <2>1, <2>2
<1>5. \A f \in DOMAIN targetCache : targetCache[f].job = j => f = e
  BY <1>1 DEF LookupsOK
<1>6. CASE ~(e \in DOMAIN targetCache /\ targetCache[e].job = j)
  <2>1. targetCache' = targetCache
    BY <1>1, <1>6 DEF LookupEnds
  <2> QED BY <1>3, <1>4, <1>5, <1>6, <2>1 DEF LookupsOK
<1>7. CASE e \in DOMAIN targetCache /\ targetCache[e].job = j /\ found
  <2> DEFINE x == [targetCache[e] EXCEPT !.age = "fresh"]
  <2>1. x \in Entry /\ x.job = j /\ x.age = "fresh"
    BY <1>7 DEF LookupsOK, Entry
  <2>2. targetCache' = [targetCache EXCEPT ![e] = x]
    BY <1>1, <1>7 DEF LookupEnds
  <2> HIDE DEF x
  <2>3. /\ DOMAIN targetCache' = DOMAIN targetCache /\ targetCache'[e] = x
        /\ \A f \in DOMAIN targetCache : f # e => targetCache'[f] = targetCache[f]
        /\ targetCache' \in [DOMAIN targetCache' -> Entry]
    BY <1>7, <2>1, <2>2 DEF LookupsOK
  <2>4. ASSUME NEW f \in DOMAIN targetCache'
        PROVE  /\ targetCache'[f].job > hostCalls'.clients
               /\ targetCache'[f].job \in DOMAIN lookups' => lookups'[targetCache'[f].job] = f
               /\ targetCache'[f].age = "pending" <=> targetCache'[f].job \in DOMAIN lookups'
    <3>1. CASE f = e
      <4>1. j > hostCalls'.clients
        BY DEF LookupEnds, LookupsOK
      <4> QED BY <1>2, <2>1, <2>3, <3>1, <4>1
    <3>2. CASE f # e
      <4>1. f \in DOMAIN targetCache /\ targetCache'[f] = targetCache[f] /\ targetCache[f].job # j
        BY <1>5, <2>3, <3>2
      <4> QED BY <1>4, <4>1
    <3> QED BY <3>1, <3>2
  <2> QED BY <1>3, <2>3, <2>4 DEF LookupsOK
<1>8. CASE e \in DOMAIN targetCache /\ targetCache[e].job = j /\ ~found
  <2>1. targetCache' = Drop(targetCache, {e})
    BY <1>1, <1>8 DEF LookupEnds
  <2>2. /\ DOMAIN targetCache' = DOMAIN targetCache \ {e}
        /\ \A f \in DOMAIN targetCache : f # e => targetCache'[f] = targetCache[f]
        /\ targetCache' \in [DOMAIN targetCache' -> Entry]
    BY <2>1 DEF Drop, LookupsOK
  <2>3. ASSUME NEW f \in DOMAIN targetCache'
        PROVE  /\ targetCache'[f].job > hostCalls'.clients
               /\ targetCache'[f].job \in DOMAIN lookups' => lookups'[targetCache'[f].job] = f
               /\ targetCache'[f].age = "pending" <=> targetCache'[f].job \in DOMAIN lookups'
    <3>1. f \in DOMAIN targetCache /\ targetCache'[f] = targetCache[f] /\ targetCache[f].job # j
      BY <1>5, <2>2
    <3> QED BY <1>4, <3>1
  <2> QED BY <1>3, <2>2, <2>3 DEF LookupsOK
<1> QED BY <1>6, <1>7, <1>8

LEMMA TargetExpiresOK ==
  ASSUME LookupsOK, NEW e \in DOMAIN targetCache, TargetExpires(e)
  PROVE  LookupsOK'
<1> DEFINE x == [targetCache[e] EXCEPT !.age = "expired"]
<1>1. x \in Entry /\ x.job = targetCache[e].job /\ x.age = "expired"
  BY DEF LookupsOK, Entry
<1>2. /\ targetCache' = [targetCache EXCEPT ![e] = x] /\ targetCache[e].age = "fresh"
      /\ UNCHANGED <<lookups, hostCalls>>
  BY DEF TargetExpires
<1> HIDE DEF x
<1>3. /\ DOMAIN targetCache' = DOMAIN targetCache /\ targetCache'[e] = x
      /\ \A f \in DOMAIN targetCache : f # e => targetCache'[f] = targetCache[f]
      /\ targetCache' \in [DOMAIN targetCache' -> Entry]
  BY <1>1, <1>2 DEF LookupsOK
<1>4. \A f \in DOMAIN targetCache : targetCache'[f].job = targetCache[f].job
                                    /\ (targetCache'[f].age = "pending" <=> targetCache[f].age = "pending")
  BY <1>1, <1>2, <1>3
<1> QED BY <1>2, <1>3, <1>4 DEF LookupsOK

-----------------------------------------------------------------------------
(* The invariant                                                            *)

\* The calls and the faults a run of the window may see.
Scenes == [opens : Nat, closes : Nat, disposals : Nat, clients : Nat, faults : Nat]

LEMMA HostInitOK ==
  ASSUME NEW scene \in Scenes, HostInit(scene)
  PROVE  HostInv
<1>1. hostCalls \in CallType /\ hostCalls.wanted = {}
  <2>1. {} \in SUBSET Exposures /\ FALSE \in BOOLEAN
    OBVIOUS
  <2> QED BY <2>1 DEF HostInit, CallType, Scenes
<1>2. /\ handles = <<>> /\ hostListeners = <<>> /\ openingListeners = <<>> /\ targetCache = <<>>
      /\ lookups = <<>> /\ nativeFree = NativeSlots
  BY DEF HostInit
<1>3. DOMAIN handles = {} /\ DOMAIN hostListeners = {} /\ DOMAIN openingListeners = {}
      /\ DOMAIN targetCache = {} /\ DOMAIN lookups = {}
  BY <1>2
<1>4. HostTyped
  <2>1. handles \in Seq(Handle)
    BY <1>2
  <2>2. hostListeners \in [DOMAIN hostListeners -> DOMAIN handles]
        /\ openingListeners \in [DOMAIN openingListeners -> Opening]
    BY <1>2, <1>3
  <2>3. DOMAIN hostListeners \cup DOMAIN openingListeners \subseteq Exposures
    BY <1>3
  <2> QED BY <1>1, <1>2, <2>1, <2>2, <2>3, SlotsAssumption DEF HostTyped
<1>5. EachItsOwn /\ HandlesOK /\ PortsOnce /\ OpeningsOK /\ ListenerIsWanted /\ NoForgottenListener
  BY <1>3 DEF EachItsOwn, HandlesOK, PortsOnce, OpeningsOK, ListenerIsWanted, NoForgottenListener
<1>6. CapacityFollowsChildren
  <2>1. Natives = {}
    BY <1>3 DEF Natives
  <2>2. Cardinality(Natives) = 0
    BY <2>1, FS_EmptySet
  <2>3. nativeFree + Cardinality(Natives) = NativeSlots
    BY <1>2, <2>2, SlotsAssumption
  <2> QED BY <2>3 DEF CapacityFollowsChildren, Natives
<1>7. LookupsOK
  <2>1. targetCache \in [DOMAIN targetCache -> Entry]
    BY <1>2, <1>3
  <2> QED BY <1>3, <2>1 DEF LookupsOK
<1> QED BY <1>4, <1>5, <1>6, <1>7 DEF HostInv, ListenersInv

LEMMA HostInvStep ==
  ASSUME HostInv, [HostNext]_hostVars
  PROVE  HostInv'
<1>0. ListenersInv /\ LookupsOK /\ hostCalls \in CallType
  BY DEF HostInv, ListenersInv, HostTyped
<1>1. ASSUME NEW e \in Exposures, openHost(e) PROVE HostInv'
  <2>1. UNCHANGED lookups /\ hostCalls'.clients = hostCalls.clients
    BY <1>0, <1>1 DEF openHost, CallType
  <2>2. targetCache' = targetCache \/ targetCache' = Drop(targetCache, {e})
    BY <1>1 DEF openHost
  <2> QED BY <1>0, <1>1, <2>1, <2>2, OpenHostOK, EntriesKept, EntryDropped DEF HostInv
<1>2. ASSUME NEW e \in Exposures, closeHost(e) PROVE HostInv'
  <2>1. /\ UNCHANGED lookups /\ hostCalls'.clients = hostCalls.clients
        /\ targetCache' = Drop(targetCache, {e})
    BY <1>0, <1>2 DEF closeHost, CallType
  <2> QED BY <1>0, <1>2, <2>1, CloseHostOK, EntryDropped DEF HostInv
<1>3. ASSUME NEW e \in Exposures, resolveTarget(e) PROVE HostInv'
  BY <1>3, ResolveOK
<1>4. CASE disposeHost
  <2>1. UNCHANGED lookups /\ hostCalls'.clients = hostCalls.clients /\ targetCache' = <<>>
    BY <1>0, <1>4 DEF disposeHost, CallType
  <2>2. /\ DOMAIN targetCache' \subseteq DOMAIN targetCache
        /\ \A e \in DOMAIN targetCache' : targetCache'[e] = targetCache[e]
        /\ targetCache' \in [DOMAIN targetCache' -> Entry]
    BY <2>1
  <2> QED BY <1>0, <1>4, <2>1, <2>2, DisposeHostOK, EntriesForgotten DEF HostInv
<1>5. ASSUME NEW e \in DOMAIN openingListeners, terminateSiblings(e) PROVE HostInv'
  BY <1>0, <1>5, SiblingsOK, EntriesKept DEF HostInv, terminateSiblings
<1>6. ASSUME NEW e \in DOMAIN openingListeners, startNative(e) PROVE HostInv'
  <2>1. UNCHANGED <<lookups, targetCache>> /\ (UNCHANGED hostCalls \/ Spend("faults"))
    BY <1>6 DEF startNative
  <2>2. hostCalls'.clients = hostCalls.clients
    BY <1>0, <2>1, SpendOK
  <2> QED BY <1>0, <1>6, <2>1, <2>2, StartNativeOK, EntriesKept DEF HostInv
<1>7. ASSUME NEW e \in DOMAIN openingListeners, NativeReady(e) PROVE HostInv'
  BY <1>0, <1>7, NativeReadyOK, EntriesKept DEF HostInv, NativeReady
<1>8. ASSUME NEW e \in DOMAIN openingListeners, NativeFails(e) PROVE HostInv'
  BY <1>0, <1>8, NativeFailsOK, EntriesKept DEF HostInv, NativeFails
<1>9. ASSUME NEW e \in DOMAIN openingListeners, openNode(e) PROVE HostInv'
  BY <1>0, <1>9, OpenNodeOK, EntriesKept DEF HostInv, openNode
<1>10. ASSUME NEW h \in DOMAIN handles, HelperBinds(h) PROVE HostInv'
  BY <1>0, <1>10, HelperBindsOK, EntriesKept DEF HostInv, HelperBinds
<1>11. ASSUME NEW h \in DOMAIN handles, HelperEnds(h) PROVE HostInv'
  <2>1. UNCHANGED <<lookups, targetCache>> /\ (UNCHANGED hostCalls \/ Spend("faults"))
    BY <1>11 DEF HelperEnds
  <2>2. hostCalls'.clients = hostCalls.clients
    BY <1>0, <2>1, SpendOK
  <2> QED BY <1>0, <1>11, <2>1, <2>2, HelperEndsOK, EntriesKept DEF HostInv
<1>12. ASSUME NEW h \in DOMAIN handles, ExitNoticed(h) PROVE HostInv'
  BY <1>0, <1>12, ExitNoticedOK, EntriesKept DEF HostInv, ExitNoticed
<1>13. ASSUME UNCHANGED <<handles, hostListeners, openingListeners, nativeFree, hostCalls>>
       PROVE  ListenersInv'
  BY <1>0, <1>13, SameHandles, CalmOnly DEF ListenersInv
<1>14. ASSUME NEW j \in DOMAIN lookups, NEW found \in BOOLEAN, LookupEnds(j, found) PROVE HostInv'
  BY <1>0, <1>13, <1>14, LookupEndsOK DEF HostInv, LookupEnds
<1>15. ASSUME NEW e \in DOMAIN targetCache, TargetExpires(e) PROVE HostInv'
  BY <1>0, <1>13, <1>15, TargetExpiresOK DEF HostInv, TargetExpires
<1>16. CASE UNCHANGED hostVars
  BY <1>0, <1>13, <1>16, EntriesKept DEF HostInv, hostVars
<1> QED BY <1>1, <1>2, <1>3, <1>4, <1>5, <1>6, <1>7, <1>8, <1>9, <1>10, <1>11, <1>12, <1>14,
          <1>15, <1>16 DEF HostNext

LEMMA HostInvImplies ==
  ASSUME HostInv
  PROVE  HostListenersFollowCalls
<1> USE DEF HostInv, ListenersInv
<1>1. HostTypeOK
  <2>1. ASSUME NEW h \in DOMAIN handles
        PROVE  /\ handles[h].kind \in {"native", "node"} /\ handles[h].exposure \in Exposures
               /\ handles[h].state \in {"starting", "bound", "ending", "dead", "gone"}
    <3>1. handles[h] \in Handle
      BY HandleTyped DEF HostTyped
    <3> QED BY <3>1 DEF Handle
  <2>2. nativeFree \in 0..NativeSlots
    <3>1. Cardinality(Natives) \in Nat
      BY NativesFinite DEF HostTyped
    <3>2. nativeFree + Cardinality(Natives) = NativeSlots /\ nativeFree \in Nat
      BY DEF CapacityFollowsChildren, Natives, HostTyped
    <3> QED BY <3>1, <3>2, SlotsAssumption
  <2> QED BY <2>1, <2>2 DEF HostTypeOK, PortsOnce, EachItsOwn
<1>2. SlowLookupIsShared
  BY DEF SlowLookupIsShared, LookupsOK
<1> QED BY <1>1, <1>2 DEF HostListenersFollowCalls

\* Whatever exposures, endpoints and capacity there are, and however the calls of open,
\* close and dispose, slow or failing helpers, timeouts and lookups interleave: a
\* listener is published only for an exposure last opened, no process that runs is
\* forgotten, of two listeners for one endpoint one has the port, the capacity held is
\* that of the helpers whose exit was not noticed, and a slow lookup stays shared
\* (HostPortProxyManager and NativeHostPortProxyProcess).
THEOREM HostListenersAlwaysFollowCalls ==
  ASSUME NEW scene \in Scenes
  PROVE  HostInit(scene) /\ [][HostNext]_hostVars => []HostListenersFollowCalls
<1>1. HostInit(scene) => HostInv
  BY HostInitOK
<1>2. HostInv /\ [HostNext]_hostVars => HostInv'
  BY HostInvStep
<1>3. HostInv => HostListenersFollowCalls
  BY HostInvImplies
<1> QED BY <1>1, <1>2, <1>3, PTL
=============================================================================
