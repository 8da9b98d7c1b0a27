---------------------------- MODULE HostPortProxy ----------------------------
(***************************************************************************)
(* The host listeners of src/platform/ports/host-port-proxy.ts: the         *)
(* openings, closings and the disposal of HostPortProxyManager, the native  *)
(* helper processes it prefers (NativeHostPortProxyProcess) with the        *)
(* capacity reserved for them, the Node server it falls back to, and the    *)
(* short-lived cache of targets.                                            *)
(*                                                                          *)
(* A step is what runs between two awaits.  A helper that got a signal ends  *)
(* when it likes; its exit frees the port at once and is noticed later.     *)
(***************************************************************************)
EXTENDS Naturals, Sequences, FiniteSets, Maps

CONSTANTS
  Exposures,      \* exposure ids
  HostEndpoint,   \* [Exposures -> host address and port]
  NativeSlots     \* how many helpers ProxyNetworkResources has capacity for

ASSUME SlotsAssumption == NativeSlots \in Nat

VARIABLES
  handles,           \* every listener created: helper processes and Node servers
  hostListeners,     \* listeners: exposure id -> its handle
  openingListeners,  \* exposure id -> the pending open
  nativeFree,        \* reservations still free
  targetCache,       \* exposure id -> the lookup it shares, and its age
  lookups,           \* the lookups that run: [number -> exposure id]
  hostCalls          \* disposed; the calls that may come; the exposures last opened
hostVars == <<handles, hostListeners, openingListeners, nativeFree, targetCache,
              lookups, hostCalls>>

\* starting: spawned, not bound; bound: it holds the port; ending: it got a
\* signal, and may still hold the port; dead: it ended and its exit event is
\* to come; gone.
Alive(h) == handles[h].state \in {"starting", "bound", "ending"}
HoldsPort(h) == handles[h].holds /\ Alive(h)
PortFree(e) ==
  \A h \in DOMAIN handles : HoldsPort(h) => HostEndpoint[handles[h].exposure] # HostEndpoint[e]

\* isActive
isActive(h) == handles[h].kind = "node" \/ Alive(h)

\* A helper gets SIGTERM, a Node server closes its port in the same turn.
Ended(hs) ==
  [h \in DOMAIN handles |->
     IF h \notin hs \/ ~Alive(h) THEN handles[h]
     ELSE IF handles[h].kind = "node"
          THEN [handles[h] EXCEPT !.state = "gone", !.holds = FALSE]
          ELSE [handles[h] EXCEPT !.state = "ending"]]

Spend(what) == /\ hostCalls[what] > 0
               /\ hostCalls' = [hostCalls EXCEPT ![what] = @ - 1]

Advance(e, at) == openingListeners' = [openingListeners EXCEPT ![e].at = at]

-----------------------------------------------------------------------------
(* open                                                                     *)

\* open and the first turn of openListener.  A listener that still works, or an
\* opening under way (canceled or not), answers for this call too.
openHost(e) ==
  /\ ~hostCalls.disposed /\ hostCalls.opens > 0
  /\ hostCalls' = [hostCalls EXCEPT !.opens = @ - 1, !.wanted = @ \cup {e}]
  /\ IF (e \in DOMAIN hostListeners /\ isActive(hostListeners[e])) \/ e \in DOMAIN openingListeners
     THEN UNCHANGED <<hostListeners, openingListeners, targetCache>>
     ELSE /\ hostListeners' = Drop(hostListeners, {e})
          /\ targetCache' = IF e \in DOMAIN hostListeners THEN Drop(targetCache, {e})
                            ELSE targetCache
          /\ openingListeners' =
               Put(openingListeners, e, [canceled |-> FALSE, at |-> "siblings", handle |-> 0])
  /\ UNCHANGED <<handles, nativeFree, lookups>>

\* terminateSiblingNativeHostProxyProcesses: every helper the process table shows
\* for the endpoint, those of this window included, gets a signal; then it waits
\* until they ended or 500 ms are over.  The table may not be readable.
terminateSiblings(e) ==
  /\ openingListeners[e].at = "siblings"
  /\ LET siblings == {h \in DOMAIN handles : handles[h].kind = "native"
                        /\ HostEndpoint[handles[h].exposure] = HostEndpoint[e]}
     IN  handles' \in {handles, Ended(siblings)}
  /\ Advance(e, "native")
  /\ UNCHANGED <<hostListeners, nativeFree, targetCache, lookups, hostCalls>>

\* openNative and start: the capacity is reserved, then the helper is spawned.
\* Without capacity, without the executable, or when the spawn fails, the Node
\* server is next, and nothing stays reserved.
startNative(e) ==
  /\ openingListeners[e].at = "native"
  /\ \/ /\ nativeFree > 0
        /\ nativeFree' = nativeFree - 1
        /\ handles' = Append(handles, [kind |-> "native", exposure |-> e,
                                       state |-> "starting", holds |-> FALSE])
        /\ openingListeners' =
             [openingListeners EXCEPT ![e].at = "starting", ![e].handle = Len(handles) + 1]
        /\ UNCHANGED hostCalls
     \/ /\ IF nativeFree = 0 THEN UNCHANGED hostCalls ELSE Spend("faults")
        /\ Advance(e, "node") /\ UNCHANGED <<handles, nativeFree>>
  /\ UNCHANGED <<hostListeners, targetCache, lookups>>

\* The end of open: a result that was canceled is closed again, never published.
Publish(e, h, hs) ==
  LET canceled == openingListeners[e].canceled \/ hostCalls.disposed
  IN  /\ handles' = IF ~canceled THEN hs
                    ELSE IF hs[h].kind = "node"
                         THEN [hs EXCEPT ![h].state = "gone", ![h].holds = FALSE]
                         ELSE [hs EXCEPT ![h].state = IF @ = "bound" THEN "ending" ELSE @]
      /\ hostListeners' = IF canceled THEN hostListeners ELSE Put(hostListeners, e, h)
      /\ openingListeners' = Drop(openingListeners, {e})

\* resolveStartup: the READY line of a helper that took the port is read.
NativeReady(e) ==
  /\ openingListeners[e].at = "starting"
  /\ HoldsPort(openingListeners[e].handle)
  /\ Publish(e, openingListeners[e].handle, handles)
  /\ UNCHANGED <<nativeFree, targetCache, lookups, hostCalls>>

TimeoutForgets(e) ==
  /\ openingListeners[e].at = "starting"
  /\ UNCHANGED handles
  /\ Advance(e, "node")
  /\ UNCHANGED <<hostListeners, nativeFree, targetCache, lookups, hostCalls>>

\* rejectStartup: the helper did not report in time, or it ended.  openNative
\* closes it, waits for its exit for 500 ms at most, and falls back.
NativeFails(e) ==
  /\ openingListeners[e].at = "starting"
  /\ handles' = Ended({openingListeners[e].handle})
  /\ Advance(e, "node")
  /\ UNCHANGED <<hostListeners, nativeFree, targetCache, lookups, hostCalls>>

\* openListener with a Node server.  A port in use is the answer's error.
openNode(e) ==
  /\ openingListeners[e].at = "node"
  /\ IF PortFree(e)
     THEN Publish(e, Len(handles) + 1,
                  Append(handles, [kind |-> "node", exposure |-> e,
                                   state |-> "bound", holds |-> TRUE]))
     ELSE /\ openingListeners' = Drop(openingListeners, {e})
          /\ UNCHANGED <<handles, hostListeners>>
  /\ UNCHANGED <<nativeFree, targetCache, lookups, hostCalls>>

-----------------------------------------------------------------------------
(* close and dispose                                                        *)

Closing(es) ==
  /\ openingListeners' = [e \in DOMAIN openingListeners |->
       [openingListeners[e] EXCEPT !.canceled = @ \/ e \in es]]
  /\ handles' = Ended({hostListeners[e] : e \in es \cap DOMAIN hostListeners})
  /\ hostListeners' = Drop(hostListeners, es)

\* close
closeHost(e) ==
  /\ hostCalls.closes > 0
  /\ hostCalls' = [hostCalls EXCEPT !.closes = @ - 1, !.wanted = @ \ {e}]
  /\ Closing({e})
  /\ targetCache' = Drop(targetCache, {e})
  /\ UNCHANGED <<nativeFree, lookups>>

\* dispose
disposeHost ==
  /\ ~hostCalls.disposed /\ hostCalls.disposals > 0
  /\ hostCalls' = [hostCalls EXCEPT !.disposed = TRUE, !.wanted = {}]
  /\ Closing(Exposures)
  /\ targetCache' = <<>>
  /\ UNCHANGED <<nativeFree, lookups>>

-----------------------------------------------------------------------------
(* The helper processes                                                     *)

\* A helper takes the port of its endpoint.
HelperBinds(h) ==
  /\ handles[h].state = "starting" /\ PortFree(handles[h].exposure)
  /\ handles' = [handles EXCEPT ![h].state = "bound", ![h].holds = TRUE]
  /\ UNCHANGED <<hostListeners, openingListeners, nativeFree, targetCache, lookups, hostCalls>>

\* A helper ends: signalled, because the port is taken, or by itself.
HelperEnds(h) ==
  /\ handles[h].kind = "native" /\ Alive(h)
  /\ \/ handles[h].state = "ending" /\ UNCHANGED hostCalls
     \/ handles[h].state = "starting" /\ ~PortFree(handles[h].exposure) /\ UNCHANGED hostCalls
     \/ Spend("faults")
  /\ handles' = [handles EXCEPT ![h].state = "dead", ![h].holds = FALSE]
  /\ UNCHANGED <<hostListeners, openingListeners, nativeFree, targetCache, lookups>>

\* The exit event: the reservation is returned here and nowhere else.
ExitNoticed(h) ==
  /\ handles[h].state = "dead"
  /\ handles' = [handles EXCEPT ![h].state = "gone"]
  /\ nativeFree' = nativeFree + 1
  /\ UNCHANGED <<hostListeners, openingListeners, targetCache, lookups, hostCalls>>

-----------------------------------------------------------------------------
(* resolveTarget, for a client of a listener                                *)

\* A lookup under way, or a result younger than the TTL, is shared.
resolveTarget(e) ==
  /\ e \in DOMAIN hostListeners /\ Spend("clients")
  /\ IF e \in DOMAIN targetCache /\ targetCache[e].age # "expired"
     THEN UNCHANGED <<targetCache, lookups>>
     ELSE /\ lookups' = Put(lookups, hostCalls.clients, e)
          /\ targetCache' = Put(targetCache, e, [job |-> hostCalls.clients, age |-> "pending"])
  /\ UNCHANGED <<handles, hostListeners, openingListeners, nativeFree>>

\* resolveTargetUncached settles, by its result or by its deadline: the entry is
\* dated, or dropped, only if it is still the entry of this lookup.
LookupEnds(j, found) ==
  LET e == lookups[j]
      mine == e \in DOMAIN targetCache /\ targetCache[e].job = j
  IN  /\ lookups' = Drop(lookups, {j})
      /\ targetCache' = IF ~mine THEN targetCache
                        ELSE IF found THEN [targetCache EXCEPT ![e].age = "fresh"]
                        ELSE Drop(targetCache, {e})
      /\ UNCHANGED <<handles, hostListeners, openingListeners, nativeFree, hostCalls>>

\* The TTL of an entry that has its result is over.
TargetExpires(e) ==
  /\ targetCache[e].age = "fresh"
  /\ targetCache' = [targetCache EXCEPT ![e].age = "expired"]
  /\ UNCHANGED <<handles, hostListeners, openingListeners, nativeFree, lookups, hostCalls>>

HostNext ==
  \/ \E e \in Exposures : openHost(e) \/ closeHost(e) \/ resolveTarget(e)
  \/ disposeHost
  \/ \E e \in DOMAIN openingListeners :
       terminateSiblings(e) \/ startNative(e) \/ NativeReady(e) \/ NativeFails(e) \/ openNode(e)
  \/ \E h \in DOMAIN handles : HelperBinds(h) \/ HelperEnds(h) \/ ExitNoticed(h)
  \/ \E j \in DOMAIN lookups, found \in BOOLEAN : LookupEnds(j, found)
  \/ \E e \in DOMAIN targetCache : TargetExpires(e)

\* The calls and the faults to expect are given by a scene.
HostInit(scene) ==
  /\ handles = <<>> /\ hostListeners = <<>> /\ openingListeners = <<>>
  /\ nativeFree = NativeSlots /\ targetCache = <<>> /\ lookups = <<>>
  /\ hostCalls = [opens |-> scene.opens, closes |-> scene.closes,
                  disposals |-> scene.disposals, clients |-> scene.clients,
                  faults |-> scene.faults, disposed |-> FALSE, wanted |-> {}]

-----------------------------------------------------------------------------
(* Properties                                                               *)

\* Handles, openings and lookups have their types.  Of two handles for one
\* endpoint at most one has the port, and an opening waits for a helper of its
\* own exposure.
HostTypeOK ==
  /\ \A h \in DOMAIN handles :
       /\ handles[h].kind \in {"native", "node"} /\ handles[h].exposure \in Exposures
       /\ handles[h].state \in {"starting", "bound", "ending", "dead", "gone"}
  /\ \A g, h \in DOMAIN handles : HoldsPort(g) /\ HoldsPort(h) /\ g # h =>
       HostEndpoint[handles[g].exposure] # HostEndpoint[handles[h].exposure]
  /\ \A e \in DOMAIN openingListeners : openingListeners[e].at = "starting" =>
       handles[openingListeners[e].handle].exposure = e
  /\ \A e \in DOMAIN hostListeners : handles[hostListeners[e]].exposure = e
  /\ nativeFree \in 0..NativeSlots

\* A listener is published only for an exposure whose last call was to open it: a
\* close that comes while a bind is slow, and the disposal, are not undone by the
\* late result (the canceled flag of openingListeners).
ListenerIsWanted == DOMAIN hostListeners \subseteq hostCalls.wanted

\* A helper or a server that runs and got no signal is published, or an opening
\* still waits for it: no timed-out start and no canceled open leaves a process
\* behind that nobody will close.
NoForgottenListener ==
  \A h \in DOMAIN handles : handles[h].state \in {"starting", "bound"} =>
    LET e == handles[h].exposure
    IN  \/ e \in DOMAIN hostListeners /\ hostListeners[e] = h
        \/ e \in DOMAIN openingListeners /\ openingListeners[e].at = "starting"
           /\ openingListeners[e].handle = h

\* The capacity reserved is the capacity of the children whose exit was not yet
\* noticed: never less, however early a listener is closed, and none is lost
\* when a start fails ("Conservative capacity stays held until the child actually
\* exits").
CapacityFollowsChildren ==
  nativeFree + Cardinality({h \in DOMAIN handles :
                 handles[h].kind = "native" /\ handles[h].state # "gone"}) = NativeSlots

\* An entry that has no result yet is the entry of a lookup that runs, and an
\* entry of a lookup that runs is not dated yet: a late result of a lookup from
\* before a close neither expires nor drops what a newer lookup shares
\* (resolveTarget: "A slow lookup remains shared").
SlowLookupIsShared ==
  \A e \in DOMAIN targetCache :
    targetCache[e].age = "pending" <=> targetCache[e].job \in DOMAIN lookups

\* What listens is what the last calls asked for, and every process, permit and shared
\* lookup belongs to it, through slow starts, timeouts, closes and the disposal.
HostListenersFollowCalls ==
  /\ HostTypeOK
  /\ ListenerIsWanted
  /\ NoForgottenListener
  /\ CapacityFollowsChildren
  /\ SlowLookupIsShared
=============================================================================
