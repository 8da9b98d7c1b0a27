------------------------- MODULE NativeLogicalRouter -------------------------
(***************************************************************************)
(* The helper process that holds the localhost listeners of the logical     *)
(* ports, and its control protocol: NativeLogicalPortRouterProcess of        *)
(* src/platform/ports/logical-port-router.ts on one side of the pipes,      *)
(* native/router/portmanager_tcp_router.c on the other.  LISTEN is answered *)
(* by READY or LISTEN_ERROR, CLOSE by CLOSED; every answer names only the   *)
(* port.  Timeouts, a full pipe and the exit of the helper are events.      *)
(***************************************************************************)
EXTENDS Naturals, Sequences, FiniteSets, Maps

CONSTANTS
  RouterPorts,       \* logical ports
  ListenerCapacity   \* how many ports the listeners budget admits

VARIABLES
  helper,            \* none, starting, ready, ended (its exit not yet noticed)
  toHelper,          \* control lines written and not yet read by the helper
  fromHelper,        \* answers not yet read
  helperPorts,       \* the ports the helper listens on
  activePorts, pendingListens, pendingCloses, portReservations,
  openCalls,         \* the calls of open that wait: number -> port and what for
  routerTurns        \* calls and faults left
nativeRouterVars == <<helper, toHelper, fromHelper, helperPorts, activePorts, pendingListens,
                      pendingCloses, portReservations, openCalls, routerTurns>>
protocol == <<activePorts, pendingListens, pendingCloses, portReservations>>
pipes == <<toHelper, fromHelper, helperPorts>>

Spent(what) == /\ routerTurns[what] > 0
               /\ routerTurns' = [routerTurns EXCEPT ![what] = @ - 1]

Call(k) == openCalls[k]
EndCalls(ks) == openCalls' = Drop(openCalls, ks)

\* The calls that share the LISTEN of a port.
Sharing(p) == {k \in DOMAIN openCalls : Call(k).port = p /\ Call(k).at = "listen"}

-----------------------------------------------------------------------------
(* open                                                                     *)

\* open, with start: the helper is spawned if there is none.
openPort(p) ==
  /\ Spent("opens")
  /\ helper' = IF helper = "none" THEN "starting" ELSE helper
  /\ openCalls' = Put(openCalls, routerTurns.opens, [port |-> p, at |-> "start"])
  /\ UNCHANGED <<pipes, protocol>>

\* The READY line of the control protocol.
resolveStartup ==
  /\ helper = "starting" /\ helper' = "ready"
  /\ UNCHANGED <<pipes, protocol, openCalls, routerTurns>>

\* rejectStartup by the timer; openNative closes this helper then, which never
\* listened on a port, and the next open starts another one.
rejectStartup ==
  /\ helper = "starting" /\ Spent("timeouts")
  /\ helper' = "none"
  /\ EndCalls(DOMAIN openCalls)
  /\ UNCHANGED <<pipes, protocol>>

\* open once the helper is ready: first the answer to an earlier CLOSE of the port
\* is awaited, which fails when that CLOSE timed out; a port that is active or being
\* opened is shared; otherwise the port takes its lease and LISTEN is written.
\* Without capacity, or if the pipe takes no line, the call fails and the lease is
\* returned.
OpenGoesOn(k) ==
  LET p == Call(k).port
      Fails == EndCalls({k}) /\ UNCHANGED <<pipes, protocol>>
      Joins == openCalls' = [openCalls EXCEPT ![k].at = "listen"] /\ UNCHANGED <<pipes, protocol>>
      Listens == /\ openCalls' = [openCalls EXCEPT ![k].at = "listen"]
                 /\ portReservations' = portReservations \cup {p}
                 /\ pendingListens' = pendingListens \cup {p}
                 /\ toHelper' = Append(toHelper, <<"LISTEN", p>>)
                 /\ UNCHANGED <<fromHelper, helperPorts, activePorts, pendingCloses>>
  IN  /\ Call(k).at = "start" /\ helper = "ready"
      /\ \/ p \in DOMAIN pendingCloses /\ pendingCloses[p].expired /\ Fails /\ UNCHANGED routerTurns
         \/ /\ p \notin DOMAIN pendingCloses
            /\ \/ p \in activePorts /\ Fails /\ UNCHANGED routerTurns
               \/ p \in pendingListens /\ Joins /\ UNCHANGED routerTurns
               \/ /\ p \notin activePorts \cup pendingListens
                  /\ \/ Cardinality(portReservations) < ListenerCapacity /\ Listens
                        /\ UNCHANGED routerTurns
                     \/ Cardinality(portReservations) >= ListenerCapacity /\ Fails
                        /\ UNCHANGED routerTurns
                     \/ Fails /\ Spent("losses")
      /\ UNCHANGED helper

-----------------------------------------------------------------------------
(* closePort                                                                *)

CloseDropsLease(p) ==
  /\ pendingListens' = pendingListens \ {p}
  /\ activePorts' = activePorts \ {p}
  /\ IF p \in portReservations
     THEN /\ toHelper' = Append(toHelper, <<"CLOSE", p>>)
          /\ portReservations' = portReservations \ {p} /\ UNCHANGED pendingCloses
     ELSE UNCHANGED <<pendingCloses, portReservations, toHelper>>

\* closePort: the calls that wait for the port's LISTEN fail.  The lease stays
\* until CLOSED.  A line the pipe does not take is written again when it drains.
closePort(p) ==
  /\ pendingListens' = pendingListens \ {p}
  /\ activePorts' = activePorts \ {p}
  /\ IF p \in portReservations
     THEN \E sent \in {TRUE} \cup (IF routerTurns.losses > 0 THEN {FALSE} ELSE {}) :
            /\ pendingCloses' = Put(pendingCloses, p, [sent |-> sent, expired |-> FALSE])
            /\ toHelper' = IF sent THEN Append(toHelper, <<"CLOSE", p>>) ELSE toHelper
     ELSE UNCHANGED <<pendingCloses, toHelper>>
  /\ UNCHANGED portReservations

\* The manager closes a port; a CLOSE that is under way is shared.
ManagerCloses(p) ==
  /\ p \notin DOMAIN pendingCloses /\ Spent("closes")
  /\ closePort(p)
  /\ EndCalls(Sharing(p))
  /\ UNCHANGED <<helper, fromHelper, helperPorts>>

\* The timer of a LISTEN: its calls fail, and the port is closed.
ListenTimeout(p) ==
  /\ p \in pendingListens /\ Spent("timeouts")
  /\ closePort(p)
  /\ EndCalls(Sharing(p))
  /\ UNCHANGED <<helper, fromHelper, helperPorts>>

\* The timer of a CLOSE: who waits for it fails, and it stays registered.
CloseTimeout(p) ==
  /\ ~pendingCloses[p].expired /\ Spent("timeouts")
  /\ pendingCloses' = [pendingCloses EXCEPT ![p].expired = TRUE]
  /\ UNCHANGED <<helper, pipes, activePorts, pendingListens, portReservations, openCalls>>

\* retryCloses
retryCloses(p) ==
  /\ ~pendingCloses[p].sent /\ helper = "ready"
  /\ pendingCloses' = [pendingCloses EXCEPT ![p].sent = TRUE]
  /\ toHelper' = Append(toHelper, <<"CLOSE", p>>)
  /\ UNCHANGED <<helper, fromHelper, helperPorts, activePorts, pendingListens,
                 portReservations, openCalls, routerTurns>>

-----------------------------------------------------------------------------
(* handleProtocolLine                                                       *)

Line(status) == fromHelper # <<>> /\ Head(fromHelper)[1] = status
LinePort == Head(fromHelper)[2]
NextLine == fromHelper' = Tail(fromHelper) /\ UNCHANGED <<helper, toHelper, helperPorts, routerTurns>>

\* READY
resolveListen ==
  /\ Line("READY") /\ NextLine
  /\ activePorts' = activePorts \cup {LinePort}
  /\ pendingListens' = pendingListens \ {LinePort}
  /\ EndCalls(Sharing(LinePort))
  /\ UNCHANGED <<pendingCloses, portReservations>>

\* LISTEN_ERROR: a late one, of an attempt that is being closed, keeps the lease.
rejectListen ==
  /\ Line("LISTEN_ERROR") /\ NextLine
  /\ portReservations' = IF LinePort \in DOMAIN pendingCloses THEN portReservations
                         ELSE portReservations \ {LinePort}
  /\ pendingListens' = pendingListens \ {LinePort}
  /\ EndCalls(Sharing(LinePort))
  /\ UNCHANGED <<activePorts, pendingCloses>>

\* CLOSED
PortClosed ==
  /\ Line("CLOSED") /\ NextLine
  /\ activePorts' = activePorts \ {LinePort}
  /\ portReservations' = portReservations \ {LinePort}
  /\ pendingCloses' = Drop(pendingCloses, {LinePort})
  /\ UNCHANGED <<pendingListens, openCalls>>

\* The exit event of the helper
HelperExitNoticed ==
  /\ helper = "ended" /\ helper' = "none"
  /\ toHelper' = <<>> /\ fromHelper' = <<>> /\ helperPorts' = {}
  /\ activePorts' = {} /\ pendingListens' = {} /\ pendingCloses' = <<>> /\ portReservations' = {}
  /\ openCalls' = <<>> /\ UNCHANGED routerTurns

-----------------------------------------------------------------------------
(* The helper: pm_handle_control_line                                       *)

\* LISTEN succeeds for a port that is already open, and may fail for another.
HelperReads ==
  /\ helper = "ready" /\ toHelper # <<>> /\ toHelper' = Tail(toHelper)
  /\ LET p == Head(toHelper)[2]
         Answers(status) == fromHelper' = Append(fromHelper, <<status, p>>)
     IN  \/ Head(toHelper)[1] = "LISTEN" /\ helperPorts' = helperPorts \cup {p} /\ Answers("READY")
         \/ /\ Head(toHelper)[1] = "LISTEN" /\ p \notin helperPorts
            /\ Answers("LISTEN_ERROR") /\ UNCHANGED helperPorts
         \/ Head(toHelper)[1] = "CLOSE" /\ helperPorts' = helperPorts \ {p} /\ Answers("CLOSED")
  /\ UNCHANGED <<helper, protocol, openCalls, routerTurns>>

\* The helper ends by itself: the OS frees its ports.
RouterHelperEnds ==
  /\ helper \in {"starting", "ready"} /\ Spent("exits")
  /\ helper' = "ended" /\ helperPorts' = {}
  /\ UNCHANGED <<toHelper, fromHelper, protocol, openCalls>>

NativeRouterNext ==
  \/ \E p \in RouterPorts : openPort(p) \/ ManagerCloses(p) \/ ListenTimeout(p)
  \/ \E p \in DOMAIN pendingCloses : CloseTimeout(p) \/ retryCloses(p)
  \/ \E k \in DOMAIN openCalls : OpenGoesOn(k)
  \/ resolveStartup \/ rejectStartup \/ resolveListen \/ rejectListen \/ PortClosed
  \/ HelperReads \/ RouterHelperEnds \/ HelperExitNoticed

\* Calls and faults are given by a scene.
NativeRouterInit(scene) ==
  /\ helper = "none" /\ toHelper = <<>> /\ fromHelper = <<>> /\ helperPorts = {}
  /\ activePorts = {} /\ pendingListens = {} /\ pendingCloses = <<>> /\ portReservations = {}
  /\ openCalls = <<>> /\ routerTurns = scene

-----------------------------------------------------------------------------
(* Properties                                                               *)

Written(kind, p) == \E k \in DOMAIN toHelper : toHelper[k] = <<kind, p>>
Answered(kind, p) == \E k \in DOMAIN fromHelper : fromHelper[k] = <<kind, p>>

\* The state has its types; a LISTEN is awaited exactly by the calls that share
\* it, and never together with a CLOSE of its port.
NativeRouterTypeOK ==
  /\ helper \in {"none", "starting", "ready", "ended"}
  /\ activePorts \cup pendingListens \cup portReservations \cup DOMAIN pendingCloses \subseteq RouterPorts
  /\ \A k \in DOMAIN openCalls : Call(k).at = "listen" => Call(k).port \in pendingListens
  /\ pendingListens \cap DOMAIN pendingCloses = {}

\* While the helper runs, a port it listens on, or is asked to listen on, has its
\* lease; and a lease is there for nothing else than a port that listens or has a
\* line under way.  An answer names only the port, so an answer to an earlier
\* LISTEN must never return the lease of a later one (pendingCloses: "Reopen waits
\* for CLOSED so an old port-only reply cannot release the new lease").
LeaseCoversPort ==
  helper = "ready" =>
    \A p \in RouterPorts :
      /\ p \in helperPorts \/ Written("LISTEN", p) => p \in portReservations
      /\ p \in portReservations =>
           \/ p \in helperPorts \cup DOMAIN pendingCloses \cup pendingListens
           \/ Written("LISTEN", p) \/ Answered("LISTEN_ERROR", p)

\* A port believed active is one the helper listens on, unless the answer to its
\* CLOSE is on the way or the helper ended: a late READY never leaves a port
\* active that was closed.
ActivePortListens ==
  helper = "ready" =>
    \A p \in activePorts : p \in helperPorts \/ Answered("CLOSED", p)

\* A port the helper listens on is active, being opened or being closed: an open
\* that timed out does not leave a listener nobody knows of.
NoForgottenPort ==
  helper = "ready" => helperPorts \subseteq activePorts \cup pendingListens \cup DOMAIN pendingCloses

\* The ports, leases and open calls of the window agree with what the helper listens on,
\* although answers name only a port and lines are delayed, refused or late.
PortsFollowHelper == NativeRouterTypeOK /\ LeaseCoversPort /\ ActivePortListens /\ NoForgottenPort
=============================================================================
