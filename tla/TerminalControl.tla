--------------------------- MODULE TerminalControl ---------------------------
(***************************************************************************)
(* The private channel between a window, NetworkTerminalControl, and the   *)
(* client that runs in an external terminal, runNetworkTerminalClient: one *)
(* client asks for a shell, the user changes its network or detaches it in *)
(* the terminal's menu or in the window, and either end may go.            *)
(*                                                                         *)
(* Shells are reserved and closed by the guarded runtime, which is only    *)
(* seen from here: a close ends well once the shell's process is gone, or  *)
(* fails and keeps the reservation.                                        *)
(***************************************************************************)
EXTENDS Integers, Sequences, FiniteSets

CONSTANTS ControlCalls,  \* 1..n: prepare, replace and detach calls of the window
          Launches       \* 1..n: the shells that may be prepared

VARIABLES srv,           \* the window's end of the channel
          calls,         \* the calls in progress there
          res,           \* the reservations of the runtime
          procs,         \* the processes of the shells, as the terminal sees them
          wire,          \* frames on their way, to the client and from it
          cl,            \* the client
          tty,           \* who has the terminal, and the supervisor's acknowledgement
          ctlLeft        \* what may still happen from outside

ctlVars == <<srv, calls, res, procs, wire, cl, tty, ctlLeft>>

HostShell == -1          \* the shell of a detached terminal
NoLaunch == 0
\* A frame to the client; a launch comes with its shell.
Frame(type) == [type |-> type, of |-> NoLaunch]
NoCall == [pc |-> "idle", kind |-> "none", menu |-> FALSE, gen |-> 0, rgen |-> -1, old |-> NoLaunch, new |-> NoLaunch, ok |-> TRUE, next |-> "none"]
NoMenu == [st |-> "none", of |-> NoLaunch, next |-> "none", choice |-> "none", aborted |-> FALSE]

CtlSpend(what) == ctlLeft[what] > 0 /\ ctlLeft' = [ctlLeft EXCEPT ![what] = @ - 1]
\* Whoever waited for a promise that is settled goes first.
CtlIdle == \A c \in ControlCalls : calls[c].pc # "resumed"

Send(s, w, m) ==
  IF s.dead THEN [srv |-> s, wire |-> w]
  ELSE IF s.ended THEN [srv |-> [s EXCEPT !.dead = TRUE], wire |-> w]
  ELSE [srv |-> s, wire |-> [w EXCEPT !.down = Append(@, m)]]
Sent(s, w, m) == srv' = Send(s, w, m).srv /\ wire' = Send(s, w, m).wire

\* The runtime starts to close a shell: its supervisor gets a SIGTERM.
CloseBegins(l) ==
  /\ res' = [res EXCEPT ![l] = IF @ \in {"reserved", "kept"} THEN "closing" ELSE @]
  /\ procs' = [procs EXCEPT !.dying = @ \cup ({l} \cap procs.alive)]
\* A call waits for the close of l and goes on with `next`.
AwaitClose(c, r, l, next) ==
  /\ calls' = [calls EXCEPT ![c] = [r EXCEPT !.pc = IF res[l] = "closed" THEN "resumed" ELSE "closing", !.old = l, !.ok = TRUE, !.next = next]]
  /\ CloseBegins(l)
CloseSettles(l, ok) ==
  /\ res' = [res EXCEPT ![l] = IF ok THEN "closed" ELSE "kept"]
  /\ calls' = [c \in ControlCalls |-> IF calls[c].pc = "closing" /\ calls[c].old = l
                                      THEN [calls[c] EXCEPT !.pc = "resumed", !.ok = ok] ELSE calls[c]]
  /\ UNCHANGED procs

-----------------------------------------------------------------------------
(* The window *)

\* As if a newer action did not cancel a switch.
CanceledByCloseOnly(r) == srv.disposed \/ srv.dead
Canceled(r) == srv.disposed \/ srv.dead \/ srv.gen # r.gen

\* A call ends; one of the menu answers a failure and lets the next request in.
EndCall(c) == calls' = [calls EXCEPT ![c] = [NoCall EXCEPT !.pc = "done"]]
Throws(c, s, w) ==
  /\ EndCall(c)
  /\ LET o == IF calls[c].menu /\ ~s.dead THEN Send([s EXCEPT !.preparing = FALSE], w, Frame("request-error")) ELSE [srv |-> s, wire |-> w]
     IN srv' = o.srv /\ wire' = o.wire
\* The client is told, and the channel ends.
FailClient(s, w) == [srv |-> [Send(s, w, Frame("error")).srv EXCEPT !.ended = TRUE], wire |-> Send(s, w, Frame("error")).wire]
\* prepare's failure is that of the terminal, unless a later action has retired its shell.
FirstFails(c, s, w) ==
  /\ EndCall(c)
  /\ LET o == IF s.disposed \/ s.dead \/ s.rgen # calls[c].rgen THEN [srv |-> s, wire |-> w] ELSE FailClient(s, w)
     IN srv' = o.srv /\ wire' = o.wire

accept ==
  /\ CtlIdle /\ cl.st = "connecting" /\ ~srv.known /\ ~srv.dead
  /\ \/ ~srv.disposed /\ srv' = [srv EXCEPT !.known = TRUE] /\ UNCHANGED ctlLeft
     \/ srv.disposed /\ srv' = [srv EXCEPT !.dead = TRUE] /\ UNCHANGED ctlLeft
     \/ ~srv.disposed /\ CtlSpend("faults") /\ srv' = [srv EXCEPT !.dead = TRUE]
  /\ cl' = [cl EXCEPT !.st = "open"]
  /\ wire' = [wire EXCEPT !.up = <<"first">>]
  /\ UNCHANGED <<calls, res, procs, tty>>
RequestTimeout ==
  /\ CtlIdle /\ srv.known /\ ~srv.requested /\ ~srv.dead /\ CtlSpend("timeouts")
  /\ srv' = [srv EXCEPT !.dead = TRUE]
  /\ UNCHANGED <<calls, res, procs, wire, cl, tty>>

Begin(c, r) == calls' = [calls EXCEPT ![c] = r]
Spare(c) == calls[c].pc = "idle" /\ \A e \in ControlCalls : e < c => calls[e].pc # "idle"
\* detach: the client is told that its shell goes.
BeginDetach(c, s, w, menu) ==
  LET n == [s EXCEPT !.gen = @ + 1, !.rgen = @ + 1]
  IN /\ Sent(n, w, Frame("changing"))
     /\ AwaitClose(c, [NoCall EXCEPT !.kind = "detach", !.menu = menu, !.gen = n.gen], s.launch, "detached")
BeginReplace(c, s, menu) ==
  /\ srv' = [s EXCEPT !.gen = @ + 1]
  /\ Begin(c, [NoCall EXCEPT !.pc = "preparing", !.kind = "replace", !.menu = menu, !.gen = s.gen + 1, !.old = s.launch])
  /\ UNCHANGED <<res, procs>>

\* A frame of the client: its first request, or a choice of its menu.
Receive ==
  /\ CtlIdle /\ srv.known /\ ~srv.dead /\ wire.up # <<>>
  /\ LET m == Head(wire.up)
         w == [wire EXCEPT !.up = Tail(@)]
         invalid == srv.launch = NoLaunch \/ srv.preparing
         s == [srv EXCEPT !.preparing = TRUE]
     IN \/ /\ m = "first"
           /\ srv' = [s EXCEPT !.requested = TRUE] /\ wire' = w
           /\ \E c \in ControlCalls : Spare(c) /\ Begin(c, [NoCall EXCEPT !.pc = "preparing", !.kind = "prepare", !.gen = s.gen, !.rgen = s.rgen])
           /\ UNCHANGED <<res, procs>>
        \/ /\ m # "first" /\ invalid
           /\ srv' = [srv EXCEPT !.dead = TRUE] /\ wire' = w /\ UNCHANGED <<calls, res, procs>>
        \/ /\ m = "replace" /\ ~invalid
           /\ \E c \in ControlCalls : Spare(c) /\ BeginReplace(c, s, TRUE)
           /\ wire' = w
        \/ /\ m = "detach" /\ ~invalid
           /\ \E c \in ControlCalls : Spare(c) /\ BeginDetach(c, s, w, TRUE)
  /\ UNCHANGED <<cl, tty, ctlLeft>>

\* The same from the window, for the client that has the launch.
detach ==
  /\ CtlIdle /\ srv.known /\ srv.launch # NoLaunch /\ ~srv.disposed /\ CtlSpend("detaches")
  /\ \E c \in ControlCalls : Spare(c) /\ BeginDetach(c, srv, wire, FALSE)
  /\ UNCHANGED <<cl, tty>>
replace ==
  /\ CtlIdle /\ srv.known /\ srv.launch # NoLaunch /\ ~srv.disposed /\ CtlSpend("replaces")
  /\ \E c \in ControlCalls : Spare(c) /\ BeginReplace(c, srv, FALSE)
  /\ UNCHANGED <<wire, cl, tty>>

\* The runtime has prepared a shell, or has not.
Install(c, r, l) ==
  /\ Sent([srv EXCEPT !.launch = l, !.preparing = IF r.kind = "prepare" THEN FALSE ELSE @], wire, [type |-> "launch", of |-> l])
  /\ calls' = [calls EXCEPT ![c] = [r EXCEPT !.pc = "observing", !.new = l]]
prepare(c) ==
  LET r == calls[c] IN
  /\ CtlIdle /\ r.pc = "preparing"
  /\ \/ \E l \in Launches :
          /\ res[l] = "none" /\ \A k \in Launches : k < l => res[k] # "none"
          /\ \/ /\ Canceled(r)
                /\ calls' = [calls EXCEPT ![c] = [r EXCEPT !.pc = "closing", !.old = l, !.new = l, !.next = "canceled"]]
                /\ res' = [res EXCEPT ![l] = "closing"] /\ UNCHANGED <<srv, wire>>
             \/ /\ ~Canceled(r) /\ r.kind = "prepare"
                /\ Install(c, r, l) /\ res' = [res EXCEPT ![l] = "reserved"]
             \/ \* The old shell is retired first.
                /\ ~Canceled(r) /\ r.kind = "replace"
                /\ Sent([srv EXCEPT !.rgen = @ + 1], wire, Frame("changing"))
                /\ calls' = [calls EXCEPT ![c] = [r EXCEPT !.pc = IF res[r.old] = "closed" THEN "resumed" ELSE "closing",
                                                           !.new = l, !.rgen = srv.rgen + 1, !.next = "retired"]]
                /\ res' = [res EXCEPT ![l] = "reserved", ![r.old] = IF @ \in {"reserved", "kept"} THEN "closing" ELSE @]
          /\ procs' = [procs EXCEPT !.dying = @ \cup (IF ~Canceled(r) THEN {r.old} \cap procs.alive ELSE {})]
          /\ UNCHANGED ctlLeft
     \/ /\ CtlSpend("faults")
        /\ IF r.kind = "prepare" THEN FirstFails(c, srv, wire) ELSE Throws(c, srv, wire)
        /\ UNCHANGED <<res, procs>>
  /\ UNCHANGED <<cl, tty>>

\* The shell has shown that it is ready, or it failed and was closed by the runtime.
observeLaunch(c) ==
  LET r == calls[c]
      l == r.new
  IN /\ CtlIdle /\ r.pc = "observing"
     /\ \/ /\ l \in procs.alive /\ res[l] = "reserved"
           /\ EndCall(c)
           /\ srv' = [srv EXCEPT !.preparing = IF r.menu THEN FALSE ELSE @]
           /\ UNCHANGED <<res, procs, ctlLeft>>
        \/ /\ res[l] # "reserved" \/ l \in procs.gone
           /\ AwaitClose(c, r, l, "unready") /\ UNCHANGED <<srv, ctlLeft>>
        \/ /\ res[l] = "reserved" /\ l \notin procs.gone /\ CtlSpend("timeouts")
           /\ AwaitClose(c, r, l, "unready") /\ UNCHANGED srv
     /\ UNCHANGED <<wire, cl, tty>>

\* What follows a close that was waited for.  A switch that fails gives back what it
\* prepared, then tells the client unless a later action has taken over.
continueCall(c) ==
  LET r == calls[c] IN
  /\ r.pc = "resumed"
  /\ \/ /\ r.next = "retired"
        /\ IF r.ok /\ ~Canceled(r) THEN Install(c, r, r.new) /\ UNCHANGED <<res, procs>>
           ELSE AwaitClose(c, r, r.new, "failed") /\ UNCHANGED <<srv, wire>>
     \/ /\ r.next = "unready"
        /\ IF r.kind = "prepare" THEN FirstFails(c, srv, wire) /\ UNCHANGED <<res, procs>>
           ELSE AwaitClose(c, r, r.new, "failed") /\ UNCHANGED <<srv, wire>>
     \/ /\ r.next \in {"canceled", "failed"}
        /\ LET tells == r.ok /\ ~srv.disposed /\ ~srv.dead /\ (IF r.rgen = -1 THEN srv.gen = r.gen ELSE srv.rgen = r.rgen)
               o == IF tells THEN FailClient(srv, wire) ELSE [srv |-> srv, wire |-> wire]
           IN IF r.kind = "replace" THEN Throws(c, o.srv, o.wire)
              ELSE IF r.ok THEN EndCall(c) /\ UNCHANGED <<srv, wire>> ELSE FirstFails(c, srv, wire)
        /\ UNCHANGED <<res, procs>>
     \/ /\ r.next = "detached"
        /\ IF ~r.ok THEN Throws(c, srv, wire)
           ELSE /\ EndCall(c)
                /\ LET s == [srv EXCEPT !.preparing = IF r.menu THEN FALSE ELSE @]
                   IN IF Canceled(r) THEN srv' = s /\ UNCHANGED wire ELSE Sent([s EXCEPT !.launch = NoLaunch], wire, Frame("detach"))
        /\ UNCHANGED <<res, procs>>
  /\ UNCHANGED <<cl, tty, ctlLeft>>

\* The socket is closed, whoever closed it: its shell goes.
SocketClosed ==
  /\ CtlIdle /\ srv.known /\ (srv.dead \/ cl.st = "finished")
  /\ srv' = [srv EXCEPT !.known = FALSE, !.dead = TRUE, !.gen = @ + 1, !.rgen = @ + 1]
  /\ IF srv.launch = NoLaunch THEN UNCHANGED <<res, procs>> ELSE CloseBegins(srv.launch)
  /\ UNCHANGED <<calls, wire, cl, tty, ctlLeft>>
disposeControl ==
  /\ CtlIdle /\ ~srv.disposed /\ CtlSpend("disposals")
  /\ srv' = IF srv.known THEN [srv EXCEPT !.disposed = TRUE, !.dead = TRUE, !.gen = @ + 1, !.rgen = @ + 1]
            ELSE [srv EXCEPT !.disposed = TRUE]
  /\ IF srv.known /\ srv.launch # NoLaunch THEN CloseBegins(srv.launch) ELSE UNCHANGED <<res, procs>>
  /\ UNCHANGED <<calls, wire, cl, tty>>

-----------------------------------------------------------------------------
(* The runtime and the processes of the shells *)

ownerClose(l) ==
  /\ CtlIdle /\ res[l] = "closing"
  /\ \/ l \notin procs.alive /\ CloseSettles(l, TRUE) /\ UNCHANGED ctlLeft
     \/ CtlSpend("faults") /\ CloseSettles(l, FALSE)
  /\ UNCHANGED <<srv, wire, cl, tty>>
\* A shell that has ended, that never started, or whose window goes, is closed by the runtime.
RuntimeCloses(l) ==
  /\ CtlIdle /\ res[l] = "reserved"
  /\ \/ (l \in procs.gone \/ srv.disposed) /\ UNCHANGED ctlLeft
     \/ l \notin procs.gone \cup procs.alive /\ ~srv.disposed /\ CtlSpend("timeouts")
  /\ CloseBegins(l)
  /\ UNCHANGED <<srv, calls, wire, cl, tty>>
ShellEnds(l) ==
  /\ CtlIdle /\ l \in procs.alive
  /\ IF l \in procs.dying THEN UNCHANGED ctlLeft ELSE CtlSpend("exits")
  /\ procs' = [alive |-> procs.alive \ {l}, dying |-> procs.dying \ {l}, gone |-> procs.gone \cup {l}, exits |-> procs.exits \cup {l}]
  /\ tty' = IF l = cl.child THEN [tty EXCEPT !.fg = "host", !.pend = "none"] ELSE tty
  /\ UNCHANGED <<srv, calls, res, wire, cl>>
\* The supervisor hands the terminal over and acknowledges; of two signals it sees the later.
SupervisorHandsOver ==
  /\ CtlIdle /\ tty.pend # "none" /\ cl.child \in procs.alive \ procs.dying
  /\ tty' = [fg |-> IF tty.pend = "on" THEN "host" ELSE "shell", pend |-> "none", ack |-> tty.pend]
  /\ UNCHANGED <<srv, calls, res, procs, wire, cl, ctlLeft>>

-----------------------------------------------------------------------------
(* The client *)

ClientUp == CtlIdle /\ cl.st \in {"connecting", "open"}
ChildLives == cl.child \in procs.alive
Abort(m) == IF m.st = "none" THEN m ELSE [m EXCEPT !.aborted = TRUE]

finish(c) ==
  /\ cl' = [c EXCEPT !.st = "finished", !.startup = FALSE, !.menu = Abort(@)]
  /\ procs' = [procs EXCEPT !.dying = @ \cup ({c.child} \cap procs.alive)]
  /\ UNCHANGED tty

\* The shell of a launch, or the user's own shell after a detach, takes the terminal.
launch(c, l) ==
  /\ cl' = [c EXCEPT !.startup = FALSE, !.changing = (l = HostShell), !.child = l, !.menu = Abort(@), !.missed = FALSE]
  /\ procs' = [procs EXCEPT !.alive = @ \cup {l},
                            !.dying = IF l = HostShell \/ res[l] \in {"reserved", "kept"} THEN @ ELSE @ \cup {l}]
  /\ tty' = [fg |-> "shell", pend |-> "none", ack |-> "none"]

ClientReceives ==
  /\ ClientUp /\ wire.down # <<>>
  /\ LET m == Head(wire.down) IN
     /\ \/ /\ m.type = "changing"
           /\ cl' = [cl EXCEPT !.changing = TRUE, !.menu = Abort(@), !.startup = TRUE]
           /\ UNCHANGED <<procs, tty, ctlLeft>>
        \/ m.type = "launch" /\ launch(cl, m.of) /\ UNCHANGED ctlLeft
        \/ m.type = "detach" /\ launch(cl, HostShell) /\ UNCHANGED ctlLeft
        \/ /\ m.type \in {"launch", "detach"}      \* the shell cannot be started
           /\ CtlSpend("faults") /\ finish(cl)
        \/ /\ m.type = "request-error"
           /\ cl' = [cl EXCEPT !.changing = FALSE, !.startup = FALSE]
           /\ UNCHANGED <<procs, tty, ctlLeft>>
        \/ m.type = "error" /\ finish(cl) /\ UNCHANGED ctlLeft
  /\ wire' = [wire EXCEPT !.down = Tail(@)]
  /\ UNCHANGED <<srv, calls, res>>
ClientClosed ==
  /\ ClientUp /\ (srv.dead \/ (srv.ended /\ wire.down = <<>>))
  /\ finish(cl)
  /\ UNCHANGED <<srv, calls, res, wire, ctlLeft>>
StartupTimeout ==
  /\ ClientUp /\ cl.startup /\ CtlSpend("timeouts")
  /\ finish(cl)
  /\ UNCHANGED <<srv, calls, res, wire>>
\* The end of a shell is the end of the terminal, unless it was replaced or is being changed.
ChildExit(l) ==
  /\ CtlIdle /\ l \in procs.exits
  /\ IF cl.st # "finished" /\ cl.child = l /\ (l = HostShell \/ ~cl.changing)
     THEN /\ cl' = [cl EXCEPT !.st = "finished", !.startup = FALSE, !.menu = Abort(@)]
     ELSE cl' = [cl EXCEPT !.missed = @ \/ cl.child = l]
  /\ procs' = [procs EXCEPT !.exits = @ \ {l}]
  /\ UNCHANGED <<srv, calls, res, wire, tty, ctlLeft>>
Signal(interrupt) ==
  /\ ClientUp /\ CtlSpend("signals")
  /\ IF interrupt /\ cl.menu.st # "none" THEN cl' = [cl EXCEPT !.menu = Abort(@)] /\ UNCHANGED <<procs, tty>>
     ELSE IF ChildLives
     THEN /\ procs' = [procs EXCEPT !.dying = IF interrupt /\ tty.ack = "on" THEN @ ELSE @ \cup {cl.child}]
          /\ UNCHANGED <<cl, tty>>
     ELSE finish(cl)
  /\ UNCHANGED <<srv, calls, res, wire>>

\* The menu: the terminal is taken from the shell, read, and given back before the
\* choice counts; a maintenance command takes it and gives it back once more.
Signalled(on) == IF cl.menu.of \in procs.alive /\ cl.child = cl.menu.of THEN [tty EXCEPT !.pend = on] ELSE tty
MenuRequested ==
  /\ ClientUp /\ ~cl.changing /\ cl.menu.st = "none" /\ ChildLives /\ cl.child \in Launches
  /\ CtlSpend("menus")
  /\ cl' = [cl EXCEPT !.menu = [NoMenu EXCEPT !.st = "taking", !.of = cl.child, !.next = "read"]]
  /\ tty' = [tty EXCEPT !.pend = "on"]
  /\ UNCHANGED <<srv, calls, res, procs, wire>>
SupervisorOfMenu == cl.menu.of \in procs.alive \/ cl.menu.of \in procs.exits
MenuEnds(m) == [cl EXCEPT !.menu = NoMenu, !.stuck = @ \/ (m.next = "run" /\ m.st = "taking")]
\* The terminal goes back, if its supervisor is still there to take it.
GiveBack(m) ==
  IF SupervisorOfMenu
  THEN cl' = [cl EXCEPT !.menu = [m EXCEPT !.st = "giving"]] /\ tty' = Signalled("off")
  ELSE cl' = [cl EXCEPT !.menu = NoMenu] /\ UNCHANGED tty
MenuTakes ==
  LET m == cl.menu
      granted == ~m.aborted /\ tty.ack = "on" /\ cl.child = m.of
  IN /\ CtlIdle /\ m.st = "taking"
     /\ \/ granted /\ cl' = [cl EXCEPT !.menu.st = IF m.next = "read" THEN "reading" ELSE "running"] /\ UNCHANGED <<tty, ctlLeft>>
        \/ /\ ~granted
           /\ IF m.aborted \/ ~SupervisorOfMenu THEN UNCHANGED ctlLeft ELSE CtlSpend("timeouts")
           /\ IF m.next = "read" THEN GiveBack(m) ELSE cl' = MenuEnds(m) /\ UNCHANGED tty
     /\ UNCHANGED <<srv, calls, res, procs, wire>>
MenuAnswered ==
  /\ CtlIdle /\ cl.menu.st = "reading"
  /\ \E choice \in {"none", "replace", "detach", "host"} :
       /\ cl.menu.aborted => choice = "none"
       /\ GiveBack([cl.menu EXCEPT !.choice = choice])
  /\ UNCHANGED <<srv, calls, res, procs, wire, ctlLeft>>
HostCommandEnds ==
  /\ CtlIdle /\ cl.menu.st = "running"
  /\ GiveBack([cl.menu EXCEPT !.choice = "none"])
  /\ UNCHANGED <<srv, calls, res, procs, wire, ctlLeft>>
\* The choice is dropped when the terminal has changed while the menu was open.
MenuDecides(m) ==
  IF cl.st = "finished" \/ cl.changing \/ cl.child # m.of \/ m.choice = "none"
  THEN cl' = [cl EXCEPT !.menu = NoMenu] /\ UNCHANGED <<wire, tty>>
  ELSE IF m.choice = "host"
  THEN cl' = [cl EXCEPT !.menu = [m EXCEPT !.st = "taking", !.next = "run", !.choice = "none"]] /\ tty' = Signalled("on") /\ UNCHANGED wire
  ELSE /\ cl' = [cl EXCEPT !.menu = NoMenu, !.changing = TRUE, !.startup = TRUE]
       /\ wire' = [wire EXCEPT !.up = Append(@, m.choice)] /\ UNCHANGED tty
MenuGives ==
  LET m == cl.menu
      granted == tty.ack = "off" /\ cl.child = m.of
  IN /\ CtlIdle /\ m.st = "giving"
     /\ \/ granted /\ MenuDecides(m) /\ UNCHANGED ctlLeft
        \/ /\ ~granted
           /\ IF SupervisorOfMenu THEN CtlSpend("timeouts") ELSE UNCHANGED ctlLeft
           /\ cl' = [cl EXCEPT !.menu = NoMenu] /\ UNCHANGED <<wire, tty>>
     /\ UNCHANGED <<srv, calls, res, procs>>

-----------------------------------------------------------------------------
CtlBudgets == {"faults", "timeouts", "detaches", "replaces", "disposals", "exits", "signals", "menus"}
ControlInit(scene) ==
  /\ srv = [disposed |-> FALSE, known |-> FALSE, dead |-> FALSE, ended |-> FALSE, requested |-> FALSE,
            launch |-> NoLaunch, preparing |-> FALSE, gen |-> 0, rgen |-> 0]
  /\ calls = [c \in ControlCalls |-> NoCall]
  /\ res = [l \in Launches |-> "none"]
  /\ procs = [alive |-> {}, dying |-> {}, gone |-> {}, exits |-> {}]
  /\ wire = [down |-> <<>>, up |-> <<>>]
  /\ cl = [st |-> IF scene = [b \in CtlBudgets |-> 0] THEN "finished" ELSE "connecting", changing |-> FALSE, startup |-> TRUE,
           child |-> NoLaunch, menu |-> NoMenu, missed |-> FALSE, stuck |-> FALSE]
  /\ tty = [fg |-> "host", pend |-> "none", ack |-> "none"]
  /\ ctlLeft = scene

ControlNext ==
  \/ accept
  \/ RequestTimeout
  \/ Receive
  \/ detach
  \/ replace
  \/ \E c \in ControlCalls : prepare(c) \/ observeLaunch(c) \/ continueCall(c)
  \/ SocketClosed
  \/ disposeControl
  \/ \E l \in Launches : ownerClose(l) \/ RuntimeCloses(l)
  \/ \E l \in Launches \cup {HostShell} : ShellEnds(l) \/ ChildExit(l)
  \/ SupervisorHandsOver
  \/ ClientReceives
  \/ ClientClosed
  \/ StartupTimeout
  \/ \E interrupt \in BOOLEAN : Signal(interrupt)
  \/ MenuRequested
  \/ MenuTakes
  \/ MenuAnswered
  \/ HostCommandEnds
  \/ MenuGives

-----------------------------------------------------------------------------
ControlTypeOK ==
  /\ srv.launch \in Launches \cup {NoLaunch} /\ srv.gen \in Nat /\ srv.rgen \in Nat
  /\ \A c \in ControlCalls : calls[c].pc \in {"idle", "preparing", "closing", "resumed", "observing", "done"}
  /\ \A l \in Launches : res[l] \in {"none", "reserved", "closing", "closed", "kept"}
  /\ procs.dying \subseteq procs.alive /\ procs.alive \cap procs.gone = {}
  /\ cl.child \in Launches \cup {NoLaunch, HostShell}
  /\ \A b \in CtlBudgets : ctlLeft[b] \in Nat

\* No shell is prepared and then forgotten: as long as it is reserved its terminal
\* has it, a call will go on with it, or the runtime is about to close it.
ReservedIsHeld ==
  \A l \in Launches : res[l] = "reserved" =>
    \/ srv.known /\ srv.launch = l
    \/ \E c \in ControlCalls : calls[c].pc \in {"closing", "resumed", "observing"} /\ calls[c].new = l
    \/ l \in procs.gone \/ srv.disposed

\* Two shells never both have the terminal to themselves: one of them is ending.
OneShell == Cardinality(procs.alive \ procs.dying) <= 1

\* A client that is not finished has a shell or a deadline.  The one exception is a shell
\* that ended while a change was under way that was then refused.
ClientIsAttended ==
  cl.st # "finished" => cl.startup \/ cl.child \in procs.alive \cup procs.exits \/ cl.missed

\* Once nothing is under way both ends agree on the shell.
EndsAgree ==
  (/\ srv.known /\ ~srv.dead /\ ~srv.ended /\ cl.st = "open" /\ wire = [down |-> <<>>, up |-> <<>>]
   /\ \A c \in ControlCalls : calls[c].pc \in {"idle", "observing", "done"})
  => \/ cl.child = srv.launch /\ (cl.child # NoLaunch \/ cl.startup)
     \/ cl.child = HostShell /\ srv.launch = NoLaunch
     \/ cl.changing

\* The menu reads the terminal only when the shell has let go of it, and the shell has
\* it back when the menu is over.  The exception is a maintenance command that is
\* canceled while it waits for the terminal.
TerminalIsGivenBack ==
  (ChildLives /\ cl.child \in Launches \ procs.dying) =>
    /\ cl.menu.st \in {"reading", "running"} /\ cl.menu.of = cl.child => tty.fg = "host"
    /\ cl.menu.st = "none" /\ tty.pend = "none" /\ ~cl.stuck => tty.fg = "shell"

\* What an external terminal may rely on, whatever the order of the window's actions,
\* the menu's choices, closes that take their time and sockets that go: no shell is
\* forgotten, one shell at a time, a deadline or a shell, and a terminal that is given back.
TerminalsFollowControl ==
  ControlTypeOK /\ ReservedIsHeld /\ OneShell /\ ClientIsAttended /\ EndsAgree /\ TerminalIsGivenBack
=============================================================================
