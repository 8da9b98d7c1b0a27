----------------------------- MODULE MCTerminals -----------------------------
(* The daemon's life and the terminals of a window, one part at a time: the  *)
(* parts share nothing, and a run of one part leaves the others as they are. *)
EXTENDS MCDaemonLifecycle, GuardedShells, TerminalControl

VARIABLE playing  \* the part that moves

\* Guarded terminals: what the user does, and what fails.  One network with two shells of it,
\* or two networks with too few helpers for both.
Undisturbed == [opens |-> 0, cancels |-> 0, closes |-> 0, detaches |-> 0, removals |-> 0, disposals |-> 0, faults |-> 0,
                timeouts |-> 0, deaths |-> 0, expiries |-> 0, exits |-> 0]
Opens(n) == [Undisturbed EXCEPT !.opens = n]
GuardedOn(nets, left) == [nets |-> nets, left |-> left]
GuardScenes ==
  {GuardedOn({"n1", "n2"}, [Opens(1) EXCEPT !.faults = 1, !.closes = 1, !.expiries = 1]),
   GuardedOn({"n1"}, [Opens(1) EXCEPT !.deaths = 2, !.closes = 1, !.detaches = 1]),
   GuardedOn({"n1"}, [Opens(1) EXCEPT !.deaths = 1, !.timeouts = 2, !.exits = 1, !.disposals = 1]),
   GuardedOn({"n1", "n2"}, [Opens(2) EXCEPT !.detaches = 1]),
   GuardedOn({"n1", "n2"}, [Opens(2) EXCEPT !.cancels = 1, !.removals = 1]),
   GuardedOn({"n1"}, [Opens(2) EXCEPT !.faults = 1, !.detaches = 1]),
   GuardedOn({"n1"}, [Opens(2) EXCEPT !.deaths = 1])}
NoGuarded == GuardedOn({}, Undisturbed)

\* An external terminal: changes asked for in the window and in its menu, and what goes wrong.
Steady == [b \in CtlBudgets |-> 0]
ControlScenes ==
  {[Steady EXCEPT !.faults = 1, !.detaches = 1, !.replaces = 1],
   [Steady EXCEPT !.replaces = 2],
   [Steady EXCEPT !.detaches = 1, !.replaces = 1, !.disposals = 1],
   [Steady EXCEPT !.replaces = 1, !.menus = 1],
   [Steady EXCEPT !.faults = 1, !.timeouts = 1, !.signals = 1, !.menus = 1],
   [Steady EXCEPT !.detaches = 1, !.exits = 1, !.signals = 1, !.menus = 1],
   [Steady EXCEPT !.timeouts = 1, !.menus = 2]}

Parts == {"daemon", "shells", "control"}
Scenes(part, this, scenes, none) == IF part = this THEN scenes ELSE {none}
TerminalsInit ==
  \E part \in Parts :
    /\ playing = part
    /\ Init /\ (part = "daemon" \/ budget = Budget(0, 2, 1, 1))
    /\ \E s \in Scenes(part, "shells", GuardScenes, NoGuarded) : GuardInit(s)
    /\ \E s \in Scenes(part, "control", ControlScenes, Steady) : ControlInit(s)

Rest(part) ==
  /\ UNCHANGED playing
  /\ IF part = "daemon" THEN TRUE ELSE UNCHANGED vars
  /\ IF part = "shells" THEN TRUE ELSE UNCHANGED guardVars
  /\ IF part = "control" THEN TRUE ELSE UNCHANGED ctlVars
TerminalsNext ==
  \/ playing = "daemon" /\ Next /\ Rest("daemon")
  \/ playing = "shells" /\ GuardNext /\ Rest("shells")
  \/ playing = "control" /\ ControlNext /\ Rest("control")
TerminalsSpec ==
  TerminalsInit /\ [][TerminalsNext]_<<playing, vars, guardVars, ctlVars>>
=============================================================================
