-------------------------- MODULE MCDaemonLifecycle --------------------------
(* Two windows and two calls at a time.  Windows and calls are alike, except *)
(* for the owner, which only the fair specification mentions: the runs of    *)
(* safety properties use the symmetry.                                       *)
EXTENDS DaemonLifecycle, TLC

Symmetry == Permutations(Windows) \cup Permutations(Tasks)
TwoDaemons == 1..2
TwoMarkers == 1..2
Budget(commands, spawns, delays, failures) ==
  [commands |-> commands, spawns |-> spawns, delays |-> delays, failures |-> failures]
\* Two commands; a successor, a failure and a late answer.
SafetyBudgets == {Budget(2, 1, 0, 0), Budget(0, 2, 1, 1)}
LiveBudgets == {Budget(1, 1, 0, 0), Budget(2, 0, 0, 0), Budget(0, 2, 0, 1), Budget(0, 2, 2, 0)}
\* One command; one failure.
CommandBudgets == {Budget(1, 1, 0, 0)}
FailureBudgets == {Budget(0, 2, 0, 1)}
=============================================================================
