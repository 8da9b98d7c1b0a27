SPECIFICATION TerminalsSpec
CONSTANTS
  Windows = {w1, w2}
  Tasks = {t1, t2}
  Daemons <- TwoDaemons
  Markers <- TwoMarkers
  Budgets <- SafetyBudgets
  None = None
  ShellCalls = {1, 2}
  BrokerIds = {1, 2, 3}
  GuardedNets = {"n1", "n2"}
  Helpers = 3
 ControlCalls = {1, 2, 3, 4}
 Launches = {1, 2, 3, 4}
SYMMETRY Symmetry
INVARIANTS  StopWins
PROPERTY ImplementsIntent
INVARIANTS ShellsAreAccounted
INVARIANTS TerminalsFollowControl
CHECK_DEADLOCK FALSE
