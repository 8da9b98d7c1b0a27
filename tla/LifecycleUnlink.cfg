SPECIFICATION Spec
CONSTANTS
  Windows = {w1, w2}
  Tasks = {t1, t2}
  Daemons <- TwoDaemons
  Markers <- TwoMarkers
  Budgets <- FailureBudgets
  None = None
SYMMETRY Symmetry
INVARIANT NoStrandedWindow
CHECK_DEADLOCK FALSE
