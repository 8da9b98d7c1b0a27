SPECIFICATION FairSpec
CONSTANTS
  Windows = {w1, w2}
  Tasks = {t1, t2}
  Daemons <- TwoDaemons
  Markers <- TwoMarkers
  Budgets <- CommandBudgets
  None = None
PROPERTY StopStops
CHECK_DEADLOCK FALSE
