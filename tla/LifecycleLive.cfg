SPECIFICATION FairSpec
CONSTANTS
  Windows = {w1, w2}
  Tasks = {t1, t2}
  Daemons <- TwoDaemons
  Markers <- TwoMarkers
  Budgets <- LiveBudgets
  None = None
PROPERTIES CallsEnd EventuallyServed
CHECK_DEADLOCK FALSE
