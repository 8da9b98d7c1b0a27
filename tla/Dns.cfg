SPECIFICATION FairSpec
CONSTANTS
  w1 = w1
  w2 = w2
  tableA = tableA
  DefaultTable = table0
  None = None
  Windows <- MCWindows
  Records <- MCRecords
  Revs <- MCRevs
  Incs <- MCIncs
  BackoffCap = 1
  MaxSaves = 2
  MaxFaults = 2
  Starts <- MCStarts
INVARIANTS NoStrandedBatch PushesAreAnswered
PROPERTIES TableNeverRegresses EventuallyPublished
CHECK_DEADLOCK FALSE
