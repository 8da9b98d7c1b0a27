SPECIFICATION SpecTake
CONSTANTS
  a = a
  b = b
  Nobody = Nobody
  Windows <- TwoWindows
  Ports = {1, 2}
PROPERTY TakeSettles
CHECK_DEADLOCK FALSE
