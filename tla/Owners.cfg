SPECIFICATION Spec
CONSTANTS
  a = a
  b = b
  Nobody = Nobody
  Windows <- TwoWindows
  Ports = {1, 2}
 
PROPERTIES EventuallyRouted ElectionHolds EventuallyOneOwner
CHECK_DEADLOCK FALSE
