SPECIFICATION Spec
CONSTANTS
  w1 = w1
  w2 = w2
  n1 = n1
  n2 = n2
  n3 = n3
  t1 = t1
  i1 = i1
  i2 = i2
  i3 = i3
  i4 = i4
  h1 = h1
  h2 = h2
  p1 = p1
  Windows = {w1, w2}
  Nobody = Nobody
  Networks = {n1, n2, n3}
  AddressesOf <- Addresses
  Ids = {w1, w2, i1, i2, i3, i4}
  Keys = {w1, w2, t1}
  Endpoints = {h1, h2}
  LogicalPorts = {p1}
  OwnerKeys = {}
  BrowserHosts = {h2}
  NoNetwork = NoNetwork
  Unused = Unused
  None = None
  Foreign = Foreign
  MaxPort = 3
INVARIANT RegistryIsSound
PROPERTIES AsksAnswered EventuallyConsistent
PROPERTIES EventuallyShared EventuallyListening
CHECK_DEADLOCK FALSE
