SPECIFICATION ListenersSpec
CONSTANTS
  None = None
  Foreign = Foreign
  MaxPort = 3
  Clients <- Everybody
  Listen <- Servers
  Port <- One
  Net <- TwoNets
  Host <- TwoHosts
  Terminal <- Shell
  Candidates <- Slots
  Scoped = FALSE
  Threshold = 2
  Budgets <- AllBudgets
  ActualPorts = {1, 2}
  Exposures <- TwoExposures
  HostEndpoint <- SameHostPort
  NativeSlots = 2
  Origins <- TwoOrigins
  ActiveLimit = 1
  WaitingLimit = 2
  HttpBudget = 1
  QueuedBudget = 2
  RouterPorts <- TwoPorts
  ListenerCapacity = 1
  Networks <- TargetNetworks
  FixedPorts = {2}
  AddressOrder <- AddressesInOrder
  AliasMaps <- SomeMaps
  TerminalBand = {9}
INVARIANTS PendingExclusive RowsMatchChildren HostListenersFollowCalls 
INVARIANTS GatewaysLeadHome
PROPERTIES LiveRowsStay PermitsFollowRequests
PROPERTY SetupIsHonest
CHECK_DEADLOCK FALSE
