SPECIFICATION ServicesSpec
CONSTANTS
  MaxPort = 4
  Ranges = {0, 1, 2, 5}
  Hashes = {0, 3, 6}
  MaxChanges = 2
  NumVolumes = 2
  MaxOpens = 2
  Sockets = {1, 2, 3}
  ProxyLimits <- Limits
  Connections <- ThreeConnections
  ClientPid = 9
  ProcessTables <- ClientTables
  Environments <- ClientEnvironments
  Attachments <- Labels
  VerdictTtl <- Ttls
  MaxVerdicts = 1
  SocketTableTtl = 1
  RuntimeOf <- RuntimesOfNetworks
  Mapped = {"a"}
  MaxScopes = 1
  DrawnRows <- CommandRows
  NewRowId = "new"
  Folders = {"f1", "f2"}
  AttachedSources <- AttachedProjects
  Discovered <- FoundContainers
  StreamCalls = {1, 2}
  Streams = {1, 2, 3}
  RowIds = {"p"}
INVARIANTS BestFreePort  ListenersFollowWishes 
INVARIANTS  ChangesReachRoutes 
PROPERTIES AttachmentsAreRouted 
PROPERTY StreamKeepsUp
CHECK_DEADLOCK FALSE
