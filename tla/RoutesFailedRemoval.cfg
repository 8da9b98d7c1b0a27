SPECIFICATION Spec
CONSTANTS
  None = None
  Routes <- SendRoutes
  Paths <- MCPaths
  PathsOf <- SendPathsOf
  IdentityOf <- SendIdentityOf
  NetworkPaths = {"tableN"}
  ClaimPaths = {"claimB"}
  Daemons <- MCDaemons
  Budgets <- FaultBudgets
INVARIANT CleanMeansPublished
CHECK_DEADLOCK FALSE
