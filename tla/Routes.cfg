SPECIFICATION FairSpec
CONSTANTS
  None = None
  Routes <- SendRoutes
  Paths <- MCPaths
  PathsOf <- SendPathsOf
  IdentityOf <- SendIdentityOf
  NetworkPaths = {"tableN"}
  ClaimPaths = {"claimB"}
  Daemons <- MCDaemons
  Budgets <- MCBudgets
PROPERTIES TableIsSound EventuallyServed
CHECK_DEADLOCK FALSE
