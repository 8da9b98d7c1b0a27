---------------------- MODULE MCRouteTablePublication ----------------------
(* Three listen routes, two of them for the same endpoint of network n with *)
(* different actual ports, the third an unscoped Compose route with a claim *)
(* file.  In SendRoutes a send route shares the endpoint and the files too. *)
EXTENDS RouteTablePublication

MCRoutes == {"a1", "a2", "b"}
MCPaths == {"entryA", "entryB", "claimB", "tableN"}
MCPathsOf ==
  [r \in MCRoutes |-> IF r = "b" THEN {"entryB", "claimB"} ELSE {"entryA", "tableN"}]
MCIdentityOf == [r \in MCRoutes |-> IF r = "b" THEN "B listen" ELSE "A listen"]
SendRoutes == MCRoutes \cup {"aSend"}
SendPathsOf ==
  [r \in SendRoutes |-> IF r = "b" THEN {"entryB", "claimB"} ELSE {"entryA", "tableN"}]
SendIdentityOf ==
  [r \in SendRoutes |-> IF r = "aSend" THEN "A send" ELSE MCIdentityOf[r]]
Budget(routes, live, ops, snapshots, faults, crashes) ==
  [routes |-> routes, live |-> live, ops |-> ops, snapshots |-> snapshots,
   faults |-> faults, crashes |-> crashes]

\* A crash and a successor; a failed write and a stale snapshot; two daemons at
\* once.
MCBudgets ==
  {Budget(SendRoutes, 1, 2, 0, 0, 1),
   Budget({"a1", "a2"}, 1, 2, 1, 1, 0), Budget({"a1", "b"}, 1, 2, 1, 1, 0),
   Budget({"a1"}, 2, 2, 0, 0, 1)}
\* A failed write or removal and nothing else.
FaultBudgets == {Budget(MCRoutes, 1, 2, 0, 1, 0)}
MCDaemons == {1, 2}
=============================================================================
