--------------------------- MODULE MCPolicyLaunch ---------------------------
(***************************************************************************)
(* One client and one repository, prepared an earlier day (jobs 1 and 2),  *)
(* rows for a launch of a policy, a restore and its catalog launched again. *)
(***************************************************************************)
EXTENDS PolicyLaunch

CONSTANTS r1, c1

MCJob == 1 .. 7
MCTypeOf == <<"check", "check", "job", "catalog", "prune", "restore", "catalog">>
MCRepoOf == <<r1, None, r1, r1, r1, None, r1>>
MCClientOf == <<None, c1, c1, c1, c1, c1, c1>>
MCPolicyRepo == [j \in MCJob |-> r1]
MCHypervisorOf == [j \in MCJob |-> None]
MCDependency == {1, 2}
MCPrepares == <<None, None>>
Past == [status |-> "successful", cancel |-> FALSE, dep |-> None]
MCOrigins == {[row |-> [j \in MCJob |-> IF j \in MCDependency THEN Past ELSE NoRow],
               ready |-> {r1, c1}]}

NoRequests == {}
BuildsOk == [t \in JobType |-> {"ok"}]
RunsOk == [t \in JobType |-> {"successful"}]
=============================================================================
