--------------------------- MODULE MCTaskManager ---------------------------
(***************************************************************************)
(* Instances of TaskManager.  `At(s, d)` is a row with status s that d     *)
(* waits for.                                                              *)
(***************************************************************************)
EXTENDS TaskManagerRuns, TLC

CONSTANTS r1, r2, c1, c2, h1, h2

At(s, d) == [status |-> s, cancel |-> FALSE, dep |-> d]
Past == At("successful", None)

(***************************************************************************)
(* A policy launched for c1, with its catalog and prune jobs, beside a     *)
(* backup to the same repository of c2, a virtual machine of h1.           *)
(* 1, 2, 3: the preparations of r1, c1 and the host of c2 of an earlier    *)
(* day; 4: a preparation of r1, and 5, 6: two of c1, that may be created   *)
(* for 7; 7, 8, 9: backup, catalog and prune of c1; 10, 11: preparations   *)
(* of the host that may be created for 12; 12: backup of c2.               *)
(***************************************************************************)
MCJob == 1 .. 12
MCTypeOf == <<"check", "check", "check", "check", "check", "check", "job",
              "catalog", "prune", "check", "check", "job">>
MCRepoOf == <<r1, None, None, r1, None, None, r1, r1, r1, None, None, r1>>
MCClientOf == <<None, c1, c2, None, c1, c1, c1, c1, c1, c2, c2, c2>>
MCPolicyRepo == [j \in MCJob |-> r1]
MCHypervisorOf == [j \in MCJob |-> IF j \in {3, 10, 11, 12} THEN h1 ELSE None]
MCDependency == (1 .. 6) \cup {10, 11}
MCPrepares == [p \in MCDependency |->
                  IF p <= 3 THEN None ELSE IF p <= 6 THEN 7 ELSE 12]

\* A table with these rows; what was prepared an earlier day is given.
Table(past, rows) == [j \in MCJob |-> IF j \in past THEN Past
                                     ELSE IF j \in DOMAIN rows THEN rows[j] ELSE NoRow]
\* Everything was prepared an earlier day.
Launched ==
    [row |-> Table({1, 2, 3}, (7 :> At("pending", 8)) @@ (8 :> At("waiting", 9))
                       @@ (9 :> At("waiting", None)) @@ (12 :> At("pending", None))),
     ready |-> {r1, c1, <<c2, h1>>}]
\* c1 is new, and only its backup and its catalog are launched; r1 was prepared
\* an earlier day, or is ready though it never was.
NewClient(past) ==
    [row |-> Table(past, (7 :> At("pending", 8)) @@ (8 :> At("waiting", None))),
     ready |-> {r1}]
\* c2 has moved from h2 to h1; the row of its last preparation is gone.
NewHost ==
    [row |-> Table({1}, 12 :> At("pending", None)), ready |-> {r1, <<c2, h2>>}]
CoreOrigins == {Launched, NewClient({1}), NewClient({}), NewHost}

\* Users cancel what runs, except preparations.
RunningCancels == {7, 8, 9, 12} \X {"running"}
NoRequests == {}

\* What build_args does in the source, and a backup's builder that returns too.
AnyBuild == [t \in JobType |-> IF t \in {"job", "catalog"} THEN {"ok", "raise"}
                               ELSE {"ok"}]
\* Preparations succeed, other commands may fail.
AnyRun == [t \in JobType |-> IF t = "check" THEN {"successful"}
                             ELSE {"successful", "failed"}]

(***************************************************************************)
(* A preparation and a catalog job of one client and nothing else, for     *)
(* combinations of requests, commands, faults and overlapping passes.      *)
(***************************************************************************)
PairJob == {1, 2}
PairTypeOf == <<"check", "catalog">>
PairRepoOf == <<None, r1>>
PairClientOf == <<c1, c1>>
PairPolicyRepo == <<r1, r1>>
PairHypervisorOf == [j \in PairJob |-> None]
PairDependency == {1}
PairPrepares == <<None>>
PairOrigins == {[row |-> <<At("pending", None), At("waiting", None)>>,
                 ready |-> {r1, c1}]}

PairCancels == PairJob \X {"pending", "running"}
PairStarts == PairJob \X {"starting"}

(***************************************************************************)
(* The catalog and prune jobs of c1, whose backup is done, for passes that *)
(* overlap.  1 and 2: the preparations of an earlier day.                  *)
(***************************************************************************)
ChainJob == 1 .. 4
ChainTypeOf == <<"check", "check", "catalog", "prune">>
ChainRepoOf == <<r1, None, r1, r1>>
ChainClientOf == <<None, c1, c1, c1>>
ChainPolicyRepo == [j \in ChainJob |-> r1]
ChainHypervisorOf == [j \in ChainJob |-> None]
ChainDependency == {1, 2}
ChainPrepares == <<None, None>>
ChainOrigins ==
    {[row |-> <<Past, Past, At("pending", 4), At("waiting", None)>>,
      ready |-> {r1, c1}]}
\* A user cancels the job that waits for the first.
ChainCancels == {4} \X {"waiting"}
=============================================================================
