-------------------------- MODULE TaskManagerRuns --------------------------
(***************************************************************************)
(* TaskManager seen as the runs of its jobs: a run begins when a worker    *)
(* has set the row to running and ends when its result is saved or its     *)
(* worker is gone.                                                         *)
(***************************************************************************)
EXTENDS TaskManager

Running == {d \in Job \X Slot : Runs(d)}

\* The jobs that are finished, or that a worker has left while they were
\* recorded as running: nothing takes those up again.
Over == {j \in Job : \/ row[j].status \in Finished
                     \/ row[j].status = "running" /\ \A n \in Slot : ~Runs(<<j, n>>)}

ConflictPairs == {p \in Job \X Job : Conflict(p[1], p[2])}
Preparations == {j \in Job : TypeOf[j] = "check"}

Abstract == INSTANCE ExclusiveRuns WITH
    Copy <- Slot, Conflicts <- ConflictPairs, Repeatable <- Preparations,
    running <- Running, over <- Over

\* Every step of passes, workers, callbacks and crashes is a step of
\* ExclusiveRuns or none: conflicting jobs do not overlap, and a backup, catalog
\* or prune job whose run has ended, or that was called off, never runs again;
\* only a preparation does.
ImplementsRuns == Abstract!RunSpec
=============================================================================
