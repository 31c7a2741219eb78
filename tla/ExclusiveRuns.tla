--------------------------- MODULE ExclusiveRuns ---------------------------
(***************************************************************************)
(* What the scheduling of jobs promises, without passes, rows, locks and   *)
(* messages.  A run of a job is a job and a copy number.  Runs of jobs     *)
(* that conflict never overlap, and a job that is over, run or withdrawn,  *)
(* does not run again unless it may be repeated.                           *)
(***************************************************************************)
CONSTANTS
    Job,       \* the jobs
    Copy,      \* tells the runs of one job apart
    Conflicts, \* the pairs of jobs that must not run at the same time
    Repeatable \* the jobs that may be taken up again when they are over

VARIABLES
    running, \* the runs in progress
    over     \* the jobs that are not to run any more

RunInit == running = {} /\ over \in SUBSET Job

Begin(d) ==
    /\ d[1] \notin over
    /\ \A e \in running : d[1] # e[1] /\ <<d[1], e[1]>> \notin Conflicts
    /\ running' = running \cup {d}
    /\ UNCHANGED over

\* It may have succeeded, failed, been killed or died with its worker.
End(d) ==
    /\ d \in running
    /\ running' = running \ {d}
    /\ over' = over \cup {d[1]}

\* Canceled, or failed because something else failed, before it ran.
Withdraw(j) ==
    /\ UNCHANGED running
    /\ \A e \in running : e[1] # j
    /\ over' = over \cup {j}

Repeat ==
    /\ UNCHANGED running
    /\ over' \in SUBSET over
    /\ over \ over' \subseteq Repeatable

RunNext ==
    \/ Repeat
    \/ \E j \in Job : Withdraw(j)
    \/ \E d \in Job \X Copy : Begin(d) \/ End(d)

RunSpec == RunInit /\ [][RunNext]_<<running, over>>
=============================================================================
