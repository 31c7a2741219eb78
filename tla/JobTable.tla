------------------------------ MODULE JobTable ------------------------------
(***************************************************************************)
(* The rows of table main_job (main/models/jobs.py) and the predicates the *)
(* rest of the program evaluates on them.  What never changes in a row     *)
(* after it is created (type, repository, client, policy, launch type) is  *)
(* a constant function of the job; what changes is the record Row.  Jobs   *)
(* are numbered in the order of their `created` timestamp, the order in    *)
(* which the task manager walks them.                                      *)
(***************************************************************************)
EXTENDS Naturals

CONSTANTS
    Job,          \* the rows that exist or may be created
    Repo, Client, \* the repositories and the clients that are backed up
    Hypervisor,   \* the hosts of those that are virtual machines
    None,         \* a null foreign key
    TypeOf,       \* job_type
    RepoOf,       \* job.repository, None for a client preparation or a restore
    ClientOf,     \* job.client, None for a repository preparation
    PolicyRepo,   \* job.policy.repository
    HypervisorOf, \* the host of the client, None unless the policy's type is 'vm'
    Dependency,   \* the jobs whose launch_type is 'dependency'
    Prepares      \* for those, the job they were created to prepare

JobType == {"job", "catalog", "prune", "check", "restore"}

\* JOB_STATUS_CHOICES, and "absent" for a row that is not in the table.
Status == {"absent", "new", "pending", "waiting", "starting", "running",
           "successful", "failed", "error", "canceled"}
Row == [status : Status, cancel : BOOLEAN, dep : Job \cup {None}]
NoRow == [status |-> "absent", cancel |-> FALSE, dep |-> None]

ASSUME JobAssumption ==
    /\ Job \subseteq Nat
    /\ None \notin Job \cup Repo \cup Client
    /\ TypeOf \in [Job -> JobType]
    /\ RepoOf \in [Job -> Repo \cup {None}]
    /\ ClientOf \in [Job -> Client \cup {None}]
    /\ PolicyRepo \in [Job -> Repo]
    /\ HypervisorOf \in [Job -> Hypervisor \cup {None}]
    /\ \A j \in Job : ClientOf[j] = None => HypervisorOf[j] = None
    /\ Dependency \subseteq Job
    /\ Prepares \in [Dependency -> Job \cup {None}]
    /\ \A p \in Dependency : TypeOf[p] = "check"

Finished == {"successful", "failed", "error", "canceled"}
ActiveStates == {"new", "pending", "waiting", "running"}
CanCancel(r) == r.status \in ActiveStates
CanStart(r) == r.status \in {"new", "starting", "waiting"}

\* Mutant: a job holds nothing until a worker has it.
BusyOnWorker(r) == r.status = "running"

\* The jobs that hold their repository and their client.
Busy(r) == r.status \in {"starting", "running"}

\* Mutant: a job is held up for ever by a dependency that failed.
DependentJobsSuccessful(table, j) ==
    \A x \in Job : table[x].dep = j => table[x].status = "successful"

(***************************************************************************)
(* x.dependent_jobs = y says that y waits for x.  Note the test the code   *)
(* makes: a job that is 'starting' does not hold up those that wait for it.*)
(***************************************************************************)
DependentJobsFinished(table, j) ==
    \A x \in Job : table[x].dep = j => table[x].status \notin ActiveStates

\* Mutant: the jobs of the client are counted within the repository only.
SameClientAndRepoJobs(table, j) ==
    {k \in Job : /\ ClientOf[k] = ClientOf[j] /\ RepoOf[k] = PolicyRepo[j]
                /\ Busy(table[k])}

SameRepoJobs(table, j) ==
    {k \in Job : RepoOf[k] = PolicyRepo[j] /\ Busy(table[k])}
SameClientJobs(table, j) ==
    {k \in Job : ClientOf[k] = ClientOf[j] /\ Busy(table[k])}

(***************************************************************************)
(* TaskManager.is_job_blocked.  `marked` is the dependency graph: the jobs *)
(* this pass has already started.  The query on the client dereferences    *)
(* task.client before anything tests that there is one, so for a job       *)
(* without a client the call raises AttributeError whenever it gets there. *)
(***************************************************************************)
RaisesNoClient(table, marked, j) ==
    /\ j \notin marked
    /\ DependentJobsFinished(table, j)
    /\ ClientOf[j] = None

IsJobBlocked(table, marked, j) ==
    \/ j \in marked
    \/ ~DependentJobsFinished(table, j)
    \/ SameRepoJobs(table, j) # {}
    \/ SameClientJobs(table, j) # {}

\* Two rows of the same order_by("-created") key: preparations of one job
\* are all dated one (two) seconds before it.
SameDate(a, b) ==
    /\ {a, b} \subseteq Dependency
    /\ Prepares[a] = Prepares[b]
    /\ Prepares[a] # None
    /\ RepoOf[a] = RepoOf[b]

\* filter(job_type='check', ...).order_by("-created").first(), one of them.
Latest(S) == {a \in S : \A b \in S : b <= a \/ SameDate(a, b)}
Checks(table) ==
    {k \in Job : TypeOf[k] = "check" /\ table[k].status # "absent"}
LatestRepositoryCreation(table, j) ==
    Latest({k \in Checks(table) : RepoOf[k] = PolicyRepo[j]})
LatestClientPreparation(table, j) ==
    Latest({k \in Checks(table) : ClientOf[k] = ClientOf[j]})

\* sorted(jobs, key=lambda task: task.created)[0]
First(S) == CHOOSE a \in S : \A b \in S : a <= b
=============================================================================
