---------------------------- MODULE TaskManager ----------------------------
(***************************************************************************)
(* How a job gets from the job table to a worker and back: the passes of   *)
(* the task manager (main/utils/task_manager.py), the celery task that     *)
(* runs a job (main/tasks/basetask.py), its error callback                 *)
(* (main/tasks/shared.py), and the requests that change a job meanwhile    *)
(* (api/views/jobs.py).                                                    *)
(*                                                                         *)
(* A pass is one PostgreSQL transaction at READ COMMITTED: it walks the    *)
(* objects it read when it began, queries the table again at every test,   *)
(* and its saves are visible to others only when it commits; a row it has  *)
(* saved is locked until then.  Its celery messages are sent after the     *)
(* commit.  An exception rolls everything back.                            *)
(***************************************************************************)
EXTENDS JobTable, FiniteSets

CONSTANTS
    Scheduler,      \* celery processes that may run a pass at the same time
    Slot,           \* bound: deliveries of one job that may coexist
    Workers,        \* pool size of the job worker
    MaxConcurrency, \* the max-concurrency that worker reports
    InspectReplies, \* what celery's inspector may answer a pass
    BuildOutcome,   \* per job type: may build_args return, may it raise
    RunOutcome,     \* per job type: how the spawned command may end
    Updatable,      \* clients with can_be_updated()
    CancelFrom,     \* the jobs, and in which status, that users cancel
    StartFrom,      \* the jobs, and in which status, that users start
    Commands,       \* management commands that administrators run
    Faults,         \* parts that may crash: "scheduler", "worker", "broker"
    Origins         \* job tables, and what is ready, a behaviour may begin with

Readiness == Repo \cup Client \cup (Client \X Hypervisor)

ASSUME TaskManagerAssumption ==
    /\ None \notin Scheduler
    /\ Workers \in Nat \ {0}
    /\ MaxConcurrency \in Nat \ {0}
    /\ InspectReplies \subseteq {"job_worker", "other_worker", "none"}
    /\ BuildOutcome \in [JobType -> SUBSET {"ok", "raise"}]
    /\ RunOutcome \in [JobType -> SUBSET {"successful", "failed", "error"}]
    /\ Updatable \subseteq Client
    /\ CancelFrom \subseteq Job \X ActiveStates
    /\ StartFrom \subseteq Job \X {"new", "starting", "waiting"}
    /\ Commands \subseteq {"clean_orphan_jobs"}
    /\ Faults \subseteq {"scheduler", "worker", "broker"}
    /\ \A o \in Origins : /\ o.row \in [Job -> Row]
                          /\ o.ready \subseteq Readiness

VARIABLES
    row,      \* the committed job table
    ready,    \* repositories and clients whose ready flag is set; <<c, h>> when
              \* c has hypervisor_ready and h for its hypervisor_name
    toUpdate, \* clients with mark_as_to_update
    lock,     \* holder of the advisory lock task_manager_lock
    pc,       \* where each scheduler is in its pass
    todo,     \* the tasks of the loop it is in that are still to be visited
    obj,      \* its Job objects; those in dirty are what it has saved
    dirty,    \* the rows it has saved and not committed
    deps,     \* the dependency tasks of the task being visited
    left,     \* those of them still to be considered
    sends,    \* celery messages it will send once it has committed
    cleared,  \* clients whose mark_as_to_update it has cleared
    deliv,    \* the celery messages of each job, and how far they are run
    api       \* the HTTP request or the command being served

pass == <<lock, pc, todo, obj, dirty, deps, left, sends, cleared>>
vars == <<row, ready, toUpdate, pass, deliv, api>>

PassPc == {"idle", "waiting", "pending", "deps", "commit", "send"}
Sending == [job : Job, fail : SUBSET Job]
DeliveryPc ==
    {"none", "queued", "started", "canceling", "borg", "finishing", "failing"}
Delivery == [pc : DeliveryPc, fail : SUBSET Job, result : Status]
NoDelivery == [pc |-> "none", fail |-> {}, result |-> "absent"]
Request == [op : {"none", "cancel", "start", "clean"}, job : Job \cup {None}, seen : Row]
NoRequest == [op |-> "none", job |-> None, seen |-> NoRow]

Init ==
    /\ \E o \in Origins : row = o.row /\ ready = o.ready
    /\ toUpdate \in SUBSET Updatable
    /\ lock = None
    /\ pc = [s \in Scheduler |-> "idle"]
    /\ todo = [s \in Scheduler |-> {}]
    /\ obj = [s \in Scheduler |-> [j \in Job |-> NoRow]]
    /\ dirty = [s \in Scheduler |-> {}]
    /\ deps = [s \in Scheduler |-> {}]
    /\ left = [s \in Scheduler |-> {}]
    /\ sends = [s \in Scheduler |-> {}]
    /\ cleared = [s \in Scheduler |-> {}]
    /\ deliv = [d \in Job \X Slot |-> NoDelivery]
    /\ api = NoRequest

-----------------------------------------------------------------------------
(* The transaction of a pass.                                              *)

\* The table as the queries of this pass see it.
View(s) == [j \in Job |-> IF j \in dirty[s] THEN obj[s][j] ELSE row[j]]
\* Another transaction has saved the row: an UPDATE of it must wait.
Locked(j) == \E s \in Scheduler : j \in dirty[s]
LockedByOther(s, j) == \E t \in Scheduler \ {s} : j \in dirty[t]
\* The dependency graph of the pass.
Marked(s) == {m.job : m \in sends[s]}

\* job.save() without update_fields: the whole in-memory object is written.
Save(s, j, r) ==
    /\ ~LockedByOther(s, j)
    /\ obj' = [obj EXCEPT ![s][j] = r]
    /\ dirty' = [dirty EXCEPT ![s] = @ \cup {j}]

\* An exception leaves transaction.atomic(), or the process dies.
Rollback(s) ==
    /\ lock' = IF lock = s THEN None ELSE lock
    /\ pc' = [pc EXCEPT ![s] = "idle"]
    /\ todo' = [todo EXCEPT ![s] = {}]
    /\ obj' = [obj EXCEPT ![s] = [j \in Job |-> NoRow]]
    /\ dirty' = [dirty EXCEPT ![s] = {}]
    /\ deps' = [deps EXCEPT ![s] = {}]
    /\ left' = [left EXCEPT ![s] = {}]
    /\ sends' = [sends EXCEPT ![s] = {}]
    /\ cleared' = [cleared EXCEPT ![s] = {}]

Others == <<row, ready, toUpdate, deliv, api>>

Listed == {j \in Job : row[j].status \in {"pending", "waiting", "running"}}

\* Mutant: what advisory_lock yields on a database that is not PostgreSQL.
Unlocked == TRUE
\* pg_try_advisory_lock, wait=False.
LockIsFree == lock = None

\* schedule(): take the lock or give up; get_tasks().  The objects of running
\* jobs are never used: the map over them is lazy.
BeginPass(s) ==
    /\ pc[s] = "idle"
    /\ LockIsFree
    /\ Listed # {}
    /\ lock' = s
    /\ pc' = [pc EXCEPT ![s] = "waiting"]
    /\ obj' = [obj EXCEPT ![s] =
                   [j \in Job |-> IF row[j].status \in {"pending", "waiting"}
                                THEN row[j] ELSE NoRow]]
    /\ todo' = [todo EXCEPT ![s] = {j \in Job : row[j].status = "waiting"}]
    /\ UNCHANGED <<dirty, deps, left, sends, cleared, Others>>

\* One round of process_running_tasks.
ProcessWaiting(s) ==
    /\ pc[s] = "waiting"
    /\ todo[s] # {}
    /\ LET j == First(todo[s])
       IN  \/ /\ RaisesNoClient(View(s), {}, j)
              /\ Rollback(s)
           \/ /\ ~RaisesNoClient(View(s), {}, j)
              /\ IF IsJobBlocked(View(s), {}, j)
                 THEN UNCHANGED <<obj, dirty>>
                 ELSE Save(s, j, [obj[s][j] EXCEPT !.status = "pending"])
              /\ todo' = [todo EXCEPT ![s] = @ \ {j}]
              /\ UNCHANGED <<lock, pc, deps, left, sends, cleared>>
    /\ UNCHANGED Others

\* The lazy filter of process_tasks is evaluated now: what the first loop made
\* pending is included.  When the inspector has no answer, get_active_tasks
\* returns two values where three are unpacked.
ProcessPending(s) ==
    /\ pc[s] = "waiting"
    /\ todo[s] = {}
    /\ \/ /\ "none" \in InspectReplies
          /\ Rollback(s)
       \/ /\ InspectReplies # {"none"}
          /\ pc' = [pc EXCEPT ![s] = "pending"]
          /\ todo' = [todo EXCEPT ![s] =
                          {j \in Job : obj[s][j].status = "pending"}]
          /\ UNCHANGED <<lock, obj, dirty, deps, left, sends, cleared>>
    /\ UNCHANGED Others

-----------------------------------------------------------------------------
(* generate_dependencies and the start of tasks.                           *)

Queued == {"waiting", "pending", "running"}
PrepRow(j) == [status |-> "pending", cancel |-> FALSE, dep |-> j]

\* Rows create_prepare_repository / create_prepare_client may add for j.  A row
\* another transaction is adding has a primary key of its own.
FreePreps(table, j) ==
    {p \in Dependency : /\ table[p].status = "absent"
                        /\ Prepares[p] = j
                        /\ ~Locked(p)}
FreeRepositoryPreps(table, j) ==
    {p \in FreePreps(table, j) : RepoOf[p] = PolicyRepo[j] /\ ClientOf[p] = None}
FreeClientPreps(table, j) ==
    {p \in FreePreps(table, j) : RepoOf[p] = None /\ ClientOf[p] = ClientOf[j]}
\* The preparation has the client and the policy of the job.
FreeHypervisorPreps(table, j) ==
    {p \in FreeClientPreps(table, j) : HypervisorOf[p] = HypervisorOf[j]}

\* Mutant: what was never prepared is not prepared now.
PrepareAgain(table, latest, isReady, free) ==
    IF latest = {} THEN {{}}
    ELSE UNION {IF table[k].status \in Queued THEN {{k}}
                ELSE IF isReady THEN {{}} ELSE {{p} : p \in free} : k \in latest}

(***************************************************************************)
(* What should_prepare_* and the branches that follow it make of the       *)
(* latest check job: none is needed, wait for the latest, or create one.   *)
(* A set of outcomes, each the set of dependency tasks; no outcome when    *)
(* the rows Job provides for preparations are used up (a bound).           *)
(***************************************************************************)
Prepare(table, latest, isReady, free) ==
    IF latest = {} THEN {{p} : p \in free}
    ELSE UNION {IF table[k].status \in Queued THEN {{k}}
                ELSE IF isReady THEN {{}} ELSE {{p} : p \in free} : k \in latest}

RepositoryDependencies(table, j) ==
    Prepare(table, LatestRepositoryCreation(table, j), PolicyRepo[j] \in ready,
            FreeRepositoryPreps(table, j))

\* can_be_updated() and mark_as_to_update: prepare it whatever the latest is.
MustUpdate(s, j) == /\ HypervisorOf[j] = None
                    /\ ClientOf[j] \in (Updatable \cap toUpdate) \ cleared[s]

\* Of the clients that have reported the host only.
LatestHypervisorPreparation(table, j) ==
    Latest({k \in Checks(table) : /\ HypervisorOf[k] # None
                                  /\ <<ClientOf[k], HypervisorOf[j]>> \in ready})

\* A report sets name and flag together: the latest one's flag is always set.
HypervisorDependencies(table, j) ==
    Prepare(table, LatestHypervisorPreparation(table, j), TRUE,
            FreeHypervisorPreps(table, j))

ClientDependencies(s, table, j) ==
    IF ClientOf[j] = None THEN {{}}
    ELSE IF HypervisorOf[j] # None
    THEN HypervisorDependencies(table, j)
    ELSE IF MustUpdate(s, j) THEN {{p} : p \in FreeClientPreps(table, j)}
    ELSE Prepare(table, LatestClientPreparation(table, j), ClientOf[j] \in ready,
                 FreeClientPreps(table, j))

HasDependencies(j) == j \notin Dependency /\ TypeOf[j] # "catalog"
DependencyChoices(s, j) ==
    IF HasDependencies(j)
    THEN {r \cup c : r \in RepositoryDependencies(View(s), j),
                     c \in ClientDependencies(s, View(s), j)}
    ELSE {{}}

GenerateDependencies(s) ==
    /\ pc[s] = "pending"
    /\ todo[s] # {}
    /\ LET j == First(todo[s])
           new(D) == {p \in D : View(s)[p].status = "absent"}
       IN  \/ \E D \in DependencyChoices(s, j) :
                 /\ deps' = [deps EXCEPT ![s] = D]
                 /\ left' = [left EXCEPT ![s] = D]
                 /\ obj' = [obj EXCEPT ![s] = [k \in Job |->
                               IF k \in new(D) THEN PrepRow(j)
                               ELSE IF k \in D THEN View(s)[k] ELSE @[k]]]
                 /\ dirty' = [dirty EXCEPT ![s] = @ \cup new(D)]
                 /\ cleared' = IF HasDependencies(j) /\ MustUpdate(s, j)
                               THEN [cleared EXCEPT ![s] = @ \cup {ClientOf[j]}]
                               ELSE cleared
                 /\ pc' = [pc EXCEPT ![s] = "deps"]
                 /\ UNCHANGED todo
           \/ /\ DependencyChoices(s, j) = {}
              /\ todo' = [todo EXCEPT ![s] = @ \ {j}]
              /\ UNCHANGED <<pc, obj, dirty, deps, left, cleared>>
    /\ UNCHANGED <<lock, sends, Others>>

\* start_task: the object is saved as 'starting', the message is left for
\* on_commit.  pre_start never refuses: 'starting' is a startable status and
\* no password is ever needed.
StartTask(s, j, r, subtasks) ==
    /\ Save(s, j, [r EXCEPT !.status = "starting"])
    /\ sends' = [sends EXCEPT ![s] = @ \cup {[job |-> j, fail |-> subtasks]}]

\* The repository preparation comes first in the list.
NextDependency(D) ==
    CHOOSE d \in D : RepoOf[d] # None \/ \A e \in D : RepoOf[e] = None

\* One round of process_dependencies.
ProcessDependency(s) ==
    /\ pc[s] = "deps"
    /\ left[s] # {}
    /\ LET d == NextDependency(left[s])
           j == First(todo[s])
       IN  \/ /\ RaisesNoClient(View(s), Marked(s), d)
              /\ Rollback(s)
           \/ /\ ~RaisesNoClient(View(s), Marked(s), d)
              /\ IF IsJobBlocked(View(s), Marked(s), d)
                 THEN UNCHANGED <<obj, dirty, sends>>
                 ELSE StartTask(s, d, obj[s][d], deps[s] \cup {d, j})
              /\ left' = [left EXCEPT ![s] = @ \ {d}]
              /\ UNCHANGED <<lock, pc, todo, deps, cleared>>
    /\ UNCHANGED Others

\* i of process_pending_tasks: what was started for itself, not as a dependency.
StartedAlone(s) == {m \in sends[s] : m.fail = {m.job}}

\* The rest of a round of process_pending_tasks.  `concurrencies` is an empty
\* tuple when no worker is called worker-job: it is indexed after a start.
ProcessTask(s) ==
    /\ pc[s] = "deps"
    /\ left[s] = {}
    /\ LET j == First(todo[s])
           starts == ~IsJobBlocked(View(s), Marked(s), j)
           atLimit == Cardinality(StartedAlone(s)) + 1 = MaxConcurrency
       IN  \/ /\ \/ RaisesNoClient(View(s), Marked(s), j)
                 \/ starts /\ "other_worker" \in InspectReplies
              /\ Rollback(s)
           \/ /\ ~RaisesNoClient(View(s), Marked(s), j)
              /\ IF starts
                 THEN /\ "job_worker" \in InspectReplies
                      /\ StartTask(s, j, obj[s][j], {j})
                 ELSE UNCHANGED <<obj, dirty, sends>>
              /\ todo' = [todo EXCEPT ![s] =
                              IF starts /\ atLimit THEN {} ELSE @ \ {j}]
              /\ pc' = [pc EXCEPT ![s] = "pending"]
              /\ deps' = [deps EXCEPT ![s] = {}]
              /\ UNCHANGED <<lock, left, cleared>>
    /\ UNCHANGED Others

\* The advisory lock is released inside the transaction, before it commits.
ReleaseLock(s) ==
    /\ pc[s] = "pending"
    /\ todo[s] = {}
    /\ lock' = None
    /\ pc' = [pc EXCEPT ![s] = "commit"]
    /\ UNCHANGED <<todo, obj, dirty, deps, left, sends, cleared, Others>>

Commit(s) ==
    /\ pc[s] = "commit"
    /\ row' = View(s)
    /\ toUpdate' = toUpdate \ cleared[s]
    /\ obj' = [obj EXCEPT ![s] = [j \in Job |-> NoRow]]
    /\ dirty' = [dirty EXCEPT ![s] = {}]
    /\ cleared' = [cleared EXCEPT ![s] = {}]
    /\ pc' = [pc EXCEPT ![s] = IF sends[s] = {} THEN "idle" ELSE "send"]
    /\ UNCHANGED <<ready, lock, todo, deps, left, sends, deliv, api>>

FreeSlots(j) == {n \in Slot : deliv[<<j, n>>].pc = "none"}

\* post_commit of start_task: start_celery_task with its error callback.
SendTask(s) ==
    /\ pc[s] = "send"
    /\ \E m \in sends[s] : \E n \in FreeSlots(m.job) :
          /\ deliv' = [deliv EXCEPT ![<<m.job, n>>] =
                          [pc |-> "queued", fail |-> m.fail, result |-> "absent"]]
          /\ sends' = [sends EXCEPT ![s] = @ \ {m}]
          /\ pc' = [pc EXCEPT ![s] = IF sends[s] = {m} THEN "idle" ELSE "send"]
    /\ UNCHANGED <<row, ready, toUpdate, lock, todo, obj, dirty, deps, left,
                   cleared, api>>

PassStep(s) ==
    \/ BeginPass(s) \/ ProcessWaiting(s) \/ ProcessPending(s)
    \/ GenerateDependencies(s) \/ ProcessDependency(s) \/ ProcessTask(s)
    \/ ReleaseLock(s) \/ Commit(s) \/ SendTask(s)

SchedulerCrash(s) ==
    /\ "scheduler" \in Faults
    /\ pc[s] # "idle"
    /\ Rollback(s)
    /\ UNCHANGED Others

-----------------------------------------------------------------------------
(* The celery worker: BaseTask.run, update_model by update_model.          *)

Executing == DeliveryPc \ {"none", "queued"}
Busied == {d \in Job \X Slot : deliv[d].pc \in Executing}

\* update_model(pk, status=...): waits for the row, writes only these fields.
SetStatus(j, s) ==
    /\ ~Locked(j)
    /\ row' = [row EXCEPT ![j].status = s]
Advance(d, p) == deliv' = [deliv EXCEPT ![d].pc = p]
Unscheduled == <<ready, toUpdate, pass, api>>

\* The status is set to running whatever it was; the cancel flag is read with it.
PickUp(d) ==
    /\ deliv[d].pc = "queued"
    /\ Cardinality(Busied) < Workers
    /\ SetStatus(d[1], "running")
    /\ Advance(d, IF row[d[1]].cancel THEN "canceling" ELSE "started")
    /\ UNCHANGED Unscheduled

\* A job canceled before it began is not started: RuntimeError.
StopCanceled(d) ==
    /\ deliv[d].pc = "canceling"
    /\ SetStatus(d[1], "canceled")
    /\ Advance(d, "failing")
    /\ UNCHANGED Unscheduled

(***************************************************************************)
(* What the source makes of BuildOutcome.  RunJob.build_args calls the     *)
(* builder of the job's type with the job and keywords; that of backups    *)
(* declares another positional parameter, self, so the call is a TypeError.*)
(* That of catalogs raises when no archive name is in the backup's events. *)
(***************************************************************************)
BuilderPositionals == [t \in JobType |-> IF t = "job" THEN 2 ELSE 1]
BuildOutcomeOfSource ==
    [t \in JobType |-> IF BuilderPositionals[t] # 1 THEN {"raise"}
                       ELSE IF t = "catalog" THEN {"ok", "raise"} ELSE {"ok"}]

\* Nothing catches what build_args raises: the row stays running and celery
\* calls the error callback.
BuildArgs(d) ==
    /\ deliv[d].pc = "started"
    /\ \/ "ok" \in BuildOutcome[TypeOf[d[1]]] /\ Advance(d, "borg")
       \/ "raise" \in BuildOutcome[TypeOf[d[1]]] /\ Advance(d, "failing")
    /\ UNCHANGED <<row, Unscheduled>>

\* run_pexpect, then the row is read once more for its cancel flag.
RunBorg(d) ==
    /\ deliv[d].pc = "borg"
    /\ \E r \in RunOutcome[TypeOf[d[1]]] :
          deliv' = [deliv EXCEPT ![d].pc = "finishing",
                        ![d].result = IF row[d[1]].cancel THEN "canceled" ELSE r]
    /\ UNCHANGED <<row, Unscheduled>>

\* The final update_model; a result that is not successful is raised to celery.
SaveResult(d) ==
    /\ deliv[d].pc = "finishing"
    /\ SetStatus(d[1], deliv[d].result)
    /\ IF deliv[d].result = "successful"
       THEN deliv' = [deliv EXCEPT ![d] = NoDelivery]
       ELSE Advance(d, "failing")
    /\ UNCHANGED Unscheduled

\* Mutant: the job whose task failed is left out, as the comparison of task_id
\* with celery_task_id intends.
FailsOther(d, k) == k # d[1] /\ ~row[k].cancel
Fails(d, k) == ~row[k].cancel

(***************************************************************************)
(* handle_work_error: celery calls it with (request, exception, traceback),*)
(* so that its task_id is the exception and differs from every             *)
(* celery_task_id; the job itself comes first.  The object is read and     *)
(* saved whole at once; a job with a cancel flag is left as it is.         *)
(***************************************************************************)
HandleWorkError(d) ==
    /\ deliv[d].pc = "failing"
    /\ \E k \in deliv[d].fail :
          /\ d[1] \in deliv[d].fail => k = d[1]
          /\ IF Fails(d, k) THEN SetStatus(k, "failed") ELSE UNCHANGED row
          /\ deliv' = [deliv EXCEPT ![d] =
                          IF @.fail = {k} THEN NoDelivery
                          ELSE [deliv[d] EXCEPT !.fail = deliv[d].fail \ {k}]]
    /\ UNCHANGED Unscheduled

\* Mutant: the null foreign key of the job is reported too.
ReportedKeys(j) == {RepoOf[j], ClientOf[j]}
Reported(j) ==
    IF HypervisorOf[j] = None THEN {RepoOf[j], ClientOf[j]} \ {None}
    ELSE {<<ClientOf[j], HypervisorOf[j]>>}
\* A client has one hypervisor_name.
Replaced(j) == IF HypervisorOf[j] = None THEN {} ELSE {ClientOf[j]} \X Hypervisor

\* The curl command at the end of a preparation script sets the ready flag.
ReportReady(d) ==
    /\ deliv[d].pc = "borg"
    /\ TypeOf[d[1]] = "check"
    /\ ready' = (ready \ Replaced(d[1])) \cup Reported(d[1])
    /\ UNCHANGED <<row, toUpdate, pass, deliv, api>>

WorkerStep(d) ==
    \/ PickUp(d) \/ StopCanceled(d) \/ BuildArgs(d) \/ RunBorg(d)
    \/ SaveResult(d) \/ HandleWorkError(d)

\* The worker dies with its tasks, which were acknowledged when they began.
WorkerCrash(d) ==
    /\ "worker" \in Faults
    /\ deliv[d].pc \in Executing
    /\ deliv' = [deliv EXCEPT ![d] = NoDelivery]
    /\ UNCHANGED <<row, Unscheduled>>

\* redis hands out again what was not acknowledged within an hour.
Redeliver(d) ==
    /\ "broker" \in Faults
    /\ deliv[d].pc = "queued"
    /\ \E n \in FreeSlots(d[1]) :
          deliv' = [deliv EXCEPT ![<<d[1], n>>] = deliv[d]]
    /\ UNCHANGED <<row, Unscheduled>>

-----------------------------------------------------------------------------
(* Requests: the view reads the object, tests it, and writes later.        *)

ReadJob(op, j) ==
    /\ api = NoRequest
    /\ api' = [op |-> op, job |-> j, seen |-> row[j]]
    /\ UNCHANGED <<row, ready, toUpdate, pass, deliv>>

JobCancel(j) ==
    /\ <<j, row[j].status>> \in CancelFrom
    /\ CanCancel(row[j])
    /\ ReadJob("cancel", j)

JobStart(j) ==
    /\ <<j, row[j].status>> \in StartFrom
    /\ CanStart(row[j])
    /\ ReadJob("start", j)

\* Mutant: the whole object that was read is saved, canceled.
CancelSeen(r, seen) == [seen EXCEPT !.cancel = TRUE, !.status = "canceled"]
\* Job.cancel: only the fields named are written, decided from the object read.
CancelFields(r, seen) ==
    [r EXCEPT !.cancel = TRUE,
              !.status = IF seen.status \in {"pending", "waiting", "new"}
                         THEN "canceled" ELSE @]

Cancel ==
    /\ api.op = "cancel"
    /\ IF api.seen.cancel THEN UNCHANGED row
       ELSE /\ ~Locked(api.job)
            /\ row' = [row EXCEPT ![api.job] = CancelFields(@, api.seen)]
    /\ api' = NoRequest
    /\ UNCHANGED <<ready, toUpdate, pass, deliv>>

\* Job.signal_start: pending, and a pass soon.
SignalStart ==
    /\ api.op = "start"
    /\ SetStatus(api.job, "pending")
    /\ api' = NoRequest
    /\ UNCHANGED <<ready, toUpdate, pass, deliv>>

\* mark_as_to_update is set through the API.
MarkAsToUpdate(c) ==
    /\ c \in Updatable \ toUpdate
    /\ toUpdate' = toUpdate \cup {c}
    /\ UNCHANGED <<row, ready, pass, deliv, api>>

\* Mutant: the jobs that are not queued.
Dequeued(r) == r.status \notin {"absent", "pending", "waiting"}
Orphaned(r) == r.status = "running"

\* Management command clean_orphan_jobs: it reads the running jobs and saves
\* each one whole, with status 'error'.
CleanOrphanJob(j) ==
    /\ "clean_orphan_jobs" \in Commands
    /\ Orphaned(row[j])
    /\ ReadJob("clean", j)

SaveOrphan ==
    /\ api.op = "clean"
    /\ ~Locked(api.job)
    /\ row' = [row EXCEPT ![api.job] = [api.seen EXCEPT !.status = "error"]]
    /\ api' = NoRequest
    /\ UNCHANGED <<ready, toUpdate, pass, deliv>>

UserStep ==
    \/ \E j \in Job : JobCancel(j) \/ JobStart(j) \/ CleanOrphanJob(j)
    \/ Cancel \/ SignalStart \/ SaveOrphan
    \/ \E c \in Client : MarkAsToUpdate(c)

-----------------------------------------------------------------------------
Next ==
    \/ \E s \in Scheduler : PassStep(s) \/ SchedulerCrash(s)
    \/ \E d \in Job \X Slot :
          WorkerStep(d) \/ ReportReady(d) \/ WorkerCrash(d) \/ Redeliver(d)
    \/ UserStep

Spec == Init /\ [][Next]_vars

\* celery beat runs a pass every 20 s and the workers keep going; users,
\* administrators and failures owe nothing.
Fairness ==
    /\ \A s \in Scheduler : WF_vars(PassStep(s))
    /\ \A d \in Job \X Slot : WF_vars(WorkerStep(d))
FairSpec == Spec /\ Fairness
-----------------------------------------------------------------------------
(* What the scheduling is for.                                             *)

TypeOK ==
    /\ row \in [Job -> Row]
    /\ ready \subseteq Readiness
    /\ toUpdate \subseteq Client
    /\ lock \in Scheduler \cup {None}
    /\ pc \in [Scheduler -> PassPc]
    /\ todo \in [Scheduler -> SUBSET Job]
    /\ obj \in [Scheduler -> [Job -> Row]]
    /\ dirty \in [Scheduler -> SUBSET Job]
    /\ deps \in [Scheduler -> SUBSET Job]
    /\ left \in [Scheduler -> SUBSET Job]
    /\ sends \in [Scheduler -> SUBSET Sending]
    /\ cleared \in [Scheduler -> SUBSET Client]
    /\ deliv \in [Job \X Slot -> Delivery]
    /\ api \in Request

\* Two jobs that must not run at the same time.
Conflict(j, k) ==
    \/ RepoOf[j] # None /\ RepoOf[j] = RepoOf[k]
    \/ ClientOf[j] # None /\ ClientOf[j] = ClientOf[k]

\* The deliveries that are between the start of a job and its result.
Runs(d) == deliv[d].pc \in {"started", "borg", "finishing"}

\* Two workers never run jobs of one repository or of one client at a time,
\* and never one job twice: what is_job_blocked's two counts are there for.
ExclusiveExecution ==
    \A d, e \in Job \X Slot :
        d # e /\ Runs(d) /\ Runs(e) => d[1] # e[1] /\ ~Conflict(d[1], e[1])

\* While a job is started or running, nothing it waits for (dependent_jobs) is
\* still to come: no dependency is overtaken, though dependent_jobs_finished
\* lets a 'starting' one pass.
NoOvertaking ==
    \A x, y \in Job : row[x].dep = y /\ Busy(row[y])
                        => row[x].status \notin ActiveStates \cup {"starting"}

\* A job a worker is running is 'running' in the table, where the next pass
\* counts it, whatever was saved meanwhile from an older copy of the row.
RunningIsRecorded ==
    \A d \in Job \X Slot : Runs(d) => row[d[1]].status = "running"

\* A job that is started or running has a message, or a scheduler about to send
\* it: none holds its repository and client for ever.
BusyIsHandled ==
    \A j \in Job : Busy(row[j]) =>
        \/ \E n \in Slot : deliv[<<j, n>>].pc # "none"
        \/ \E s \in Scheduler : \E m \in sends[s] : m.job = j

\* Every job that is queued, started or running is eventually over.
EveryJobFinishes ==
    \A j \in Job :
        row[j].status \in {"pending", "waiting", "starting", "running"}
            ~> row[j].status \in Finished

\* Transactions of two passes never wait for each other in a circle: a pass that
\* may still save is the only one that has not come to its commit.
NoRowDeadlock ==
    \A s, t \in Scheduler :
        s # t /\ dirty[s] # {} /\ dirty[t] # {} => "commit" \in {pc[s], pc[t]}

\* Nobody holds an older copy of the job, a message for it or an error callback
\* that names it.
Quiet(j) ==
    /\ \A d \in Job \X Slot :
          deliv[d].pc # "none" => d[1] # j /\ j \notin deliv[d].fail
    /\ \A s \in Scheduler : /\ obj[s][j].status \in Finished \cup {"absent"}
                            /\ \A m \in sends[s] : m.job # j /\ j \notin m.fail
    /\ api.job = j => api.seen.status \in Finished

\* A finished job comes back to life only through such a copy.
FinishedStaysFinished ==
    [][\A j \in Job : row[j].status \in Finished /\ Quiet(j)
            => row'[j].status = row[j].status]_vars

\* A job that needs preparations runs only if its client, or the host of its
\* client, is ready or after a preparation of it has come to an end: pass after
\* pass leaves it pending until then, whatever dies or remains unanswered
\* meanwhile.
IsReady(j) == IF HypervisorOf[j] = None THEN ClientOf[j] \in ready
              ELSE \E c \in Client : <<c, HypervisorOf[j]>> \in ready
Prepared(j) ==
    \/ IsReady(j)
    \/ \E k \in Job : /\ TypeOf[k] = "check" /\ ClientOf[k] = ClientOf[j]
                     /\ HypervisorOf[k] = HypervisorOf[j]
                     /\ row[k].status \in Finished
PreparedFirst ==
    \A d \in Job \X Slot :
        Runs(d) /\ HasDependencies(d[1]) => Prepared(d[1])
=============================================================================
