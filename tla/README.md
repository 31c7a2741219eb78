# Models of CyBorgBackup

TLA+ modules, TLC configurations and TLAPS proofs kept beside the source of
CyBorgBackup. They follow a backup through the whole program: a policy that is
launched, the rows of its jobs, the passes that start them one at a time, the
worker that gets the key to the borg command, the script on two hosts, the output
that becomes events and rows, the catalog and the archives that must agree with
them, the mail about it, and the requests that change the records underneath.

Paths below are relative to `src/cyborgbackup/`, or to `src/` for `docs/` and
`debian/`.

## 1. The system

| Component | Source | State it keeps | Operations | Module |
|---|---|---|---|---|
| Job table | `main/models/jobs.py` | rows: status, cancel_flag, dependent_jobs, master_job, sizes, emitted_events | `save`, `cancel`, `signal_start`, `dependent_jobs_finished`, stdout | `JobTable`, and all below |
| Task manager | `main/utils/task_manager.py` | advisory lock, one transaction per pass, objects read at its start, graph of started jobs | `schedule`: waiting tasks, pending tasks, dependencies, start | `TaskManager` |
| Job worker | `main/tasks/basetask.py`, `runjob.py`, `main/expect/run.py` | local status, private directory, the spawned command | `BaseTask.run` and its `update_model` calls, `run_pexpect`, `open_fifo_write` | `TaskManager`, `JobStartup`, `JobOutput` |
| Backup command | `main/tasks/builders/backup.py` | files, mounts and shells on two hosts | the script of worker and client | `BackupCommand` |
| Callbacks | `main/tasks/shared.py:231-279` | subtasks in the message | `handle_work_error`, `handle_work_success` | `TaskManager` |
| Requests on jobs | `api/views/jobs.py` | the object a view has read | start, cancel, relaunch | `TaskManager`, `PolicyLaunch` |
| Policy launch | `main/models/policies.py:197`, `api/views/policies.py`, `catalogs.py` | objects of the rows being created | `create_job`, `create_restore_job` | `PolicyLaunch` |
| Periodic scheduler | `main/tasks/shared.py:196`, `main/models/schedules.py` | `schedule_last_run`, `next_run` | select due policies, create and start jobs | `PolicySchedule` |
| Preparations | `main/models/clients.py`, `repositories.py`, `builders/check.py`, `scripts/cyborgbackup/` | `ready`, `mark_as_to_update`, `hypervisor_ready`, `hypervisor_name` | creation of check jobs for repositories, clients, hosts of virtual machines, the script's report | `TaskManager`, `Records` |
| Event pipeline | `main/utils/callbacks.py`, `run_callback_receiver.py`, `models/events.py` | broker queue, bounded in-process queues, retries | dispatch, route, save, EOF | `EventPipeline` |
| Output filter, stdout | `main/utils/common.py`, `main/models/jobs.py` | buffer, counters, start lines | cut output into events, read it back | `JobOutput` |
| Catalog, cleanup, sizes | `builders/catalog.py`, `prune.py`, `cleanup_jobs.py`, `compute_borg_size`, `rebuild_catalog.py` | archives, rows, MongoDB entries | fill, name, size, prune, clean up | `Housekeeping` |
| Queriers | `main/modules/queriers.py` | private directory, 120 s timeout | a command for a web request | `JobStartup` |
| Settings | `main/models/settings.py`, `encryption.py`, `api/views/settings.py` | key and passphrase, encrypted | generate, change, read | `JobStartup` |
| Generic API, users | `api/views/generics.py`, `serializers/`, `mixins.py`, `main/models/base.py`, `users.py` | rows, admin log | create, patch, put, delete | `Records` |
| Notifier, reports | `main/tasks/shared.py:117`, `reports.py`, `helpers.py` | mail tasks | mail after a job, daily report | `BackupCommand` |
| Virtual-machine providers, websocket, UI | plug-ins, `consumers.py`, `ui/` | | see section 7 | |

How they interact. The periodic scheduler, or a request, calls `create_job`, which
writes a chain of rows (backup, catalog, prune; `dependent_jobs` points from a job
to the one that waits for it). A pass of the task manager runs every 20 s by celery
beat and after every start and end of a job. It turns waiting rows into pending
ones, creates the preparations a pending job needs, saves what it starts as
`starting` and, after its commit, sends one celery message per started job with an
error callback that names the job, the other preparations and the job that needed
them. A worker sets `running`, writes the SSH key to a pipe, builds a command line,
runs it under ssh-agent, turns its output into events for the broker, polls the
cancel flag, writes the result, queues a mail and, when the result is not
`successful`, raises, so that celery runs the callback. The callback receiver saves
the events; the catalog job reads them to learn the name of the archive, and posts
entries to MongoDB. Once an hour rows whose archive is gone are deleted. Requests
read a row, test it and write it, whole or in part.

What is hard here:

* **Stale objects.** Passes, `create_job`, requests, callbacks, `compute_borg_size`
  and commands save whole objects read earlier; Django inserts a row again that was
  deleted in between.
* **A lock inside the transaction.** The advisory lock is free before the commit.
* **No transaction at all** around requests, `create_job`, the periodic scheduler.
* **Exceptions for control.** A pass that raises is rolled back as a whole and
  repeated; a task that raises before its `try` is ended only by a callback.
* **Statuses that are not counted.** `starting` is not in `ACTIVE_STATES` but is
  counted by the two queries of `is_job_blocked`.
* **No recovery.** A message that is never sent, or a worker that dies, leaves a
  row `starting` or `running`.
* **Three stores** (PostgreSQL, MongoDB, borg repositories) that agree only after a
  sequence of jobs, posts and cleanups.
* **Threads and pipes.** The key is written by a thread that waits for a reader and
  may find its directory gone.

`PROJECT.json` lists these hazards at their lines with the properties about them.

Taken for granted: at this commit the package `main/tasks/` hides the file
`main/tasks.py`, so the shared tasks register as `cyborgbackup.main.tasks.shared.*`
while `settings.py:411-463` and `policies.py:227` name
`cyborgbackup.main.tasks.*`, and the `register_task(RunJob())` of `main/tasks.py:49`
is never imported. The modules take those names to mean the functions of
`shared.py` and `runjob.py`.

## 2. Modules

| Module | Models | EXTENDS |
|---|---|---|
| `JobTable` | rows and the predicates on them: `IsJobBlocked`, `DependentJobsFinished`, latest preparations | Naturals |
| `TaskManager` | passes, workers, callbacks, requests, crashes | `JobTable` |
| `ExclusiveRuns` | abstract: runs of jobs that conflict never overlap, and no job runs again unless it may be repeated | |
| `TaskManagerRuns` | `TaskManager` as an `ExclusiveRuns` (INSTANCE ... WITH) | `TaskManager` |
| `MCTaskManager` | job tables for TLC (families MC, Pair, Chain) | `TaskManagerRuns` |
| `PolicyLaunch` | `create_job` save by save, relaunch and restore, among the passes and workers | `TaskManager` |
| `MCPolicyLaunch` | its table for TLC | `PolicyLaunch` |
| `PolicySchedule` | the periodic scheduler, its clock, edits of policies and schedules | Naturals |
| `JobStartup` | key, passphrase, directory, pipe, thread, ssh-agent and prompt, for jobs, queriers, cleanup and rebuild; the requests on the two settings | Naturals |
| `BackupCommand` | the script on worker and client, the mail after it and the daily report | Naturals |
| `EventPipeline` | dispatcher, broker, receiver and its workers | Sequences |
| `JobOutput` | the command's output, polling and termination, tally and stdout, composed with the pipeline | `EventPipeline`, Functions |
| `Housekeeping` | archives, rows and catalog entries | Naturals |
| `Records`, `MCRecords` | requests on clients, repositories, policies and users, cascades, the log, and what happens to jobs under them | FiniteSets |
| `...Proofs` | theorems (section 4) | the module, TLAPS |

How they fit. `TaskManager` treats one `RunBorg` step as the command; `JobStartup` is
what comes before that step in `BaseTask.run`, `JobOutput` what goes on during it
and after, `BackupCommand` what the command does elsewhere. `PolicySchedule` decides
when `create_job` is called, `PolicyLaunch` what it does. `Housekeeping` takes a
backup as one step that makes an archive; `Records` takes a pass as one read and one
commit. No module contains another's detail twice, except that `PolicyLaunch` is
composed with all of `TaskManager`, and `JobOutput` with all of `EventPipeline`,
because their properties are about both.

### TaskManager: state and actions

`row` is the committed table: status, cancel flag and dependent job. What never
changes in a row (type, repository, client, policy) is a constant function. A row
a pass may create is a member of `Dependency` whose status is `absent` before.
`obj[s]`, `dirty[s]` are the objects scheduler `s` holds and which of them it has
saved; `View(s)` is the table its queries see (READ COMMITTED: others' commits
and its own saves). A row in `dirty[s]` is locked: every other writer waits.
`todo`, `deps`, `left` are its loops, `sends` the messages `on_commit` will send
(and so the dependency graph of the pass: `Marked`). `deliv[<<j, n>>]` is the n-th
celery message of job `j`: its place in `BaseTask.run`, the subtasks of its error
callback and the result to be saved. `api` is the request in progress with the
object it has read.

| Action | Code |
|---|---|
| `BeginPass` | lock, `get_tasks` (task_manager.py:476-486, 99) |
| `ProcessWaiting` | one round of `process_running_tasks` (220) |
| `ProcessPending` | `get_active_tasks`, the lazy filter of pending tasks (148, 468) |
| `GenerateDependencies` | `generate_dependencies` for one task (330) |
| `ProcessDependency` | one round of `process_dependencies` (361) with `start_task` |
| `ProcessTask` | the rest of a round of `process_pending_tasks` (378-386) |
| `ReleaseLock`, `Commit`, `SendTask` | the two exits of the nested `with`s, `post_commit` (211) |
| `PickUp`, `StopCanceled`, `BuildArgs`, `RunBorg`, `SaveResult` | `BaseTask.run` cut at its `update_model` calls |
| `HandleWorkError` | one subtask of the callback (shared.py:252) |
| `ReportReady` | the script's request that sets `ready`, or name and flag of the host |
| `JobCancel`/`Cancel`, `JobStart`/`SignalStart`, `CleanOrphanJob`/`SaveOrphan` | read and write of a request or command |
| `SchedulerCrash`, `WorkerCrash`, `Redeliver` | failures, only those in `Faults` |

An exception in a pass is `Rollback`. Where a pass tests the table it uses `View(s)` at
that moment, so commits of others between two rounds are seen; what one round does with
its several queries is one step. The order `created` is the order of job numbers; times
are not modelled, so a pass may begin at any time; `client.save()` in
`should_prepare_client` is reduced to clearing the flag; `pre_start` never refuses
because its status test always holds when it is called and no password is ever needed;
the name a host reports is taken to be the one its provider gives, or
`get_latest_hypervisor_preparation` never finds a preparation; `get_active_tasks`
reports 0 active tasks always, its `map` being lazy. `_build_args_for_backup` declares
`self` and is called without it (runjob.py:47), a TypeError: `BuilderPositionals` and
`BuildOutcomeOfSource` say so. The runs let the builder also return, and `Housekeeping`
and `BackupCommand` take it that it does, so that what follows is looked at too.

### PolicyLaunch

`launch[l]` is the place of a launcher in `create_job` with the jobs it has in hand,
`mine[l]` the objects it keeps and will save whole. One action per save: `CreateBackup`,
`CreateCatalog`, `CreatePrune`, `AttachCatalog` and `AttachPrune` for `dependent_jobs`,
`ChainClient` from client to client, `RenewFirst`, and `SignalFirst` for `signal_start`;
`BeginCopy` and `CopyJob` relaunch, `CreateRestoreJob` restores, `LaunchRaises` fails.
The first job is pending from its creation: a pass may start it before its catalog job
is linked, and the renewing save writes `new` over it. A launch that raises leaves what
it has saved; when it raises before the signal, its first job stays `new` and what waits
for it waits for ever. The request's test ignores `starting` and `new`. A restore has no
repository. `AutoPrune` is the setting, `KeepsSome` the policy's `have_prune_info`. With
the setting on and nothing to keep, lines 280-285 take the first branch and do nothing
in it: no prune job is made, and the clients are not linked to each other
(`LinksClients`), so that their backups only take turns by `is_job_blocked`. The run has
one client, so the chain between clients is not exercised there; the theorems cover it,
linked or not.

### PolicySchedule

Time is counted in steps, a crontab is a set of instants. A run of the task is cut at
its queries and saves: read and save the state, recompute policies whose `next_run` is
past, query the due ones, save each and create its job. Users enable and disable a
policy or its repository (`Toggle`, a flag and nothing else), and save the schedule,
with another crontab, disabled or as it was: `Schedule.save` saves every policy first,
with the old crontab and from the objects it read, so that each is given its next
instant anew and one that is due is lost. `excused` records why an instant was lost,
where the code loses it: a save between the due time and the tick, a run at that very
instant (the interval is open at both ends), a crash, a run overtaken by another.
`tangled` records overlapping runs that read the same last run: those launch twice.

### JobStartup

Each job has a `kind`: a job of the queue, a query of the web interface, the listing
of `cleanup_jobs`, `rebuild_catalog`. Each reads key and passphrase by two queries (in
its own order), makes a directory and a pipe with a writing thread, and spawns ssh-agent
with ssh-add, rm and the command. `place` is what bears the key's name in the directory:
nothing, the pipe, or a plain file that the late thread made. Removal is three steps
(list, unlink, rmdir) so that the thread may come between; jobs do it twice, queries
and the cleanup only after a success, `rebuild_catalog` never. A query has a timeout
of 120 s; the others have none (`DEFAULT_JOB_TIMEOUT` is set nowhere), so a listing
that hangs at a prompt does so for ever, inside the `transaction.atomic` of
`cleanup_jobs`. Users generate a pair (two saves, after a test that two unforced
requests may both pass), send a key and a passphrase of their own, and save rows they
read before. `Setting.save` encrypts with the primary key, which is None on creation,
although the comment at models/settings.py:76-78 says the value is saved after.
`Raise` stands for failing queries, `build_args` and `build_env`. Each key is stored
once in a behaviour (a bound). Left out: the creation of the agent user, virtual
machines, the password prompt of mysql.

### BackupCommand

The script is a chain of `&&` on the worker (`MakeRemoteDir`, `CopyEnvironment`,
`RemoveEnvironment`, `Login`) and, inside ssh, a chain on the client (`Source`, `Mount`,
`BorgCreate`) followed by `; exitcode=$?; rm -rf; exit $exitcode` (`RemoveRemoteDir`).
All of that stands in double quotes on the line that `wrap_args_with_ssh_agent` gives to
`sh -c` on the worker, whose shell expands `$?` (0, its last command was `rm -f`) and
`$exitcode` (it has none) before ssh runs. The client is told `exitcode=0; rm -rf;
exit`, and its shell exits with the status of `rm -rf`: `said` is what the client's
steps came to, `exit` what the worker hears. A failing source, mount or borg makes a
`successful` backup without an archive or with a part of one; only a shell that exits at
once when `.` finds no file gives its own status. A failing step is `StepFails` or
`HostFails`; `Cut` ends the worker's side at any step and leaves the client's shell,
which is hung up or goes on, and may then make an archive for a job that is over. What
stays behind, and is named in the property or allowed by it: the file that
`build_safe_args` makes when it builds the arguments a second time, the worker's own
copy when a step before `rm` fails, the mount of a pull policy, which nothing unmounts
(the comments at backup.py:145-165 promise `&& fusermount -u`, `build_borg_cmd` 233-239
has none). A pipe's status is borg's: a dump cut short gives a `"stream"` archive that
nothing complains of. An exception of the command builder ends the job as `error`;
others leave it to the error callback and no mail is sent. Mail goes to one user after
the other and the first that fails ends the task. Nobody is told of canceled backups or
errors. One periodic report stands for the daily, weekly and monthly ones, which differ
in the length of the period; two queued reports count as one. Left out: the summary
mail, the layout of mails, the port that line 277 puts among borg's arguments as a
number.

### EventPipeline and JobOutput

An event is its counter. `Dispatch` takes the event to the broker, loses it after four
attempts, or brings it twice. The receiver takes a message, puts it into the bounded
queue of a worker process, the next one when that is full, acknowledges it, and may be
stopped or crash anywhere; a worker that fails to save three times ends the receiver
(its unit file has no `Restart=`). In `JobOutput` the output is a sequence of units,
some of which end a line; a read takes any number. An event carries its piece without
the last two characters (`stdout_chunk[:-2]`), which are the line end of a piece that
has one and text of one that has not: `kept` is the last unit of a piece whose text is
stored. `RunStep` is `run_pexpect`'s loop: test of the exit, read, poll, close; then the
save of the result in `update_model`, which may give up after five attempts. A poll's
verdict of one round may be overwritten by the next; a command that is sent SIGTERM may
end by itself with any status. Output written between the timeout of `expect` and the
test of the exit stays unread. The idle timeout is left out: `get_idle_timeout` returns
None.

### Housekeeping

A chain is a backup with its catalog job. `job` is the row (status, archive_name,
sized), `archives` what the repository holds, `entries` the MongoDB documents, `posts`
those still in the pipeline, `master` the copy a catalog job read and will save.
`compute_borg_size` holds copies too. A backup that fails or is canceled, with an
archive or without, leaves its catalog job in the queue, and that starts when its turn
comes (`dependent_jobs_finished` counts every end), names the row if the report is
there, and posts its entries: named and cataloged backups that failed are ordinary
states here. `CancelQueued` cancels either job before it starts. `sweep` is a listing
followed by the rows, in one transaction for the rows and none for MongoDB. `doubt`
collects the chains about which the stores may disagree, at the step that makes them: an
archive made after the listing, a listing that failed (its return code is ignored,
cleanup_jobs.py:196-202), a cascade along the launch, a stale save over the name, a
catalog job that failed or was canceled for a row that ages out, names cleared by
`rebuild_catalog`, posts that arrive after the removal. One repository (its jobs exclude
each other: `Idle`); one bound, `Extra`, for faults and manual commands; only rows
without a name age; one line of the report stands for name and sizes. `fill_catalog`
exits 0 always and tests for 200 where the API answers 201, so lost posts are silent.
`rebuild_catalog` looks for a fixed archive name (line 216), so what it would rebuild
never comes about.

### Records

`row[x]` has a state, the user who created it and, per field, the last request that set
it. A request reads (with its permission), saves, saves the password by a second
statement, or collects and deletes, then logs; each statement commits by itself. A
deletion takes along what refers to the record (`Refs`) and fails when something new
does; a save of a removed row inserts it again unless a foreign key is missing. Beside
them a pass reads jobs, and commits what it starts or rolls back; a poll of a running
job that finds no row takes it for a cancel. All who ask are superusers: others are
refused before any change, since no model grants a permission. PUT resets the fields it
does not name (`ready` among them) and keeps the password. `compute_borg_size`'s save of
a repository is the `system` request, the preparation's PATCH one by an agent.
References are constant; validation and uniqueness are left out.

## 3. Runs

Bounds are constants of the configurations. Each property of a passing run is also
known to fail when one mapped definition is changed as a plausible bug would
(`mutants` in `PROJECT.json`; the mutants stand in the modules, marked).

| Run | Instance | Properties |
|---|---|---|
| `core_safety` | MC: 12 jobs, a chain of three beside the backup of a virtual machine, new, known and moved clients, two generations of preparations; 2 workers, every answer of the inspector, crashes of scheduler and worker, failing builds and commands, cancels of running jobs; 1.1 M states | `TypeOK`, `ExclusiveExecution`, `NoOvertaking`, `RunningIsRecorded`, `PreparedFirst`, `ImplementsRuns` |
| `core_overlap` | Chain: a catalog and a prune job with preparations of an earlier day; two schedulers, cancels, failing commands; 170 k states | `NoRowDeadlock`, `BusyIsHandled`, `EveryJobFinishes` |
| `core_requests` | Pair: a preparation and a catalog job; start, cancel, command, redelivery and all crashes together; 2.0 M states | `FinishedStaysFinished` |
| `launch` | one launcher that serves any of the four requests, again and again while rows last, for one client, among passes and two workers; may raise at each save; 116 k states | `MasterFirst`, `LaunchedAlone`, `LaunchedJobsFinish` |
| `schedule` | one policy, two runners, four instants, two crontabs, one edit (of the policy, its repository, or the schedule's crontab and flag), one crash; 1.25 M states | `LaunchedOnce`, `DueIsLaunched` |
| `startup` | one starter of any kind, one generated and two supplied keys, one request; 1.5 M states | `TypeOK`, `NothingIsLeft`, `ReadPipesAreFreed`, `HangsOnlyOnMixedPair`, `StartupEnds` |
| `backup` | one backup, two users, two faults; 267 k states | `SuccessRanToTheEnd`, `EndIsMailed`, `StartedIsReported` |
| `output` | two units of output, one line end in the middle, two receiver workers with queues of one, two faults, a timeout; 880 k states | `FinishedMeansAllSaved`, `StdoutKeepsLines`, `KilledIsNotSuccessful`, `CanceledIsStopped`, `EventsSettle` |
| `housekeeping` | two chains, two faults, cancels or manual commands; 3.4 M states | `TypeOK`, `KeptArchiveKeepsItsJob`, `EntriesBelongToAJob` |
| `housekeeping_live` | one chain, three faults; 17 k states | `PrunedIsCleaned`, `SizedInTheEnd` |
| `records` | two clients, a repository, two policies, two users, two jobs in a chain, three overlapping requests; 275 k states | `TypeOK`, `LostOnlyByOverlap`, `AnsweredIsLogged`, `FailsOnlyOnRemoval`, `ConflictOnlyWithRemoved`, `BackOnlyAsCopy`, `JobsSettle` |
| `claim_lock_excludes` | Pair, two schedulers | `ExclusiveExecution`, violated (section 5) |

Why these bounds suffice for the questions.

* Conflicts need two jobs of one client or one repository, and the MC family has both
  kinds and rows for two generations of preparations, so that one that died can be
  followed by another. Locks and stale copies need two transactions and one row.
* One scheduler and one message per job in `core_safety` is no convenience: with two,
  the exclusion is false (section 5), and the run asks what holds as deployed in
  `debian/`, one process (`-c 1 -Q main_tasks`) running passes. Preparations succeed and
  are not canceled there, because a failing preparation breaks `RunningIsRecorded`
  (section 5); `core_requests` has no such restriction.
* One starter suffices in `startup`, one backup in `backup`: two share only the settings
  there and the report here, and each property speaks of one. Two faults let a failure
  fall into the handling of another.
* Overlapping requests need three: two that collide and one whose answer is lost or
  whose row goes.
* Races of the cleanup need a chain that is pruned and one that is running; cascades need
  two chains of one launch.
* Two units with the line end after the first let a read end inside a line, at a line
  end, and at the end of output, which here is never the end of a line.

`CHECK_DEADLOCK FALSE` everywhere: when every job is over and nothing is requested the
system rests, and requests that are served once, or a bound that is reached, end a
behaviour.

Fairness. Weak everywhere, of what the code drives by itself: a scheduler's next step
(beat starts a pass every 20 s and a pass has no voluntary stop), a message's next step
(a worker takes what is queued), steps of a launcher (a request does not stop between two
saves), the clock and each run of the periodic scheduler, threads, agents and the timeout
of a query, steps of worker and client in a script, mail tasks and beat, receiver and its
workers, the hourly cleanup, the size computation. A command owes an end only after
SIGTERM (`output`), or where a property is about what follows (`housekeeping_live`:
jobs come to an end; `records`: the hypothesis `CommandsEnd` of `JobsSettle`). Users,
administrators, failures, restarts and the readiness report owe nothing.

## 4. Proofs

Theorems hold for every value of the constants that satisfies the named assumptions of
the modules (`JobAssumption`, `TaskManagerAssumption`, `HousekeepingAssumption`,
`StartupAssumption`, `RecordsAssumption`, `FaultsAssumption`, `ScheduleAssumption`,
`PipelineAssumption`, `OutputAssumption`, `LaunchAssumption`); those about the task manager name further
hypotheses, `Calm`, `Chained`, `SingleChains` and `Attended`, which are part of what is
found.

`TaskManagerProofs` proves `TypeCorrect` and `NoDeadlockOfRows`, the latter for any
number of schedulers. A pass walks `todo` with `First`, which is a member only of a
non-empty set, and `GenerateDependencies` leaves `todo` alone while the next actions use
`First(todo[s])`; so the induction needs that a pass in `deps` has a task (`PassShape`).
`NoRowDeadlock` needs that only the holder of the lock is inside its loops and that an
idle pass has saved nothing, the other conjuncts of `PassShape`. That a non-empty set of
jobs has a least member is proved from the well-foundedness of < on Nat.

`FinishedIsFinal` (`FinishedStaysFinished`) has no hypothesis. A finished row moves
through a copy that somebody holds, through a message or through an error callback;
`Saved` and `Seen` say what the objects of a pass and of a request in progress may
contain when none of these is about.

`NoneIsLeftBusy` (`BusyIsHandled`) holds under `Attended`, for overlapping passes, all
requests, the command and failing builds and runs. The invariant `BusyIsHeld` names who
will change a busy row: a scheduler that has still to send its message, or a message at a
place of `BaseTask.run` whose next update sets it, or an error callback that has the job
on its list. `Attended` excludes what really leaves a row busy for ever: a crash between
commit and send or of a worker that holds the message, a redelivered message that finds
the row of another's run, and a running job that is canceled while its `build_args`
raises (section 5).

The module also proves `Exclusion` and `RecordedRuns` under `Calm`, for every job
table, every number of workers and messages, every crash of the scheduler or of a worker
and every answer of the inspector. `Calm` says under which use of the program this holds;
it is as much a result as the theorems. TLC finds two conflicting borg commands on the MC
family without:

| Hypothesis | Without it |
|---|---|
| one scheduler | the second pass of `claim_lock_excludes` starts what the first has saved and not committed |
| preparations are built and succeed | the callback of one that fails marks a job that already runs `failed`; it no longer counts as running |
| only running jobs that are not preparations are canceled | a pass saves its older copy over the cancel of a queued job, or the callback of a canceled preparation does the above |
| no job is started by hand | `signal_start` on a job that is `starting` puts it back to `pending` while its message is queued |
| `clean_orphan_jobs` is not run | it sets jobs whose command runs to `error` |
| messages are delivered once | the second copy runs after the first has ended |

Two more hypotheses are what rows of `create_job` satisfy: a job's repository is its
policy's (the queries count by `task.policy.repository`), and no row begins busy without
a message. TLC found no violation without them on the small tables.

Exclusion is not inductive: `is_job_blocked` reads rows, and the property is about
commands. `CalmInv` ties the two together. `Messages`: a job has at most one message, and
its row is `starting` or `running` as its place in `BaseTask.run` says. `Sent`: what a
pass will send is a row it has saved as `starting`. `Current`: a row the pass has saved was
startable in the table, and its other copies agree with the table. `Exclusive`: no two
conflicting rows are busy in the table the pass sees. `Uncanceled`: no preparation is
canceled. With these, a round that starts a job saw every row that holds a conflicting
command.

`Refinement`: under `Calm`, every step of `TaskManager` is a
step of `ExclusiveRuns` or a stutter, with the runs of workers for `running` and the jobs
that are finished or abandoned for `over`. What `CalmInv` does not give is that a job
that is over is not started again: a pass saves whole objects, and the row may have moved.
`FirstStart` is the missing part: a row that a pass has saved, unless it is a preparation,
has never been started. A preparation that was chosen while it ran may be started again
when it has ended; that is the abstract `Repeat`.

`DependenciesComeFirst` (`NoOvertaking`) holds under `Chained`, which is `Calm`
and two facts about the table: jobs of type check are preparations (the row of a policy
of type check would be taken for one and started in its turn), and a row depends at
first on a job that shares its repository or client, as `create_job` makes them.
`dependent_jobs_finished` tests for ACTIVE_STATES, which do not contain `starting`; that a
job whose predecessor is `starting` still does not start is due to the counts of
`is_job_blocked`, which do, so the proof needs `Calm`. `DepInv` adds that the copies a
pass decides by say what the table says a job waits for (`Copied`), and that a dependency
which may still be started in this round precedes the job it is for (`Awaited`).

`PreparationsComeFirst` (`PreparedFirst`) holds under `SingleChains`, for every crash of
scheduler and worker, cancel of running jobs and answer of the inspector that `Calm`
allows. It is not a property of every table. A preparation is made for one job, which
waits for it; another job of the same new client is given the same preparation and does not
wait. If what blocks the preparation when the pass tries it does not block that other job,
being another repository, or has ended meanwhile, the job starts unprepared
(section 5). The hypotheses say where this cannot be:

* `OneChain`: of the jobs of a client that are to come, one is the head, the others wait
  for each other, and only the head is pending or under way; a preparation that is to come
  is awaited by a pending job. That is how `create_job` and a pass leave the rows of a
  client that is in one policy, launched when its last launch is over.
* The preparation of a client has the policy of its job, as `create_prepare_client` copies
  it, so it is blocked by what blocks the job. `OneHost`: a virtual machine stays on its
  host, since the report of one host replaces that of the other.

The tables of `core_safety` satisfy them. `PrepInv` keeps the chains in the table and in
what the pass sees (`ChainsKept`): a job that ends hands its place on, a round that starts
a job or creates a preparation does so for the head. `LeftAwaited` and `Provided` speak of
the round in progress: what is left to start is awaited, and the job of the round has its
preparation if it needs one. `BusyPrepared` follows. The job of an unfinished preparation
waits for it while it is pending or runs. `dependent_jobs_finished` lets one that is
`starting` pass, and there the count of the client in `is_job_blocked` holds the job up.

`PolicyLaunchProofs` carries both results over to rows that are being made: launchers
that save whole objects beside a pass that does. `AloneWhenLaunched` (`LaunchedAlone`)
holds under `Calm`, `MastersComeFirst` (`MasterFirst`) under `Chained`, for any number of
clients, launchers, workers and rows, in every behaviour that is not `raced`: no pass and
no other launch between the saves of a launch, no launch that fails half way. That is
the property's own proviso, and the hypotheses are on the use of the program, so the
tables of the `launch` run satisfy them. While a launcher writes, only workers and users
step beside it, and the question is what they may have done to a row that is about to be
saved as it was.

* `Stages`: the place in `create_job` says which jobs a launcher has in hand, of which
  type, and that they are still in the queue in its memory.
* `InHand`: such a row is in the table with the status and the dependency it was last
  saved with: no worker has it, since no pass came by. So a save overwrites nothing that
  has begun, and the invariant of `Exclusion` (`CalmLaunch` contains `CalmInv`) survives it.
* `Ordered`: a row that has a master waits for it, or the master is over, or a launcher is
  about to link them (`Building`). The last is the gap in policies.py:254-257
  between the save of the catalog job, with its `master_job`, and that of `dependent_jobs`.
* `Loose`: which of the jobs in hand nothing waits for yet. Only those are given a
  dependency, so a link takes no order away; the master of a job that is launched again is
  over, because the test for conflicting jobs passed before.

`HousekeepingProofs` proves types, `KeptJobs` and `OwnedEntries`. The property is about
rows and archives; what breaks it is a copy. The invariant says what copies, listings and
posts in flight may contain: `Copies` (no command holds a removed row as a row), `Named`
(a backup whose catalog job saved its name has one, unless a stale copy was saved since),
`OldHaveRun` (only chains that have run age), and `Swept` (a listing that is being
compared has every kept archive, and what a sweep is about to remove has none, or is
doubted, and its entries go first).

`JobStartupProofs` proves types and the three invariants of `startup`. `CleanedUp` needs
where each kind is on its way (`PathInv`), what the thread and the pipe are then
(`PipeInv`) and what the directory still holds (`DirInv`): the second removal is needed
just because the thread may come after the first listing, and it comes at most once.
`PromptIsAnswered` needs that a stored value is encrypted once (`StoreInv`), that requests
that do not overlap leave a pair that fits (`SerialInv`), and that a job which read while
nothing was going on has such a pair (`ReadInv`).

`RecordsProofs` proves types, all the invariants and the action property of `records`.
`RefInv` (no foreign key dangles) holds because a deletion takes
every reference along and a save without its reference fails; `DependsOnInv` and
`AuthorInv` say what a request in progress may rely on unless it was removed, which is
what its failure is blamed on; `CommandInv` and `HolderInv` tie rows to commands, as in
`TaskManagerProofs`, but for removed rows. `LostChanges` needs `ChangeInv`: from the
moment a change is stored, before its answer, the row holds it or a request that
overlapped it has overwritten it. Its assumption that only users have a password is what
the models say; without it the second save of a password could write to any record.

`BackupCommandProofs` proves types and `SuccessfulRuns` (`SuccessRanToTheEnd`). The
invariant follows the status up: what has been removed when the client's shell exits with
0, and what the archive holds when none of its steps failed (`HostInv`), that only ssh
brings that status to the worker (`WorkerInv`), and that only it makes a row successful
(`RowInv`). That is all a success means: since the status is that of `rm -rf`, that the
archive is complete is a consequence of `said`, which no row and no mail tells.

`PolicyScheduleProofs` proves types (a run launches only at instants of its own
interval, `Within`) and `NoSecondLaunch`, for any number of runs. While runs have not
read the same `last_run` nor saved their ends out of order (`tangled`), a run that has
saved its beginning is not ahead of what is saved (`Saved`), at most one is between
reading and saving and the intervals of two runs are apart (`Apart`), and what has been
launched lies behind `last_run` and is on no run's list again (`Past`). The runs may
still overlap each other's launches, and edits may move a policy's next instant back.

`JobOutputProofs` proves `KilledJobs` and `AllEventsSaved`, for any output, queue bound,
number of receiver workers, attempts and faults. The first carries the reason from the
flag to the verdict to the result to the row (`Reasoned`). The second: broker, queues,
hands and table hold no event beyond those dispatched (`Carried`), and the tally of a job
that is over is the number of its events (`Tallied`). Equal counts then leave no
event out, since the rows without duplicates are a subset of the events. The tally alone
does not say so: the two exceptions in section 5 are hypotheses of the property.

`LinesAreKept` (`StdoutKeepsLines`) is the text itself: where no read but the last ended
inside a line, any order of the rows by `start_line` gives the lines that were read, one
after the other, and of a last line that has not ended all but the two characters that are
cut. Reads that end inside a line earlier are outside the hypothesis, and there the text is
not kept (section 5). `Pieced` is what the filter keeps: the events cut the output
read so far into pieces, each beginning where the one before it ended, with the number of
line ends before it as its start. Where every piece ends a line, these numbers grow strictly
(`LinesApart`), so an enumeration of the events in their order is the one of their numbers
(`OwnPlaces`). No induction over the list is needed, because the pieces of one read are
numbered by counting the line ends in it: that each number up to the count is reached, and
in order, is `Ranked`, from the library's theorems on cardinality.

Every invariant and action property of the runs is stated by one of these theorems.
Only model-checked: all liveness, and ENABLED, which are out of the prover's reach.

## 5. Where the code and its documents disagree

With a run: `claim_lock_excludes`. docs/user/quickstart.rst:20-21 says that the task
manager launches a job "not blocked by another job", and task_manager.py:481 logs "Not
running scheduler, another task holds lock"; but the lock is free before the pass has
committed, and a second pass starts the same job. `run_job_launch` and
`run_job_complete` run on other workers than `run_task_manager`.

Met while modelling, without a run of their own:

* A repository that was never prepared: its preparation has no client, `is_job_blocked`
  reads `task.client.pk` at task_manager.py:86 before line 94 tests for it, and every pass
  is rolled back from then on; quickstart.rst:20-21 says the job is launched.
* `get_latest_hypervisor_preparation` (task_manager.py:320) looks for the name that the
  preparation itself reports at its end: every pass until then creates another one, which
  the backup waits for too; a provider that names the host otherwise than `hostname` does
  so for ever.
* job_cancel.md:10-12 says "The response status code will be 202 if successful";
  `start_task` (task_manager.py:209) saves the object read at the start of the pass over
  a cancel that was answered 202.
* quickstart.rst:52-53 says that jobs "are created in dependencies of them like catalog
  job, prepare job and prune job". The second backup of a new client that is in two
  policies is given the preparation made for the first (task_manager.py:356-357), but only
  the first has it among its `dependent_jobs`. While another client's backup keeps the
  first policy's repository, the preparation is blocked (line 363); the second backup, to
  another repository, is not, and runs on a client without borg. TLC finds this in one pass.
* task_manager.py:406-407 and 420 say that running jobs not in the queue are failed; the
  list of nodes is always empty (112-121) and the other call is commented out (443).
* mixins.py:48 says "Log data from the instance before it gets deleted"; lines 77-80 log
  after the deletion, and deleting one's own user answers 500 after it was done.
* jobs.py:516: a job is said to have its events when the tally is reached; a final
  `update_model` that gives up leaves a tally of 0 while events are still unsaved, and one
  event lost and another saved twice make up for each other.
* jobs.py:527-530: stdout by `start_line`; reads that end inside a line tie there, and
  lose two characters (`stdout_chunk[:-2]`, common.py:622). So does the last line when the
  output does not end with a line end.
* jobs.py:109-110 says "Job completed successfully" and "Job completed, but with failures";
  a backup whose source, mount or `borg create` fails on the client is `successful`, for
  the worker's shell expands `$?` and `$exitcode` (backup.py:279-281, run.py:23-51). TLC
  finds it at once when `SuccessRanToTheEnd` asks for the archive without `said`.
* run_callback_receiver.py:171-173: EOF comes last; another worker may handle it first.
* `BaseTask.run` raises "to stop a task chain" (basetask.py:325), but
  `dependent_jobs_finished` counts failed jobs as finished: the chain goes on
  (`Housekeeping`, `TaskManager`).
* The error callback marks a job `failed` while it runs when a preparation it was chosen
  with fails after the job has started (shared.py:267); the job is then not counted by
  `is_job_blocked`.
* A crash between commit and `on_commit` leaves `starting` for ever; such a job cannot be
  canceled (`CAN_CANCEL`) but can be started by a user.
* shared.py:267: `handle_work_error` passes over a job with the cancel flag. A running
  job that is canceled, and whose `build_args` then raises (basetask.py:257), is set
  `canceled` by nobody and stays `running`; its repository and client count as busy.
* `clean_orphan_jobs` sets every running job to `error`, orphan or not.
* Deleting a client deletes, along `dependent_jobs`, the jobs of clients that come earlier
  in the launch; a running backup of another client is stopped by its next poll.
* `cleanup_jobs` returns None while a job runs, a TypeError at line 248; prune writes
  `--keep-monthly` for `keep_yearly` (builders/prune.py:20-21); `rebuild_catalog_mongo` and
  job deletion (`obj.job_node`) raise; RestoreLaunch with an unknown archive calls
  `None.delete()`.

## 6. Bounds by name

| Constant | Bounds |
|---|---|
| `Slot`, `Workers`, `MaxConcurrency` | coexisting messages of a job, the pool, the worker's capacity (a setting) |
| `Job`, `Dependency` | rows a behaviour may have and preparations it may create |
| `CancelFrom`, `StartFrom`, `Commands`, `Faults` | which jobs users touch in which status, what else may happen |
| `MaxTime`, `MaxEdits`, `MaxFaults` | clock, edits and failures of `schedule` |
| `Units`, `Capacity`, `MaxRetries`, `MaxFaults` | output, queue bound (10000 in the code), attempts to save, failures of `output` |
| `MaxExtra` | faults and manual commands of `housekeeping` |
| `MaxFaults` | failing steps, cut connections, failing mails of `backup` |
| `Request` | requests and system tasks, each served once, of `records` and `startup` |

## 7. Not modelled

* **Providers of virtual machines.** Plug-ins outside the repository: the hosts they name
  and the backup script they supply.
* **Restores and preparations by age.** `cleanup_jobs` also removes rows of other types by
  age; nothing reads them afterwards.
* **Presentation.** Filters (pure parsing), metadata, renderers, validation, listings,
  websocket messages (no consumer joins a group, `consumers.receive` does nothing), the
  UI, the layout of mails and the summary mail: they change no state. The summary lists
  disabled clients too.
* **Code that nothing runs.** `signals.py`, `rbac.py` (names a class that does not exist),
  most of `main/auth_token.py`, the older serializers in `serializers/base.py`,
  `Job.create_job`, `_update_parent_instance`, `launch_prompts`,
  `create_config_from_prompts`, `_force_cancel`, the isolated runs of `expect/run.py`
  193-270, `get_running_tasks` and `fail_jobs_if_not_in_celery` (no effect),
  rebuild_catalog.py:208-251.
* **One-off scripts.** Migrations and `migrate_from_es_to_mongo` run on a stopped system.
* **Configuration.** Settings other than the key and its passphrase are values read once.
* **Cryptography and borg.** `encrypt_field` is an injective wrapping; a borg command makes
  its archive, fails, or does both.

What could be added: a run with two clients in one launch (the chain between them, which
the theorems cover and the run does not), the unnamed
rows that `cleanup_jobs` removes by age for restores, and the weekly report beside the
daily one.
