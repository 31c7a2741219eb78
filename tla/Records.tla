------------------------------ MODULE Records ------------------------------
(***************************************************************************)
(* Requests on clients, repositories, policies and users (api/views,       *)
(* api/serializers, api/mixins.py), and what they do to the jobs that      *)
(* refer to those records: whole rows are read by one statement and saved  *)
(* by another, and a deletion takes every row along that refers to it.     *)
(*                                                                         *)
(* No request runs in a transaction (ATOMIC_REQUESTS is not set): each of  *)
(* its statements commits by itself.  Saving an object that was read       *)
(* updates its row or, when the row is gone, inserts it again.             *)
(***************************************************************************)
EXTENDS Naturals, FiniteSets

CONSTANTS
    None,      \* no user, no request, no row
    Record,    \* clients, repositories and policies
    User,      \* users
    Superuser, \* those that may change records
    Job,       \* jobs of the policies' last launches
    Refs,      \* the rows a row refers to by a foreign key that cascades
    Exclusive, \* the clients and repositories: one job at a time
    Authors,   \* who created the records and jobs a behaviour begins with
    Request,   \* requests and system tasks, each served once
    Asks       \* what each of them may ask for

Row == Record \cup User \cup Job
Field == {"name", "option", "password"}
Ask == [op : {"create", "patch", "put", "delete", "system"},
        on : Record \cup User, field : Field, by : User \cup {None}]

ASSUME RecordsAssumption ==
    /\ None \notin Row \cup Request
    /\ Record \cap User = {} /\ Record \cap Job = {} /\ User \cap Job = {}
    /\ Superuser \subseteq User
    /\ Refs \in [Row -> SUBSET (Record \cup Job)]
    /\ \A u \in User : Refs[u] = {}
    /\ Exclusive \subseteq Record
    /\ Authors \subseteq User \cup {None}
    /\ Asks \in [Request -> SUBSET Ask]
    /\ \A q \in Request : \A a \in Asks[q] : a.field = "password" => a.on \in User

VARIABLES
    row,     \* the committed rows
    req,     \* the requests
    log,     \* the requests that have an entry in the admin log
    held,    \* Job objects a pass of the task manager has read
    cmd,     \* the celery message or the command of each job
    removed  \* history: the rows that were ever removed

vars == <<row, req, log, held, cmd, removed>>

RowState == {"new", "there", "waiting", "starting", "running", "ended", "gone"}
RowValue == [state : RowState, by : User \cup {None},
             val : [Field -> Request \cup {None}]]
NoValue == [state |-> "new", by |-> None, val |-> [f \in Field |-> None]]
RequestPc == {"idle", "read", "collected", "saved", "stored", "ok", "failed"}
Serving == [pc : RequestPc,
            ask : Ask \cup {None}, copy : RowValue,
            doomed : SUBSET Row]

There(x) == row[x].state \notin {"new", "gone"}

TypeOK ==
    /\ row \in [Row -> RowValue]
    /\ req \in [Request -> Serving]
    /\ log \subseteq Request
    /\ held \in [Job -> RowValue]
    /\ cmd \in [Job -> {"none", "queued", "begun", "running"}]
    /\ removed \subseteq Row

\* Users and jobs are there; records too, but for those still to be created.
\* Each row was created by some user or by the system.
Creatable ==
    {a.on : a \in {b \in UNION {Asks[q] : q \in Request} : b.op = "create"}}
First(x, author) ==
    [NoValue EXCEPT !.state = IF x \in Job THEN "waiting" ELSE "there",
                    !.by = IF x \in User THEN None ELSE author]
Init ==
    /\ \E new \in SUBSET Creatable, author \in Authors :
          /\ author \notin new /\ \A x \in new, y \in Row : x \notin Refs[y]
          /\ row = [x \in Row |-> IF x \in new THEN NoValue ELSE First(x, author)]
    /\ req = [q \in Request |-> [pc |-> "idle", ask |-> None, copy |-> NoValue,
                                 doomed |-> {}]]
    /\ log = {}
    /\ held = [j \in Job |-> NoValue]
    /\ cmd = [j \in Job |-> "none"]
    /\ removed = {}

-----------------------------------------------------------------------------
(***************************************************************************)
(* The database.                                                           *)
(***************************************************************************)

\* Variant: the references are not checked.
AcceptedAnyway(x, value, editor) == value.by = None \/ There(value.by)
\* Variant: the copy must be what the row still is.
AcceptedUnchanged(x, value, editor) ==
    (\A y \in Refs[x] : There(y)) /\ row[x].val = value.val

\* The foreign keys of a row that is saved: what it refers to, who created it
\* and who modifies it must be there when the statement commits.
Known(u) == u = None \/ There(u)
Accepted(x, value, editor) ==
    /\ \A y \in Refs[x] : There(y)
    /\ Known(value.by)
    /\ x \notin User => Known(editor)

\* The rows that refer to S, and so on: what Django's collector finds.
Referring(S) == S \cup {x \in Row : There(x) /\ Refs[x] \cap S # {}}
Collected(x) ==
    LET reach[n \in Nat] == IF n = 0 THEN {x} ELSE Referring(reach[n - 1])
    IN  Row \cap reach[Cardinality(Row)]

\* A deletion is refused when a row it has not collected refers to one it
\* removes.
Refused(doomed) ==
    \E x \in Row \ doomed : There(x) /\ Refs[x] \cap doomed # {}

-----------------------------------------------------------------------------
(***************************************************************************)
(* A request: read, save, log.                                             *)
(***************************************************************************)

\* compute_borg_size saves the repositories whose sizes it has read.
IsTask(a) == a.op = "system"
\* ModelAccessPermission: superusers always, others never; a task asks nobody.
Allowed(a) ==
    IF IsTask(a) THEN a.by = None ELSE a.by \in Superuser /\ There(a.by)

\* The object in memory: new, or with everything the row has.
Object(a) ==
    IF a.op = "create"
    THEN [NoValue EXCEPT !.state = "there", !.by = IF a.on \in User THEN None ELSE a.by]
    ELSE row[a.on]
Began(a) ==
    [pc |-> IF a.op = "delete" THEN "collected" ELSE "read", ask |-> a,
     copy |-> Object(a), doomed |-> IF a.op = "delete" THEN Collected(a.on) ELSE {}]

\* get_object, or the validation of what a new record refers to; and for a
\* deletion the collector's queries.
Read(q) ==
    /\ req[q].pc = "idle"
    /\ \E a \in Asks[q] :
          /\ Allowed(a)
          /\ IF a.op = "create"
             THEN row[a.on].state = "new" /\ \A y \in Refs[a.on] : There(y)
             ELSE There(a.on)
          /\ req' = [req EXCEPT ![q] = Began(a)]
    /\ UNCHANGED <<row, log, held, cmd, removed>>

\* Variant: PATCH gives an omitted field its default too.
WrittenWithDefaults(q) ==
    LET a == req[q].ask
    IN  [req[q].copy EXCEPT !.val =
           [f \in Field |-> IF f = a.field THEN q
                            ELSE IF f = "option" THEN None ELSE req[q].copy.val[f]]]

\* What the serializer makes of the copy.  PUT gives an omitted field its
\* default; the password is saved by a statement of its own.
Written(q) ==
    LET a == req[q].ask
        named == IF a.op = "system" \/ a.field = "password" THEN {} ELSE {a.field}
        reset == IF a.op = "put" THEN {"option"} \ named ELSE {}
    IN  [req[q].copy EXCEPT !.val =
           [f \in Field |-> IF f \in named THEN q
                            ELSE IF f \in reset THEN None ELSE req[q].copy.val[f]]]

\* Variant: changes of users are not logged.
FollowingQuietly(a) ==
    IF a.op = "system" \/ a.on \in User THEN "ok" ELSE "stored"

\* What follows the whole-row save: the password, the log, or nothing.
Following(a) ==
    IF a.op = "system" THEN "ok"
    ELSE IF a.on \in User /\ a.field = "password" THEN "saved" ELSE "stored"

Save(q) ==
    /\ req[q].pc = "read"
    /\ IF Accepted(req[q].ask.on, req[q].copy, req[q].ask.by)
       THEN /\ row' = [row EXCEPT ![req[q].ask.on] = Written(q)]
            /\ req' = [req EXCEPT ![q].pc = Following(req[q].ask)]
       ELSE row' = row /\ req' = [req EXCEPT ![q].pc = "failed"]
    /\ UNCHANGED <<log, held, cmd, removed>>

\* _update_password: save(update_fields) raises when there is no row.
SavePassword(q) ==
    /\ req[q].pc = "saved"
    /\ IF There(req[q].ask.on)
       THEN /\ row' = [row EXCEPT ![req[q].ask.on].val["password"] = q]
            /\ req' = [req EXCEPT ![q].pc = "stored"]
       ELSE row' = row /\ req' = [req EXCEPT ![q].pc = "failed"]
    /\ UNCHANGED <<log, held, cmd, removed>>

\* Variant: the row is marked and stays.
Marked(S) ==
    [x \in Row |-> IF x \in S THEN [row[x] EXCEPT !.state = "deleted"] ELSE row[x]]

\* The rows S are removed: users as authors are set to NULL, their log entries
\* go with them.
Without(S) ==
    [x \in Row |->
        IF x \in S /\ There(x) THEN [NoValue EXCEPT !.state = "gone"]
        ELSE IF row[x].by \in S THEN [row[x] EXCEPT !.by = None] ELSE row[x]]

\* The collector's transaction.
Delete(q) ==
    /\ req[q].pc = "collected"
    /\ IF Refused(req[q].doomed)
       THEN /\ req' = [req EXCEPT ![q].pc = "failed"]
            /\ UNCHANGED <<row, log, removed>>
       ELSE /\ row' = Without(req[q].doomed)
            /\ log' = {p \in log : req[p].ask.by \notin req[q].doomed}
            /\ removed' = removed \cup {x \in req[q].doomed : There(x)}
            /\ req' = [req EXCEPT ![q].pc = "stored"]
    /\ UNCHANGED <<held, cmd>>

\* LogEntry refers to the user who asked.
Log(q) ==
    /\ req[q].pc = "stored"
    /\ IF There(req[q].ask.by)
       THEN log' = log \cup {q} /\ req' = [req EXCEPT ![q].pc = "ok"]
       ELSE log' = log /\ req' = [req EXCEPT ![q].pc = "failed"]
    /\ UNCHANGED <<row, held, cmd, removed>>

-----------------------------------------------------------------------------
(***************************************************************************)
(* The jobs meanwhile: a pass of the task manager reads them and saves     *)
(* whole rows later; a worker reads the row before the command starts and  *)
(* at every poll.                                                          *)
(***************************************************************************)

Conflict(j, k) == j # k /\ Refs[j] \cap Refs[k] \cap Exclusive # {}

\* Variant: a job that is starting is overlooked.
BlockedByRunning(j) ==
    \E k \in Job : (Conflict(j, k) \/ j \in Refs[k]) /\ row[k].state = "running"
\* Variant: a job waits until those before it have ended.
BlockedUntilEnded(j) ==
    \E k \in Job : \/ Conflict(j, k) /\ row[k].state \in {"starting", "running"}
                   \/ j \in Refs[k] /\ row[k].state # "ended"

\* is_job_blocked, by the rows: another job of the client or repository is on
\* its way, or a job that this one waits for is not finished.
Blocked(j) ==
    \E k \in Job : \/ Conflict(j, k) /\ row[k].state \in {"starting", "running"}
                   \/ j \in Refs[k] /\ row[k].state \in {"waiting", "running"}

Holding == {j \in Job : held[j].state = "waiting"}

PassReads ==
    /\ Holding = {}
    /\ \E j \in Job : row[j].state = "waiting"
    /\ held' = [j \in Job |-> IF row[j].state = "waiting" THEN row[j] ELSE NoValue]
    /\ UNCHANGED <<row, req, log, cmd, removed>>

\* Everything that is not blocked is started, job after job.
Startable(S) ==
    /\ \A j \in S : ~Blocked(j) /\ \A k \in S : ~Conflict(j, k)
    /\ \A j \in Holding \ S : Blocked(j) \/ \E k \in S : Conflict(j, k)

\* start_task saves the objects, and all of them commit or none.
PassCommits ==
    /\ Holding # {}
    /\ held' = [j \in Job |-> NoValue]
    /\ \E S \in SUBSET Holding :
          /\ Startable(S)
          /\ IF \A j \in S : Accepted(j, held[j], None)
             THEN /\ row' = [x \in Row |-> IF x \in S
                                THEN [held[x] EXCEPT !.state = "starting"] ELSE row[x]]
                  /\ cmd' = [j \in Job |-> IF j \in S THEN "queued" ELSE cmd[j]]
             ELSE UNCHANGED <<row, cmd>>
    /\ UNCHANGED <<req, log, removed>>

\* update_model raises when the row is gone, and ends the task.
Begin(j) ==
    /\ cmd[j] = "queued"
    /\ IF There(j)
       THEN /\ row' = [row EXCEPT ![j].state = "running"]
            /\ cmd' = [cmd EXCEPT ![j] = "begun"]
       ELSE row' = row /\ cmd' = [cmd EXCEPT ![j] = "none"]
    /\ UNCHANGED <<req, log, held, removed>>

Spawn(j) ==
    /\ cmd[j] = "begun"
    /\ cmd' = [cmd EXCEPT ![j] = IF There(j) THEN "running" ELSE "none"]
    /\ UNCHANGED <<row, req, log, held, removed>>

\* The callback of the poll raises when the row is gone: run_pexpect takes it
\* for a cancel and terminates the command.
Poll(j) ==
    /\ cmd[j] = "running"
    /\ ~There(j)
    /\ cmd' = [cmd EXCEPT ![j] = "none"]
    /\ UNCHANGED <<row, req, log, held, removed>>

\* The command ends by itself.
Finish(j) ==
    /\ cmd[j] = "running"
    /\ cmd' = [cmd EXCEPT ![j] = "none"]
    /\ row' = IF There(j) THEN [row EXCEPT ![j].state = "ended"] ELSE row
    /\ UNCHANGED <<req, log, held, removed>>

Next ==
    \/ \E q \in Request :
          Read(q) \/ Save(q) \/ SavePassword(q) \/ Delete(q) \/ Log(q)
    \/ PassReads \/ PassCommits
    \/ \E j \in Job : Begin(j) \/ Spawn(j) \/ Poll(j) \/ Finish(j)

Spec == Init /\ [][Next]_vars

\* Passes come again and again, celery delivers, a running command is polled.
\* Users owe nothing, and a command may run for ever.
Fairness ==
    /\ WF_vars(PassReads) /\ WF_vars(PassCommits)
    /\ \A j \in Job : WF_vars(Begin(j)) /\ WF_vars(Spawn(j)) /\ WF_vars(Poll(j))
FairSpec == Spec /\ Fairness

-----------------------------------------------------------------------------
(***************************************************************************)
(* Properties.                                                             *)
(***************************************************************************)

Named(q) == req[q].ask.field
Updating(q) == req[q].pc # "idle" /\ req[q].ask.op \in {"create", "patch", "put", "system"}
Done(q) == req[q].pc \in {"saved", "stored", "ok", "failed"}

\* A whole-row save loses an answered change only when it overlaps it: the field
\* a request named has its value until the row is removed, another request names
\* the field or puts the record, or one saves a copy read before the change.
LostOnlyByOverlap ==
    \A q \in Request :
        /\ Updating(q) /\ req[q].pc = "ok" /\ req[q].ask.op # "system"
        /\ req[q].ask.on \notin removed
        => \/ row[req[q].ask.on].val[Named(q)] = q
           \/ \E p \in Request \ {q} :
                 /\ Updating(p) /\ Done(p) /\ req[p].ask.on = req[q].ask.on
                 /\ \/ req[p].ask.op # "system" /\ Named(p) = Named(q)
                    \/ req[p].ask.op = "put" /\ Named(q) = "option"
                    \/ req[p].copy.val[Named(q)] # q

\* What was answered can be found in the log, as long as its author is known.
AnsweredIsLogged ==
    \A q \in Request :
        req[q].pc = "ok" /\ req[q].ask.op # "system"
        => q \in log \/ req[q].ask.by \in removed

\* A request on a record that exists fails only because a row it depends on was
\* removed since it began, or, for a deletion, because one came to depend on its
\* record: not because others change the same record.
FailsOnlyOnRemoval ==
    \A q \in Request : req[q].pc = "failed" =>
        \/ ({req[q].ask.by, req[q].copy.by, req[q].ask.on} \cup Refs[req[q].ask.on])
               \cap removed # {}
        \/ \E x \in Row \ req[q].doomed : Refs[x] \cap req[q].doomed # {}

\* Two commands use one repository or client only when the row of one of them was
\* removed while it ran, which hides it from the scheduler.
ConflictOnlyWithRemoved ==
    \A j, k \in Job :
        Conflict(j, k) /\ cmd[j] = "running" /\ cmd[k] = "running"
        => j \in removed \/ k \in removed

\* A row that was removed is back only as the copy that a request, a system task
\* or a pass had read before, and with everything it refers to; a job only if it
\* was never started.
BackOnlyAsCopy ==
    [][\A x \in Row : x \in removed /\ There(x)' /\ ~There(x) =>
          /\ \/ \E q \in Request : /\ req[q].pc = "read" /\ req'[q].pc # "read"
                                   /\ req[q].ask.on = x
             \/ x \in Job /\ held[x].state = "waiting" /\ cmd[x] = "none"
          /\ \A y \in Refs[x] : There(y)']_vars

\* When commands end, every job is done or removed in the end: no removal leaves
\* the passes failing, or a job started and never run.
CommandsEnd == \A j \in Job : <>[](cmd[j] # "running")
JobsSettle ==
    CommandsEnd => \A j \in Job : <>[](row[j].state \in {"ended", "gone"})
=============================================================================
