---------------------------- MODULE PolicyLaunch ----------------------------
(***************************************************************************)
(* How the jobs that TaskManager schedules come into the table: a policy   *)
(* launched by a user (api/views/policies.py) or by its schedule           *)
(* (main/tasks/shared.py), a job launched again (api/views/jobs.py) and a  *)
(* restore (api/views/catalogs.py).  There is no transaction around any of *)
(* them: every save commits by itself, the objects saved are those kept in *)
(* memory, and a pass may come between two saves.                          *)
(***************************************************************************)
EXTENDS TaskManager

CONSTANTS
    Launcher,       \* processes that serve a request or run the schedule
    Requests,       \* what they do: "policy", "schedule", "relaunch", "restore"
    PolicyClients,  \* the clients of the policy
    EnabledSets,    \* those that may be enabled when its jobs are created
    LaunchRepo,     \* its repository
    CatalogEnabled, \* setting cyborgbackup_catalog_enabled
    AutoPrune,      \* setting cyborgbackup_auto_prune
    KeepsSome,      \* have_prune_info: the policy says what a prune keeps
    MayRaise        \* whether create_job may fail half way

ASSUME LaunchAssumption ==
    /\ Requests \subseteq {"policy", "schedule", "relaunch", "restore"}
    /\ EnabledSets \subseteq SUBSET PolicyClients /\ PolicyClients \subseteq Client
    /\ LaunchRepo \in Repo
    /\ {CatalogEnabled, AutoPrune, KeepsSome, MayRaise} \subseteq BOOLEAN

VARIABLES
    launch, \* where each launcher is, and the jobs it has in hand
    mine,   \* the Job objects it keeps in memory
    master, \* master_job
    raced,  \* history: a launch met a pass or another launch, or failed half way
    failed  \* history: the first jobs of launches that failed
launching == <<launch, mine, master, raced, failed>>
launchVars == <<vars, launching>>

LaunchPc == {"idle", "check", "next", "catalog", "attachCatalog", "prune",
             "attachPrune", "chain", "renew", "copy", "signal"}
Launch == [pc : LaunchPc, todo : SUBSET Client, copied : Job \cup {None},
           backup : Job \cup {None}, catalog : Job \cup {None},
           prune : Job \cup {None}, previous : Job \cup {None},
           first : Job \cup {None}]
NoLaunch == [pc |-> "idle", todo |-> {}, copied |-> None, backup |-> None,
             catalog |-> None, prune |-> None, previous |-> None, first |-> None]

LaunchInit ==
    /\ Init
    /\ launch = [l \in Launcher |-> NoLaunch]
    /\ mine = [l \in Launcher |-> [j \in Job |-> NoRow]]
    /\ master = [j \in Job |-> None]
    /\ raced = FALSE
    /\ failed = {}

LaunchTypeOK ==
    /\ TypeOK
    /\ launch \in [Launcher -> Launch]
    /\ mine \in [Launcher -> [Job -> Row]]
    /\ master \in [Job -> Job \cup {None}]
    /\ raced \in BOOLEAN
    /\ failed \subseteq Job

-----------------------------------------------------------------------------
(* Rows.                                                                   *)

\* A row is dated after every row that is there, except preparations.  The row
\* numbers are a bound: without one left nothing more is launched.
Fresh(type, client, repo) ==
    {j \in Job \ Dependency :
        /\ TypeOf[j] = type /\ ClientOf[j] = client /\ RepoOf[j] = repo
        /\ \A k \in Job \ Dependency : row[k].status # "absent" => k < j}

LaunchAt(l) == launch[l].pc
NewRow(s) == [status |-> s, cancel |-> FALSE, dep |-> None]

\* job.save() of an object in memory: all of its fields.
SaveMine(l, j, r) ==
    /\ ~Locked(j)
    /\ mine' = [mine EXCEPT ![l][j] = r]
    /\ row' = [row EXCEPT ![j] = r]
Unlaunched == <<ready, toUpdate, pass, deliv, api>>

Active(s) == s \in {"waiting", "pending", "running"}
Conflicting(c, repos) ==
    \E k \in Job : ClientOf[k] = c /\ RepoOf[k] \in repos /\ Active(row[k].status)

-----------------------------------------------------------------------------
(* A policy.                                                               *)

\* PolicyLaunch.post, or a policy that is due.
BeginLaunch(l) ==
    /\ LaunchAt(l) = "idle"
    /\ \A c \in PolicyClients : Fresh("job", c, LaunchRepo) # {}
    /\ \/ /\ "policy" \in Requests
          /\ launch' = [launch EXCEPT ![l] = [NoLaunch EXCEPT !.pc = "check",
                                                !.todo = PolicyClients]]
       \/ /\ "schedule" \in Requests
          /\ \E enabled \in EnabledSets :
                launch' = [launch EXCEPT ![l] = [NoLaunch EXCEPT !.pc = "next",
                                                   !.todo = enabled]]
    /\ UNCHANGED <<row, mine, master, Unlaunched>>

\* One client after the other: 400 when a job of it is under way.
CheckClient(l) ==
    /\ LaunchAt(l) = "check"
    /\ \/ /\ launch[l].todo = {}
          /\ \E enabled \in EnabledSets :
                launch' = [launch EXCEPT ![l].pc = "next", ![l].todo = enabled]
       \/ \E c \in launch[l].todo :
             launch' = IF Conflicting(c, {LaunchRepo})
                       THEN [launch EXCEPT ![l] = NoLaunch]
                       ELSE [launch EXCEPT ![l].todo = @ \ {c}]
    /\ UNCHANGED <<row, mine, master, Unlaunched>>

Prunes == AutoPrune /\ KeepsSome

AfterBackup == IF CatalogEnabled THEN "catalog"
               ELSE IF Prunes THEN "prune" ELSE "chain"

CreateBackup(l) ==
    /\ LaunchAt(l) = "next"
    /\ \E c \in launch[l].todo : \E j \in Fresh("job", c, LaunchRepo) :
          /\ SaveMine(l, j, NewRow("pending"))
          /\ launch' = [launch EXCEPT ![l].pc = AfterBackup, ![l].todo = @ \ {c},
                            ![l].backup = j, ![l].catalog = None,
                            ![l].prune = None,
                            ![l].first = IF @ = None THEN j ELSE @]
    /\ UNCHANGED <<master, Unlaunched>>

CreateCatalog(l) ==
    /\ LaunchAt(l) = "catalog"
    /\ \E j \in Fresh("catalog", ClientOf[launch[l].backup], LaunchRepo) :
          /\ SaveMine(l, j, NewRow("waiting"))
          /\ master' = [master EXCEPT ![j] = launch[l].backup]
          /\ launch' = [launch EXCEPT ![l].pc = "attachCatalog", ![l].catalog = j]
    /\ UNCHANGED Unlaunched

\* Mutant: the catalog points at its backup instead.
LinkBack(l, j, next) == SaveMine(l, next, [mine[l][next] EXCEPT !.dep = j])
\* j.dependent_jobs = next, j.save().
Link(l, j, next) == SaveMine(l, j, [mine[l][j] EXCEPT !.dep = next])

AttachCatalog(l) ==
    /\ LaunchAt(l) = "attachCatalog"
    /\ Link(l, launch[l].backup, launch[l].catalog)
    /\ launch' = [launch EXCEPT ![l].pc = IF Prunes THEN "prune" ELSE "chain"]
    /\ UNCHANGED <<master, Unlaunched>>

\* What the prune job waits for.
Pruned(l) == IF CatalogEnabled THEN launch[l].catalog ELSE launch[l].backup

CreatePrune(l) ==
    /\ LaunchAt(l) = "prune"
    /\ \E j \in Fresh("prune", ClientOf[launch[l].backup], LaunchRepo) :
          /\ SaveMine(l, j, NewRow("waiting"))
          /\ master' = [master EXCEPT ![j] = Pruned(l)]
          /\ launch' = [launch EXCEPT ![l].pc = "attachPrune", ![l].prune = j]
    /\ UNCHANGED Unlaunched

AttachPrune(l) ==
    /\ LaunchAt(l) = "attachPrune"
    /\ Link(l, Pruned(l), launch[l].prune)
    /\ launch' = [launch EXCEPT ![l].pc = "chain"]
    /\ UNCHANGED <<master, Unlaunched>>

\* The last job of a client holds up the last one of the next client, except where
\* jobs are to be pruned but nothing is kept: then the clients are not linked.
LinksClients == AutoPrune => KeepsSome
LastOfClient(l) == IF Prunes THEN launch[l].prune
                   ELSE IF CatalogEnabled THEN launch[l].catalog
                   ELSE launch[l].backup
Chains(l) == LinksClients /\ launch[l].previous # None
PreviousAfter(l) == IF LinksClients THEN LastOfClient(l) ELSE launch[l].previous

ChainClient(l) ==
    /\ LaunchAt(l) = "chain"
    /\ IF Chains(l) THEN Link(l, launch[l].previous, LastOfClient(l))
                     ELSE UNCHANGED <<row, mine>>
    /\ launch' = [launch EXCEPT
                     ![l].pc = IF launch[l].todo = {} THEN "renew" ELSE "next",
                     ![l].previous = PreviousAfter(l)]
    /\ UNCHANGED <<master, Unlaunched>>

\* jobs[0] is new again, whatever became of it.
RenewFirst(l) ==
    /\ LaunchAt(l) = "renew"
    /\ SaveMine(l, launch[l].first, [mine[l][launch[l].first] EXCEPT !.status = "new"])
    /\ launch' = [launch EXCEPT ![l].pc = "signal"]
    /\ UNCHANGED <<master, Unlaunched>>

\* Mutant: the job is not signalled.
LeftNew == "new"
\* signal_start.
Signalled == "pending"
SignalFirst(l) ==
    /\ LaunchAt(l) = "signal"
    /\ SetStatus(launch[l].first, Signalled)
    /\ launch' = [launch EXCEPT ![l] = NoLaunch]
    /\ mine' = [mine EXCEPT ![l] = [j \in Job |-> NoRow]]
    /\ UNCHANGED <<master, Unlaunched>>

\* No client is enabled: create_job returns None, whose signal_start raises.  Or a
\* save fails, and what was saved before stays.
LaunchRaises(l) ==
    /\ \/ LaunchAt(l) = "next" /\ launch[l].todo = {}
       \/ MayRaise /\ LaunchAt(l) \notin {"idle", "check", "next"}
    /\ launch' = [launch EXCEPT ![l] = NoLaunch]
    /\ mine' = [mine EXCEPT ![l] = [j \in Job |-> NoRow]]
    /\ failed' = failed \cup ({launch[l].first} \ {None})
    /\ UNCHANGED <<row, master, Unlaunched>>

-----------------------------------------------------------------------------
(* One job.                                                                *)

\* The rows a copy of o, or a restore from it, may be.
CopyRows(o) == IF "relaunch" \in Requests
               THEN Fresh(TypeOf[o], ClientOf[o], RepoOf[o]) ELSE {}
RestoreRows(o) == IF "restore" \in Requests /\ TypeOf[o] = "job"
                  THEN Fresh("restore", ClientOf[o], None) ELSE {}

\* JobRelaunch.post and RestoreLaunch.create: refused while the client has jobs
\* under way.
BeginCopy(l) ==
    /\ LaunchAt(l) = "idle"
    /\ \E o \in Job :
          /\ row[o].status # "absent"
          /\ CopyRows(o) \cup RestoreRows(o) # {}
          /\ ~Conflicting(ClientOf[o], Repo \cup {None})
          /\ launch' = [launch EXCEPT ![l] = [NoLaunch EXCEPT !.pc = "copy",
                                                !.copied = o]]
    /\ UNCHANGED <<row, mine, master, Unlaunched>>

CopyJob(l) ==
    /\ LaunchAt(l) = "copy"
    /\ \E j \in CopyRows(launch[l].copied) :
          /\ SaveMine(l, j, NewRow("new"))
          /\ master' = [master EXCEPT ![j] = master[launch[l].copied]]
          /\ launch' = [launch EXCEPT ![l].pc = "signal", ![l].first = j]
    /\ UNCHANGED Unlaunched

\* create_restore_job: the job has a client and no repository.
CreateRestoreJob(l) ==
    /\ LaunchAt(l) = "copy"
    /\ \E j \in RestoreRows(launch[l].copied) :
          /\ SaveMine(l, j, NewRow("new"))
          /\ launch' = [launch EXCEPT ![l].pc = "signal", ![l].first = j]
    /\ UNCHANGED <<master, Unlaunched>>

LaunchRound(l) ==
    \/ CheckClient(l) \/ CreateBackup(l) \/ CreateCatalog(l) \/ AttachCatalog(l)
    \/ CreatePrune(l) \/ AttachPrune(l) \/ ChainClient(l) \/ RenewFirst(l)
    \/ SignalFirst(l) \/ CopyJob(l) \/ CreateRestoreJob(l)
LaunchStep(l) == LaunchRound(l) \/ BeginLaunch(l) \/ BeginCopy(l)

-----------------------------------------------------------------------------
Writing == {l \in Launcher : LaunchAt(l) \notin {"idle", "check"}}
Overlap == \/ Writing # {} /\ \E s \in Scheduler : pc[s] # "idle"
           \/ \E l, k \in Writing : l # k

HalfDone(l) == LaunchAt(l) \notin {"idle", "check", "next", "signal"}
Record == raced' = (raced \/ Overlap'
                      \/ \E l \in Launcher : HalfDone(l) /\ LaunchAt(l)' = "idle")
Apart(A) == A /\ UNCHANGED <<launch, mine, master, failed>> /\ Record

LaunchNext ==
    \/ Apart(Next)
    \/ \E l \in Launcher : LaunchStep(l) /\ UNCHANGED failed /\ Record
    \/ \E l \in Launcher : LaunchRaises(l) /\ Record

LaunchSpec == LaunchInit /\ [][LaunchNext]_launchVars

\* Weaker than in TaskManager: some worker makes progress.  A request that was
\* begun is served to its end.
LaunchFairness ==
    /\ WF_launchVars(Apart(\E s \in Scheduler : PassStep(s)))
    /\ WF_launchVars(Apart(\E d \in Job \X Slot : WorkerStep(d)))
    /\ WF_launchVars((\E l \in Launcher : LaunchRound(l)) /\ UNCHANGED failed /\ Record)
FairLaunchSpec == LaunchSpec /\ LaunchFairness
-----------------------------------------------------------------------------
\* What create_job leaves is executed in its order: a catalog or prune job starts
\* after the job it was made for is over.  Only a pass or another launch between
\* its saves breaks the chain.
MasterFirst ==
    ~raced => \A j \in Job : Busy(row[j]) /\ master[j] # None
                                => row[master[j]].status \in Finished

\* Nor is a job then started twice, or beside one of its client or repository.
LaunchedAlone == ~raced => ExclusiveExecution

\* Every job a launch has added comes to an end, however launches and passes are
\* interleaved (what is saved over a started job is started again), unless a
\* launch of its client, or of a client it may be linked to, failed before it
\* signalled its first job.
LaunchedJobsFinish ==
    \A j \in Job :
        row[j].status # "absent"
            ~> \/ row[j].status \in Finished
               \/ \E x \in failed :
                     /\ row[x].status = "new"
                     /\ \/ ClientOf[x] = ClientOf[j]
                        \/ {ClientOf[x], ClientOf[j]} \subseteq PolicyClients
=============================================================================
