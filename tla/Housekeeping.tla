---------------------------- MODULE Housekeeping ----------------------------
(***************************************************************************)
(* Three stores that have to agree: the archives of the borg repositories, *)
(* the rows of the backup jobs (PostgreSQL, main_job.archive_name) and the *)
(* catalog of files (MongoDB, collection `catalog`).  They are written by  *)
(* the backup, its catalog job (main/tasks/builders/catalog.py) and the    *)
(* entries that job posts, by compute_borg_size, borg prune, and by two    *)
(* commands that list the repositories: cleanup_jobs, which beat starts    *)
(* every hour (prune_catalog), and rebuild_catalog.  (A third one,         *)
(* rebuild_catalog_mongo, has no launch_command and raises at its first    *)
(* repository, line 179, before it changes anything.)                      *)
(*                                                                         *)
(* A chain is a backup with its catalog job, numbered in the order of      *)
(* creation.                                                               *)
(***************************************************************************)
EXTENDS Naturals

CONSTANTS
    Chain,      \* the backups
    Recognised, \* those whose policy_type the commands look for in a listing
    MaxExtra    \* bound on crashes, failing listings and lost posts, and on the
                \* cancels and commands of an administrator

ASSUME HousekeepingAssumption ==
    Chain \subseteq Nat /\ Recognised \subseteq Chain
    /\ MaxExtra \in Nat

VARIABLES
    together, \* the chains were created by one launch of their policy
    job,      \* the rows of the backups
    catalog,  \* where each catalog job is
    master,   \* the copy of its backup each of them has read
    archives, \* what is in the repositories
    reported, \* backups whose report (archive name, sizes) is saved as events
    old,      \* rows older than JOB_RETENTION
    posts,    \* catalog entries in the queue of the event pipeline
    entries,  \* archives whose entries are in the collection
    sizer,    \* compute_borg_size
    sweep,    \* the command that walks the repositories
    extra,
    doubt     \* history: chains the stores may disagree about, and why below
vars == <<together, job, catalog, master, archives, reported, old, posts,
          entries, sizer, sweep, extra, doubt>>

Row == [status : {"waiting", "running", "successful", "failed", "removed"},
        archive_name : {"null", "set", ""}, sized : BOOLEAN]
NewRow == [status |-> "waiting", archive_name |-> "null", sized |-> FALSE]
NoCopy == [c \in Chain |-> NewRow]
Kind == {"cleanup", "rebuild"}
NoSizer == [todo |-> {}, held |-> NoCopy]
NoSweep == [pc |-> "idle", kind |-> "cleanup", listed |-> {}, dead |-> {},
            orphan |-> {}, held |-> NoCopy, gone |-> {}]
Ran == {"successful", "failed"}
CatalogStarted == {"started", "read", "saved"}

Init ==
    /\ together \in BOOLEAN
    /\ job = [c \in Chain |-> NewRow]
    /\ catalog = [c \in Chain |-> "waiting"]
    /\ master = NoCopy
    /\ archives = {} /\ reported = {} /\ old = {} /\ posts = {} /\ entries = {}
    /\ sizer = NoSizer /\ sweep = NoSweep
    /\ extra = 0
    /\ doubt = {}

TypeOK ==
    /\ together \in BOOLEAN
    /\ job \in [Chain -> Row] /\ master \in [Chain -> Row]
    /\ catalog \in [Chain -> {"waiting"} \cup CatalogStarted \cup Ran]
    /\ archives \subseteq Chain /\ reported \subseteq Chain /\ old \subseteq Chain
    /\ posts \subseteq Chain /\ entries \subseteq Chain /\ doubt \subseteq Chain
    /\ sizer \in [todo : SUBSET Chain, held : [Chain -> Row]]
    /\ sweep \in [pc : {"idle", "list", "scan", "walk"}, kind : Kind,
                  listed : SUBSET Chain, dead : SUBSET Chain,
                  orphan : SUBSET Chain, held : [Chain -> Row],
                  gone : SUBSET Chain]
    /\ extra \in 0 .. MaxExtra

Extra == extra < MaxExtra /\ extra' = extra + 1
Present(c) == job[c].status # "removed"
\* A row whose deletion has not been committed is locked.
Unlocked(c) == c \notin sweep.gone

-----------------------------------------------------------------------------
(* The jobs.                                                               *)

Stores == <<archives, posts, entries>>
Commands == <<sizer, sweep, together, old>>

\* The chains have one repository: the task manager lets one job have it.
Idle(d) == job[d].status # "running" /\ catalog[d] \notin CatalogStarted

\* The chains of a launch follow each other.
StartBackup(c) ==
    /\ job[c].status = "waiting" /\ \A d \in Chain : Idle(d)
    /\ \A d \in {x \in Chain : x < c} : /\ job[d].status # "waiting"
                                       /\ together => catalog[d] \in Ran
    /\ job' = [job EXCEPT ![c].status = "running"]
    /\ UNCHANGED <<catalog, master, Stores, reported, Commands, extra, doubt>>

\* An archive that is made when a command has listed its repository.
CreateArchive(c) ==
    /\ job[c].status = "running" /\ c \notin archives
    /\ archives' = archives \cup {c}
    /\ doubt' = IF sweep.pc \in {"scan", "walk"} THEN doubt \cup {c} ELSE doubt
    /\ UNCHANGED <<job, catalog, master, posts, entries, reported, Commands, extra>>

\* With its archive or without: a command that is cut or canceled may have made one,
\* and one that says success need not (BackupCommand).  The catalog job stays.
EndBackup(c) ==
    /\ job[c].status = "running"
    /\ \E status \in Ran : job' = [job EXCEPT ![c].status = status]
    /\ UNCHANGED <<catalog, master, Stores, reported, Commands, extra, doubt>>

\* A job that has not started is canceled, which leaves the other one alone.
CancelQueued(c) ==
    /\ Unlocked(c) /\ Extra
    /\ \/ /\ job[c].status = "waiting"
          /\ job' = [job EXCEPT ![c].status = "failed"] /\ UNCHANGED catalog
       \/ /\ catalog[c] = "waiting" /\ Present(c)
          /\ catalog' = [catalog EXCEPT ![c] = "failed"] /\ UNCHANGED job
    /\ UNCHANGED <<master, Stores, reported, Commands, doubt>>

\* The event pipeline saves the lines of the report, before the end or after.
SaveReport(c) ==
    /\ c \in archives \ reported /\ Present(c) /\ Unlocked(c)
    /\ reported' = reported \cup {c}
    /\ UNCHANGED <<job, catalog, master, Stores, Commands, extra, doubt>>

\* A job waits until the one before has finished, whatever came of that.
StartCatalog(c) ==
    /\ job[c].status \in Ran /\ catalog[c] = "waiting"
    /\ \A d \in Chain : Idle(d)
    /\ catalog' = [catalog EXCEPT ![c] = "started"]
    /\ UNCHANGED <<job, master, Stores, reported, Commands, extra, doubt>>

\* build_env, build_args: without the report JobCatalogException is raised.
ReadMaster(c) ==
    /\ catalog[c] = "started"
    /\ IF c \in reported /\ Present(c)
       THEN /\ catalog' = [catalog EXCEPT ![c] = "read"]
            /\ master' = [master EXCEPT ![c] = job[c]]
       ELSE /\ catalog' = [catalog EXCEPT ![c] = "failed"]
            /\ UNCHANGED master
    /\ UNCHANGED <<job, Stores, reported, Commands, extra, doubt>>

\* job.master_job.archive_name = archive_name; job.master_job.save()
MasterNamed(c) == [master[c] EXCEPT !.archive_name = "set"]

\* A save of a removed row would insert it again, and violates its foreign keys.
SaveMaster(c) ==
    /\ catalog[c] = "read" /\ Unlocked(c)
    /\ IF Present(c)
       THEN /\ job' = [job EXCEPT ![c] = MasterNamed(c)]
            /\ catalog' = [catalog EXCEPT ![c] = "saved"]
       ELSE /\ catalog' = [catalog EXCEPT ![c] = "failed"]
            /\ UNCHANGED job
    /\ master' = [master EXCEPT ![c] = NewRow]
    /\ UNCHANGED <<Stores, reported, Commands, extra, doubt>>

\* fill_catalog: whatever the listing and the post give, it exits 0.
PostEntries(c) ==
    /\ catalog[c] = "saved"
    /\ catalog' = [catalog EXCEPT ![c] = "successful"]
    /\ IF c \in archives
       THEN \/ posts' = posts \cup {c} /\ UNCHANGED extra
            \/ Extra /\ UNCHANGED posts
       ELSE UNCHANGED <<posts, extra>>
    /\ UNCHANGED <<job, master, archives, entries, reported, Commands, doubt>>

\* create_from_data, for a job that may be gone.
SaveEntries(c) ==
    /\ c \in posts
    /\ posts' = posts \ {c}
    /\ entries' = entries \cup {c}
    /\ doubt' = IF ~Present(c) \/ ~Unlocked(c) THEN doubt \cup {c} ELSE doubt
    /\ UNCHANGED <<job, catalog, master, archives, reported, Commands, extra>>

\* A later prune job.
BorgPrune(c) ==
    /\ c \in archives \cap reported /\ catalog[c] \in Ran /\ \A d \in Chain : Idle(d)
    /\ archives' = archives \ {c}
    /\ UNCHANGED <<job, catalog, master, posts, entries, reported, Commands, extra,
                   doubt>>

\* Only the age of rows without a name is ever looked at.
Age(c) ==
    /\ c \notin old /\ catalog[c] \in Ran /\ job[c].archive_name = "null"
    /\ Present(c)
    /\ old' = old \cup {c}
    /\ UNCHANGED <<job, catalog, master, Stores, reported, sizer, sweep, together,
                   extra, doubt>>

-----------------------------------------------------------------------------
(* compute_borg_size, every ten seconds.                                   *)

Jobs == <<catalog, master, together, old>>

\* Mutant: only backups that the catalog has not named yet.
UnsizedAndUnnamed(c) == /\ job[c].status = "successful" /\ ~job[c].sized
                        /\ job[c].archive_name = "null"
Unsized(c) == job[c].status = "successful" /\ ~job[c].sized
SizerQuery ==
    /\ sizer.todo = {}
    /\ LET S == {c \in Chain : Unsized(c)}
       IN  /\ S # {}
           /\ sizer' = [todo |-> S, held |-> [c \in Chain |-> IF c \in S THEN job[c]
                                                             ELSE NewRow]]
    /\ UNCHANGED <<job, Jobs, Stores, reported, sweep, extra, doubt>>

\* job.save() of the object read by the query: a name set since then is lost.
Measured(c) == [sizer.held[c] EXCEPT !.sized = TRUE]
SizerSave(c) ==
    /\ c \in sizer.todo /\ Unlocked(c)
    /\ IF c \in reported /\ Present(c)
       THEN /\ job' = [job EXCEPT ![c] = Measured(c)]
            /\ doubt' = IF job[c].archive_name # sizer.held[c].archive_name
                        THEN doubt \cup {c} ELSE doubt
       ELSE UNCHANGED <<job, doubt>>
    /\ sizer' = [todo |-> sizer.todo \ {c}, held |-> [sizer.held EXCEPT ![c] = NewRow]]
    /\ UNCHANGED <<Jobs, Stores, reported, sweep, extra>>

-----------------------------------------------------------------------------
(* The commands.                                                           *)

\* None begins while a job is running; jobs may start afterwards.
BeginSweep(kind) ==
    /\ sweep.pc = "idle"
    /\ \A c \in Chain : Idle(c)
    /\ IF kind = "cleanup" THEN UNCHANGED extra ELSE Extra
    /\ sweep' = [NoSweep EXCEPT !.pc = "list", !.kind = kind]
    /\ UNCHANGED <<job, Jobs, Stores, reported, sizer, doubt>>

\* borg list of every repository.  The return code is not looked at.
ListRepositories ==
    /\ sweep.pc = "list"
    /\ \/ /\ sweep' = [sweep EXCEPT !.pc = "scan", !.listed = archives \cap Recognised]
          /\ UNCHANGED <<extra, doubt>>
       \/ /\ Extra
          /\ doubt' = doubt \cup archives
          /\ sweep' = [sweep EXCEPT !.pc = "scan"]
    /\ UNCHANGED <<job, Jobs, Stores, reported, sizer>>

\* entry.archive_name != '' and entry.archive_name and not in repoArchives
NotListed(c) == job[c].archive_name = "set" /\ c \notin sweep.listed

\* Mutant: whatever its age.
Unnamed(c) == job[c].archive_name = "null"
\* entry.archive_name is None and older than JOB_RETENTION
Orphan(c) == c \in old /\ job[c].archive_name = "null"

\* The query of the backups; rebuild_catalog takes the successful ones.
Scan ==
    /\ sweep.pc = "scan"
    /\ LET rows == {c \in Chain : Present(c)}
           done == {c \in rows : job[c].status = "successful"}
           dead == {c \in IF sweep.kind = "cleanup" THEN rows ELSE done : NotListed(c)}
       IN  sweep' = [sweep EXCEPT !.pc = "walk", !.listed = {}, !.dead = dead,
                !.orphan = IF sweep.kind = "cleanup"
                           THEN {c \in rows : Orphan(c)} ELSE {},
                !.held = [c \in Chain |-> IF sweep.kind = "rebuild" /\ c \in dead
                                          THEN job[c] ELSE NewRow]]
    /\ UNCHANGED <<job, Jobs, Stores, reported, sizer, extra, doubt>>

\* Mutant: the cascade goes on to the chain that was created next.
CascadeOn(c) == {c, c + 1}
\* Mutant: --dry-run is on.
DryRun(c) == {}
\* The foreign keys cascade: the chains of a launch that come before this one.
Cascade(c) == {c} \cup {d \in Chain : together /\ d <= c}

\* Mutant: the row is deleted, its entries are left to the next run.
DeletedFrom(c) == entries
WithoutEntries(c) == entries \ {c}

\* cleanup_jobs.  The deletion in MongoDB is not part of the transaction.
CleanEntry(c) ==
    /\ sweep.kind = "cleanup" /\ c \in sweep.dead
    /\ entries' = WithoutEntries(c)
    /\ sweep' = [sweep EXCEPT !.dead = @ \ {c}, !.gone = @ \cup Cascade(c)]
    /\ doubt' = doubt \cup (Cascade(c) \ {c})
    /\ UNCHANGED <<job, Jobs, archives, posts, reported, sizer, extra>>

\* A backup whose catalog job failed, so that it has no name: whatever its archive.
CleanOrphan(c) ==
    /\ c \in sweep.orphan
    /\ sweep' = [sweep EXCEPT !.orphan = @ \ {c}, !.gone = @ \cup Cascade(c)]
    /\ doubt' = doubt \cup (Cascade(c) \ {c})
                     \cup {x \in {c} : catalog[x] = "failed"}
    /\ UNCHANGED <<job, Jobs, Stores, reported, sizer, extra>>

\* rebuild_catalog: the whole row is written back, the collection is not touched.
Cleared(c) == [sweep.held[c] EXCEPT !.archive_name = ""]
ClearName(c) ==
    /\ sweep.kind = "rebuild" /\ c \in sweep.dead
    /\ job' = [job EXCEPT ![c] = Cleared(c)]
    /\ sweep' = [sweep EXCEPT !.dead = @ \ {c}, !.held[c] = NewRow]
    /\ doubt' = doubt \cup {c}
    /\ UNCHANGED <<Jobs, Stores, reported, sizer, extra>>

\* The end of the command, and of cleanup_jobs' transaction.
EndSweep ==
    /\ sweep.pc = "walk" /\ sweep.dead = {} /\ sweep.orphan = {}
    /\ job' = [c \in Chain |-> IF c \in sweep.gone
                               THEN [NewRow EXCEPT !.status = "removed"] ELSE job[c]]
    /\ sweep' = NoSweep
    /\ UNCHANGED <<Jobs, Stores, reported, sizer, extra, doubt>>

\* It dies, or a statement raises: the rows are as before, the collection is not.
AbortSweep ==
    /\ sweep.pc = "walk" /\ Extra
    /\ sweep' = NoSweep
    /\ UNCHANGED <<job, Jobs, Stores, reported, sizer, doubt>>

-----------------------------------------------------------------------------
JobStep(c) ==
    \/ CreateArchive(c) \/ EndBackup(c) \/ SaveReport(c) \/ ReadMaster(c)
    \/ SaveMaster(c) \/ PostEntries(c) \/ SaveEntries(c)
SweepStep ==
    \/ ListRepositories \/ Scan \/ EndSweep
    \/ \E c \in Chain : CleanEntry(c) \/ CleanOrphan(c) \/ ClearName(c)

Next ==
    \/ \E c \in Chain : \/ StartBackup(c) \/ StartCatalog(c) \/ CancelQueued(c)
                       \/ BorgPrune(c) \/ Age(c) \/ JobStep(c) \/ SizerSave(c)
    \/ SizerQuery
    \/ \E kind \in Kind : BeginSweep(kind)
    \/ SweepStep \/ AbortSweep

Spec == Init /\ [][Next]_vars

\* Jobs come to an end and beat sends its tasks again and again.
Fairness ==
    /\ \A c \in Chain : WF_vars(JobStep(c)) /\ WF_vars(SizerSave(c))
    /\ WF_vars(SizerQuery)
    /\ WF_vars(BeginSweep("cleanup")) /\ WF_vars(SweepStep)
FairSpec == Spec /\ Fairness
-----------------------------------------------------------------------------
\* The row of a backup whose archive is kept is kept.
KeptArchiveKeepsItsJob ==
    \A c \in (archives \cap Recognised) \ doubt : Present(c)

\* Entries of the catalog belong to a job: a restore begins with its row.
EntriesBelongToAJob ==
    \A c \in entries \ doubt : Present(c)

\* When an archive with a name has been pruned, its row and its entries go too.
PrunedIsCleaned ==
    \A c \in Chain :
        job[c].archive_name = "set" /\ c \notin archives
            ~> (~Present(c) /\ c \notin entries) \/ c \in doubt

\* A successful backup gets its size, whatever stale rows are saved meanwhile.
SizedInTheEnd ==
    \A c \in Chain :
        job[c].status = "successful" /\ c \in reported
            ~> job[c].sized \/ ~Present(c)
=============================================================================
