---------------------------- MODULE BackupCommand ----------------------------
(***************************************************************************)
(* What a backup does on two hosts, and who is told of it.  (To            *)
(* Housekeeping it is one step that makes an archive, to JobOutput a       *)
(* command that ends with a status.)                                       *)
(*                                                                         *)
(* The command line (main/tasks/builders/backup.py) is a shell script.     *)
(* The worker makes a directory on the client, copies a file with the      *)
(* environment there, removes its own copy and logs in; the shell there    *)
(* sources the file, removes it, mounts what a pull policy reads, runs     *)
(* `borg create`, which may read a pipe, and removes the directory.  What  *)
(* the client's shell is to do stands in double quotes on the worker's     *)
(* line: the `$?` and `$exitcode` in it are expanded by the worker, before *)
(* anything runs on the client.  The connection may be cut at any step, by *)
(* a cancel or by the network; the shell of the client need not notice.    *)
(*                                                                         *)
(* Mail (cyborgbackup_notifier, main/tasks/shared.py) is sent user by user *)
(* by a task that final_run_hook queues after a backup and by another that *)
(* beat queues once a day (that of a week and that of a month differ in    *)
(* the length of the period).                                              *)
(***************************************************************************)
EXTENDS Naturals

CONSTANTS
    Backup,
    OnSuccess, OnFailure, OnDaily, \* users by the mail they ask for
    MaxFaults   \* bound on failing steps, cut connections, crashes, lost mails

ASSUME FaultsAssumption == MaxFaults \in Nat

VARIABLES
    row,     \* the row of each backup
    command, \* the worker's side of the script, and what came of it
    host,    \* the client's side: what its steps said, how its shell exited
    files,   \* what they have made and not removed
    archive, \* what the archive holds: a dump cut short makes a "stream"
    after,   \* the task for the end of each backup
    day,     \* where the start of a backup is in the period of the reports
    daily,   \* the task for the day
    mailed,  \* <<user, report, backup>>
    dropped, \* reports that a failing mail server, or a crash, ended
    faults
script == <<row, command, host, files, archive>>
mail == <<after, day, daily, mailed, dropped>>
vars == <<script, mail, faults>>

User == OnSuccess \cup OnFailure \cup OnDaily
Idle == [pc |-> "idle", left |-> {}]
NoReport == [queued |-> FALSE, left |-> {}, lines |-> {}]

Init ==
    /\ row = [b \in Backup |-> "waiting"]
    /\ command = [b \in Backup |-> [pc |-> "none", exit |-> "ok", piped |-> FALSE,
                                    pull |-> FALSE]]
    /\ host = [b \in Backup |-> [pc |-> "none", said |-> "ok", exit |-> "ok"]]
    /\ files = [b \in Backup |-> {}]
    /\ archive = [b \in Backup |-> "none"]
    /\ after = [b \in Backup |-> Idle]
    /\ day = [b \in Backup |-> "before"]
    /\ daily = NoReport
    /\ mailed = {} /\ dropped = {} /\ faults = 0

Label == {"none", "build", "mkdir", "copy", "remove", "login", "wait", "over", "hook",
          "done"}
HostLabel == {"none", "source", "mount", "create", "clean", "over", "gone"}
Exit == {"ok", "failed", "canceled", "error", "raised"}
File == {"run", "display", "dir", "env", "mount"}
ScriptTypeOK ==
    /\ row \in [Backup -> {"waiting", "running", "successful", "failed", "canceled",
                          "error", "removed"}]
    /\ command \in [Backup -> [pc : Label, exit : Exit, piped : BOOLEAN, pull : BOOLEAN]]
    /\ host \in [Backup -> [pc : HostLabel, said : {"ok", "failed"},
                           exit : {"ok", "failed"}]]
    /\ files \in [Backup -> SUBSET File]
    /\ archive \in [Backup -> {"none", "whole", "stream", "part"}]
MailTypeOK ==
    /\ after \in [Backup -> [pc : {"idle", "queued", "over"}, left : SUBSET User]]
    /\ day \in [Backup -> {"before", "today", "sent", "listed", "past", "missed"}]
    /\ daily \in [queued : BOOLEAN, left : SUBSET User, lines : SUBSET Backup]
    /\ mailed \subseteq User \X {"after", "daily"} \X Backup
    /\ dropped \subseteq {"after", "daily"} \X Backup
TypeOK == ScriptTypeOK /\ MailTypeOK /\ faults \in 0 .. MaxFaults

\* A step fails, and counts.
Fault == faults < MaxFaults /\ faults' = faults + 1
Quiet == UNCHANGED faults
Present(b) == row[b] # "removed"

-----------------------------------------------------------------------------
(* The worker: `mkdir && scp && rm && ssh`.                                *)

Goto(b, label) == command' = [command EXCEPT ![b].pc = label]
AtWorker(b, label) == command[b].pc = label

\* A backup begins; its policy has a mode and a type.
Start(b) ==
    /\ row[b] = "waiting" /\ row' = [row EXCEPT ![b] = "running"] /\ Quiet
    /\ \E piped, pull \in BOOLEAN :
          command' = [command EXCEPT ![b] = [pc |-> "build", exit |-> "ok",
                                             piped |-> piped, pull |-> pull]]
    /\ day' = [day EXCEPT ![b] = "today"]
    /\ UNCHANGED <<host, files, archive, after, daily, mailed, dropped>>

\* build_args, and once more for build_safe_args: each makes a file of its own.
\* Before that a policy raises that has no command to pipe, which run catches, or
\* whose extra_vars are no JSON, which it does not.
BuildArgs(b) ==
    /\ AtWorker(b, "build") /\ Quiet
    /\ \/ /\ Goto(b, "mkdir")
          /\ files' = [files EXCEPT ![b] = {"run", "display"}]
       \/ /\ \E exit \in (IF command[b].piped THEN {"error"} ELSE {}) \cup {"raised"} :
                command' = [command EXCEPT ![b].pc = "over", ![b].exit = exit]
          /\ UNCHANGED files
    /\ UNCHANGED <<row, host, archive, mail>>

MakeRemoteDir(b) ==
    /\ AtWorker(b, "mkdir") /\ Goto(b, "copy") /\ Quiet
    /\ files' = [files EXCEPT ![b] = @ \cup {"dir"}]
    /\ UNCHANGED <<row, host, archive, mail>>

CopyEnvironment(b) ==
    /\ AtWorker(b, "copy") /\ Goto(b, "remove") /\ Quiet
    /\ files' = [files EXCEPT ![b] = @ \cup {"env"}]
    /\ UNCHANGED <<row, host, archive, mail>>

RemoveEnvironment(b) ==
    /\ AtWorker(b, "remove") /\ Goto(b, "login") /\ Quiet
    /\ files' = [files EXCEPT ![b] = @ \ {"run"}]
    /\ UNCHANGED <<row, host, archive, mail>>

Login(b) ==
    /\ AtWorker(b, "login") /\ Goto(b, "wait") /\ Quiet
    /\ host' = [host EXCEPT ![b].pc = "source"]
    /\ UNCHANGED <<row, files, archive, mail>>

\* A step of the worker fails and ends the script.
StepFails(b) ==
    /\ command[b].pc \in {"mkdir", "copy", "login"} /\ Fault
    /\ command' = [command EXCEPT ![b].pc = "over", ![b].exit = "failed"]
    /\ UNCHANGED <<row, host, files, archive, mail>>

\* The connection is cut, or the whole script is terminated.
Cut(b) ==
    /\ command[b].pc \in {"mkdir", "copy", "remove", "login", "wait"} /\ Fault
    /\ \E exit \in {"failed", "canceled"} :
          command' = [command EXCEPT ![b].pc = "over", ![b].exit = exit]
    /\ UNCHANGED <<row, host, files, archive, mail>>

\* ssh exits with the status of the client's shell.
Reply(b) ==
    /\ AtWorker(b, "wait") /\ host[b].pc = "over" /\ Quiet
    /\ command' = [command EXCEPT ![b].pc = "over", ![b].exit = host[b].exit]
    /\ UNCHANGED <<row, host, files, archive, mail>>

-----------------------------------------------------------------------------
(* The client, or the host of the repository when the policy pulls:        *)
(* `. env && rm env && mkdir && sshfs && cd && borg create ...;            *)
(* exitcode=0; rm -rf dir; exit`: what is left of `exitcode=$?` and of     *)
(* `exit $exitcode` when the worker's shell has expanded them (its last    *)
(* command was `rm -f`, and it has no such variable).                      *)

Mounts(b) == command[b].pull /\ ~command[b].piped

Source(b) ==
    /\ host[b].pc = "source" /\ Quiet
    /\ host' = [host EXCEPT ![b].pc = IF Mounts(b) THEN "mount" ELSE "create"]
    /\ files' = [files EXCEPT ![b] = @ \ {"env"}]
    /\ UNCHANGED <<row, command, archive, mail>>

Mount(b) ==
    /\ host[b].pc = "mount" /\ Quiet
    /\ host' = [host EXCEPT ![b].pc = "create"]
    /\ files' = [files EXCEPT ![b] = @ \cup {"mount"}]
    /\ UNCHANGED <<row, command, archive, mail>>

\* What borg finds: a pipe may end early, a directory may have nothing mounted.
Read(b) ==
    IF command[b].piped THEN {"whole", "stream"}
    ELSE IF Mounts(b) /\ "mount" \notin files[b] THEN {"part"} ELSE {"whole"}
\* The status of a pipe is that of borg; borg ends with 1 after warnings.
BorgCreate(b) ==
    /\ host[b].pc = "create" /\ Quiet
    /\ \E said \in {"ok", "failed"} :
          host' = [host EXCEPT ![b].pc = "clean", ![b].said = said]
    /\ \E held \in Read(b) : archive' = [archive EXCEPT ![b] = held]
    /\ UNCHANGED <<row, command, files, mail>>

\* Mutant: the steps are joined by `;`.
BrokenOff(b) ==
    {IF host[b].pc = "mount" THEN [host[b] EXCEPT !.pc = "create"]
     ELSE [pc |-> "clean", said |-> "failed", exit |-> "ok"]}
\* After a step that fails the shell goes on behind the `;`; a shell that takes a
\* failing `.` for an error of its own exits at once.
Broken(b) ==
    {[pc |-> "clean", said |-> "failed", exit |-> "ok"]}
        \cup (IF host[b].pc = "source"
              THEN {[pc |-> "over", said |-> "failed", exit |-> "failed"]} ELSE {})
HostFails(b) ==
    /\ host[b].pc \in {"source", "mount", "create"} /\ Fault
    /\ \E broken \in Broken(b) : host' = [host EXCEPT ![b] = broken]
    /\ UNCHANGED <<row, command, files, archive, mail>>

\* rm -rf of the private directory, whatever borg said; `exit` alone keeps the
\* status of rm.
RemoveRemoteDir(b) ==
    /\ host[b].pc = "clean"
    /\ \/ /\ Quiet /\ host' = [host EXCEPT ![b].pc = "over", ![b].exit = "ok"]
          /\ files' = [files EXCEPT ![b] = @ \ {"dir", "env"}]
       \/ /\ Fault /\ host' = [host EXCEPT ![b].pc = "over", ![b].exit = "failed"]
          /\ UNCHANGED files
    /\ UNCHANGED <<row, command, archive, mail>>

\* A shell without its connection dies of the signal, or goes on.
Hangup(b) ==
    /\ host[b].pc \in {"source", "mount", "create", "clean"}
    /\ ~AtWorker(b, "wait") /\ Quiet
    /\ host' = [host EXCEPT ![b].pc = "gone"]
    /\ UNCHANGED <<row, command, files, archive, mail>>

-----------------------------------------------------------------------------
(* The end of the backup, and the mail about it.                           *)

\* BaseTask.run: the cancel flag is read again before the last update.  After an
\* exception it does not catch the row is left to the error callback.
Status == [ok |-> "successful", failed |-> "failed", canceled |-> "canceled",
           error |-> "error"]
End(b) ==
    /\ AtWorker(b, "over") /\ row[b] = "running" /\ Quiet
    /\ IF command[b].exit = "raised"
       THEN Goto(b, "done") /\ row' = [row EXCEPT ![b] = "failed"]
       ELSE /\ Goto(b, "hook")
            /\ \E exit \in {command[b].exit, "canceled"} :
                  row' = [row EXCEPT ![b] = Status[exit]]
    /\ UNCHANGED <<host, files, archive, mail>>

\* Mutant: before the last update.
HookIsEarly(b) == AtWorker(b, "over") /\ after[b].pc = "idle"
HookIsDue(b) == AtWorker(b, "hook") /\ after[b].pc = "idle"
\* final_run_hook, unless the worker dies first.
FinalHook(b) ==
    /\ HookIsDue(b)
    /\ \/ /\ Quiet /\ after' = [after EXCEPT ![b].pc = "queued"]
          /\ UNCHANGED dropped
       \/ /\ Fault /\ after' = [after EXCEPT ![b].pc = "over"]
          /\ dropped' = dropped \cup {<<"after", b>>}
    /\ UNCHANGED <<script, day, daily, mailed>>

\* Nobody is told of canceled backups and of errors; a row that is gone raises.
Asking(b) == IF row[b] = "successful" THEN OnSuccess
             ELSE IF row[b] = "failed" THEN OnFailure ELSE {}
\* _cyborgbackup_notifier_after: job, users and lines are read.
ReadBackup(b) ==
    /\ after[b].pc = "queued" /\ Quiet
    /\ after' = [after EXCEPT ![b] = [pc |-> "over", left |-> Asking(b)]]
    /\ UNCHANGED <<script, day, daily, mailed, dropped>>

\* send_email for one user after the other: an exception ends the task.
SendAfter(b) ==
    /\ \E u \in after[b].left :
          \/ /\ Quiet /\ after' = [after EXCEPT ![b].left = @ \ {u}]
             /\ mailed' = mailed \cup {<<u, "after", b>>}
             /\ UNCHANGED dropped
          \/ /\ Fault /\ after' = [after EXCEPT ![b].left = {}]
             /\ dropped' = dropped \cup {<<"after", b>>}
             /\ UNCHANGED mailed
    /\ UNCHANGED <<script, day, daily>>

-----------------------------------------------------------------------------
(* The report of the day.                                                  *)

\* cyborgbackup_notify_daily, every 24 hours.
BeatDaily ==
    /\ Quiet
    /\ daily' = [daily EXCEPT !.queued = TRUE]
    /\ day' = [b \in Backup |-> IF day[b] = "today" THEN "sent" ELSE day[b]]
    /\ UNCHANGED <<script, after, mailed, dropped>>

\* 24 hours after the start; a report that is still to be built misses it.
DayPasses(b) ==
    /\ day[b] \in {"sent", "listed"} /\ Quiet
    /\ day' = [day EXCEPT ![b] = IF @ = "listed" THEN "past" ELSE "missed"]
    /\ UNCHANGED <<script, after, daily, mailed, dropped>>

\* started__gte, job_type='job'
Recent(b) == Present(b) /\ day[b] \in {"today", "sent", "listed"}
\* Mutant: of the successful ones.
ListedSuccesses == {b \in Backup : Recent(b) /\ row[b] = "successful"}
Listed == {b \in Backup : Recent(b)}
\* build_report
BuildReport ==
    /\ daily.queued /\ daily.left = {} /\ Quiet
    /\ daily' = [queued |-> FALSE, left |-> OnDaily, lines |-> Listed]
    /\ day' = [b \in Backup |-> IF b \in Listed /\ day[b] = "sent" THEN "listed"
                               ELSE day[b]]
    /\ UNCHANGED <<script, after, mailed, dropped>>

SendDaily ==
    /\ \E u \in daily.left :
          LET rest == daily.left \ {u}
          IN  \/ /\ Quiet
                 /\ daily' = [daily EXCEPT !.left = rest,
                                 !.lines = IF rest = {} THEN {} ELSE @]
                 /\ mailed' = mailed \cup {<<u, "daily", b>> : b \in daily.lines}
                 /\ UNCHANGED dropped
              \/ /\ Fault /\ daily' = [NoReport EXCEPT !.queued = daily.queued]
                 /\ dropped' = dropped \cup {<<"daily", b>> : b \in daily.lines}
                 /\ UNCHANGED mailed
    /\ UNCHANGED <<script, after, day>>

-----------------------------------------------------------------------------
\* A row is deleted, by cleanup_jobs or with its client.
RemoveRow(b) ==
    /\ command[b].pc \in {"hook", "done"} /\ Present(b) /\ Quiet
    /\ row' = [row EXCEPT ![b] = "removed"]
    /\ UNCHANGED <<command, host, files, archive, mail>>

WorkerStep(b) ==
    \/ BuildArgs(b) \/ MakeRemoteDir(b) \/ CopyEnvironment(b) \/ RemoveEnvironment(b)
    \/ Login(b) \/ StepFails(b) \/ Reply(b) \/ End(b) \/ FinalHook(b)
HostStep(b) ==
    \/ Source(b) \/ Mount(b) \/ BorgCreate(b) \/ HostFails(b) \/ RemoveRemoteDir(b)
MailAfter(b) == ReadBackup(b) \/ SendAfter(b)

Next ==
    \/ \E b \in Backup : \/ Start(b) \/ WorkerStep(b) \/ Cut(b) \/ MailAfter(b)
                        \/ HostStep(b) \/ Hangup(b) \/ DayPasses(b) \/ RemoveRow(b)
    \/ BuildReport \/ SendDaily \/ BeatDaily

Spec == Init /\ [][Next]_vars

\* What has begun goes on, tasks are taken from their queue, beat goes on.
Fairness ==
    /\ \A b \in Backup : /\ WF_vars(WorkerStep(b)) /\ WF_vars(HostStep(b))
                         /\ WF_vars(MailAfter(b))
    /\ WF_vars(BuildReport) /\ WF_vars(SendDaily) /\ WF_vars(BeatDaily)
FairSpec == Spec /\ Fairness
-----------------------------------------------------------------------------
\* A backup that says it is successful has run its shell on the client to the end
\* and left of its files only the one of build_safe_args and the mount of a pull:
\* no failing step of the worker, cut connection or failing removal says success.
\* A failing step of the client does; if there was none, all that was to be read is
\* archived, or all that a pipe gave.
SuccessRanToTheEnd ==
    \A b \in Backup : row[b] = "successful" =>
        /\ host[b].pc = "over"
        /\ files[b] \subseteq {"display"} \cup (IF Mounts(b) THEN {"mount"} ELSE {})
        /\ host[b].said = "ok" =>
              archive[b] = "whole" \/ (archive[b] = "stream" /\ command[b].piped)

\* Whoever asked for it gets a mail about the end of a backup, unless the row goes
\* first, or a mail or the worker before fails, or the failure was an exception.
EndIsMailed ==
    \A b \in Backup : \A u \in OnSuccess \cup OnFailure :
        u \in Asking(b) /\ command[b].exit # "raised"
            ~> \/ <<u, "after", b>> \in mailed
               \/ <<"after", b>> \in dropped \/ ~Present(b)

\* A backup that has begun is in a report of the day, whatever becomes of it,
\* unless its row goes first, a mail fails, or the report is a day late.
StartedIsReported ==
    \A b \in Backup :
        day[b] = "today"
            ~> \/ \A u \in OnDaily : <<u, "daily", b>> \in mailed
               \/ <<"daily", b>> \in dropped \/ ~Present(b) \/ day[b] = "missed"
=============================================================================
