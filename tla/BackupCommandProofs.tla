------------------------ MODULE BackupCommandProofs ------------------------
(***************************************************************************)
(* SuccessRanToTheEnd for any number of backups, recipients and faults.    *)
(*                                                                         *)
(* The property compares a row with what the two hosts have left.  What    *)
(* carries it from one to the other is the status that goes up: from the   *)
(* removal that ends the client's shell (HostInv) through ssh to the       *)
(* worker (WorkerInv) and into the row (RowInv).  What the steps before    *)
(* the removal said does not go up; it is HostInv alone that ties it to    *)
(* the archive.                                                            *)
(***************************************************************************)
EXTENDS BackupCommand, TLAPS

Before == {"none", "build", "mkdir", "copy", "remove", "login"}

\* Before the worker logs in the client's shell has not begun.
WorkerInv(b) ==
    /\ command[b].pc \in Before => host[b].pc = "none"
    /\ command[b].pc = "login" => "run" \notin files[b]
    /\ command[b].pc \in {"over", "hook"} /\ command[b].exit = "ok"
        => host[b].pc = "over" /\ host[b].exit = "ok"

\* What the client's shell has made, and what its steps and its status say of it.
HostInv(b) ==
    /\ host[b].pc # "none" => "run" \notin files[b]
    /\ "mount" \in files[b] => Mounts(b) /\ host[b].pc # "none"
    /\ host[b].pc = "mount" => Mounts(b)
    /\ host[b].pc = "create" /\ Mounts(b) => "mount" \in files[b]
    /\ host[b].pc \in {"clean", "over"} /\ host[b].said = "ok"
        => archive[b] = "whole" \/ (archive[b] = "stream" /\ command[b].piped)
    /\ host[b].pc = "over" /\ host[b].exit = "ok"
        => "dir" \notin files[b] /\ "env" \notin files[b]

RowInv(b) ==
    /\ row[b] = "waiting" => command[b].pc = "none"
    /\ row[b] = "successful" => command[b].pc = "hook" /\ command[b].exit = "ok"

ScriptInv == \A b \in Backup : WorkerInv(b) /\ HostInv(b) /\ RowInv(b)

-----------------------------------------------------------------------------
\* Types, one lemma for each group of actions.

LEMMA FileNames ==
  /\ "run" \in File /\ "display" \in File /\ "dir" \in File /\ "env" \in File
  /\ "mount" \in File
  BY DEF File

LEMMA Labels ==
  /\ "none" \in Label /\ "build" \in Label /\ "mkdir" \in Label /\ "copy" \in Label
  /\ "remove" \in Label /\ "login" \in Label /\ "wait" \in Label /\ "over" \in Label
  /\ "hook" \in Label /\ "done" \in Label
  /\ "ok" \in Exit /\ "failed" \in Exit /\ "canceled" \in Exit /\ "error" \in Exit
  /\ "raised" \in Exit
  BY DEF Label, Exit

LEMMA HostLabels ==
  /\ "none" \in HostLabel /\ "source" \in HostLabel /\ "mount" \in HostLabel
  /\ "create" \in HostLabel /\ "clean" \in HostLabel /\ "over" \in HostLabel
  /\ "gone" \in HostLabel
  BY DEF HostLabel

\* The script goes to another label, with another status.
LEMMA Goes ==
  ASSUME ScriptTypeOK, NEW b \in Backup, NEW pc \in Label, NEW exit \in Exit,
         \/ command' = [command EXCEPT ![b].pc = pc]
         \/ command' = [command EXCEPT ![b].pc = pc, ![b].exit = exit]
         \/ command' = command
  PROVE  command' \in [Backup -> [pc : Label, exit : Exit, piped : BOOLEAN,
                                  pull : BOOLEAN]]
<1> DEFINE Command == [pc : Label, exit : Exit, piped : BOOLEAN, pull : BOOLEAN]
<1>1. command \in [Backup -> Command]
  BY DEF ScriptTypeOK
<1>2. [command[b] EXCEPT !.pc = pc] \in Command
  BY <1>1
<1>3. [[command[b] EXCEPT !.pc = pc] EXCEPT !.exit = exit] \in Command
  BY <1>2
<1>4. ASSUME NEW c \in Command, command' = [command EXCEPT ![b] = c]
      PROVE  command' \in [Backup -> Command]
  BY <1>1, <1>4
<1>5. CASE command' = [command EXCEPT ![b].pc = pc]
  BY <1>2, <1>4, <1>5
<1>6. CASE command' = [command EXCEPT ![b].pc = pc, ![b].exit = exit]
  <2>1. command' = [command EXCEPT ![b] = [[command[b] EXCEPT !.pc = pc] EXCEPT !.exit = exit]]
    BY <1>1, <1>6
  <2> QED BY <1>3, <1>4, <2>1
<1> QED BY <1>1, <1>5, <1>6

LEMMA InitType == Init => TypeOK
  BY FaultsAssumption, FileNames, Labels, HostLabels
  DEF Init, TypeOK, ScriptTypeOK, MailTypeOK, Idle, NoReport

LEMMA CountType ==
  ASSUME TypeOK, Fault \/ Quiet
  PROVE  (faults \in 0 .. MaxFaults)'
  BY FaultsAssumption DEF TypeOK, Fault, Quiet

\* Worker and client write the script's variables, and count their faults.
LEMMA WorkerType ==
  ASSUME TypeOK, NEW b \in Backup,
         WorkerStep(b) \/ Cut(b)
  PROVE  ScriptTypeOK' /\ (Fault \/ Quiet)
<1> USE FileNames, Labels, HostLabels, Goes DEF TypeOK, ScriptTypeOK, Goto, AtWorker
<1>1. CASE BuildArgs(b)
  <2>1. Quiet /\ row' = row /\ host' = host /\ archive' = archive
        /\ (files' = files \/ files' = [files EXCEPT ![b] = {"run", "display"}])
    BY <1>1 DEF BuildArgs
  <2>2. PICK exit \in {"error", "raised"} :
          \/ command' = [command EXCEPT ![b].pc = "mkdir"]
          \/ command' = [command EXCEPT ![b].pc = "over", ![b].exit = exit]
    BY <1>1 DEF BuildArgs
  <2>3. command' \in [Backup -> [pc : Label, exit : Exit, piped : BOOLEAN,
                                pull : BOOLEAN]]
    BY <2>2
  <2>4. files' \in [Backup -> SUBSET File]
    <3>1. {"run", "display"} \in SUBSET File /\ files \in [Backup -> SUBSET File]
      OBVIOUS
    <3> HIDE Goes DEF TypeOK, ScriptTypeOK
    <3> QED BY <2>1, <3>1
  <2> QED BY <2>1, <2>3, <2>4
<1>2. CASE MakeRemoteDir(b)
  BY <1>2 DEF MakeRemoteDir
<1>3. CASE CopyEnvironment(b)
  BY <1>3 DEF CopyEnvironment
<1>4. CASE RemoveEnvironment(b)
  BY <1>4 DEF RemoveEnvironment
<1>5. CASE Login(b)
  BY <1>5 DEF Login
<1>6. CASE StepFails(b)
  BY <1>6 DEF StepFails
<1>7. CASE Cut(b)
  BY <1>7 DEF Cut
<1>8. CASE Reply(b)
  BY <1>8 DEF Reply
<1>9. CASE End(b)
  <2>1. \A exit \in Exit \ {"raised"} :
          Status[exit] \in {"successful", "failed", "canceled", "error"}
    BY DEF Exit, Status
  <2>2. PICK status \in {"successful", "failed", "canceled", "error"} :
          row' = [row EXCEPT ![b] = status]
    BY <1>9, <2>1 DEF End
  <2>3. \E pc \in Label : command' = [command EXCEPT ![b].pc = pc]
    BY <1>9 DEF End
  <2>4. command' \in [Backup -> [pc : Label, exit : Exit, piped : BOOLEAN,
                                pull : BOOLEAN]]
    BY <2>3
  <2> QED BY <1>9, <2>2, <2>4 DEF End
<1>10. CASE FinalHook(b)
  BY <1>10 DEF FinalHook, script
<1> QED
  BY <1>1, <1>2, <1>3, <1>4, <1>5, <1>6, <1>7, <1>8, <1>9, <1>10 DEF WorkerStep

LEMMA HostType ==
  ASSUME TypeOK, NEW b \in Backup,
         HostStep(b) \/ Hangup(b)
  PROVE  ScriptTypeOK' /\ (Fault \/ Quiet)
<1> USE FileNames, HostLabels DEF TypeOK, ScriptTypeOK
<1>1. CASE Source(b)
  BY <1>1 DEF Source
<1>2. CASE Mount(b)
  BY <1>2 DEF Mount
<1>3. CASE BorgCreate(b)
  <2>1. PICK said \in {"ok", "failed"}, held \in {"whole", "stream", "part"} :
          /\ host' = [host EXCEPT ![b].pc = "clean", ![b].said = said]
          /\ archive' = [archive EXCEPT ![b] = held]
    BY <1>3 DEF BorgCreate, Read
  <2>2. archive' \in [Backup -> {"none", "whole", "stream", "part"}]
    BY <2>1
  <2>3. host' \in [Backup -> [pc : HostLabel, said : {"ok", "failed"},
                              exit : {"ok", "failed"}]]
    BY <2>1
  <2> QED BY <1>3, <2>2, <2>3 DEF BorgCreate
<1>4. CASE HostFails(b)
  <2>1. PICK broken \in Broken(b) : host' = [host EXCEPT ![b] = broken]
    BY <1>4 DEF HostFails
  <2>2. broken \in [pc : HostLabel, said : {"ok", "failed"}, exit : {"ok", "failed"}]
    BY <2>1 DEF Broken
  <2> QED BY <1>4, <2>1, <2>2 DEF HostFails
<1>5. CASE RemoveRemoteDir(b)
  <2>1. PICK exit \in {"ok", "failed"} :
          host' = [host EXCEPT ![b].pc = "over", ![b].exit = exit]
    BY <1>5 DEF RemoveRemoteDir
  <2>2. host' \in [Backup -> [pc : HostLabel, said : {"ok", "failed"},
                              exit : {"ok", "failed"}]]
    BY <2>1
  <2>3. files' \in [Backup -> SUBSET File]
    BY <1>5 DEF RemoveRemoteDir
  <2> QED BY <1>5, <2>2, <2>3 DEF RemoveRemoteDir
<1>6. CASE Hangup(b)
  BY <1>6 DEF Hangup
<1> QED BY <1>1, <1>2, <1>3, <1>4, <1>5, <1>6 DEF HostStep

\* The steps of the script that write mail variables too.
LEMMA BackupType ==
  ASSUME TypeOK, NEW b \in Backup,
         Start(b) \/ WorkerStep(b) \/ Cut(b) \/ HostStep(b) \/ Hangup(b)
  PROVE  TypeOK'
<1>1. CASE Start(b)
  <2>1. PICK piped \in BOOLEAN, pull \in BOOLEAN :
          command' = [command EXCEPT ![b] = [pc |-> "build", exit |-> "ok",
                                             piped |-> piped, pull |-> pull]]
    BY <1>1 DEF Start
  <2>2. command' \in [Backup -> [pc : Label, exit : Exit, piped : BOOLEAN,
                                pull : BOOLEAN]]
    BY <2>1, Labels DEF TypeOK, ScriptTypeOK
  <2>3. ScriptTypeOK'
    BY <1>1, <2>2 DEF TypeOK, ScriptTypeOK, Start
  <2>4. MailTypeOK'
    BY <1>1 DEF TypeOK, MailTypeOK, Start
  <2> QED BY <1>1, <2>3, <2>4, CountType DEF TypeOK, Start
<1>2. CASE WorkerStep(b) \/ Cut(b) \/ HostStep(b) \/ Hangup(b)
  <2>1. ScriptTypeOK' /\ (Fault \/ Quiet)
    BY <1>2, WorkerType, HostType
  <2>2. FinalHook(b) \/ UNCHANGED mail
    BY <1>2
    DEF WorkerStep, HostStep, BuildArgs, MakeRemoteDir, CopyEnvironment,
        RemoveEnvironment, Login, StepFails, Cut, Reply, End, Source, Mount,
        BorgCreate, HostFails, RemoveRemoteDir, Hangup
  <2>3. MailTypeOK'
    BY <2>2 DEF TypeOK, MailTypeOK, FinalHook, mail
  <2> QED BY <2>1, <2>3, CountType DEF TypeOK
<1> QED BY <1>1, <1>2

LEMMA MailType ==
  ASSUME TypeOK,
         \/ \E b \in Backup : MailAfter(b) \/ DayPasses(b) \/ RemoveRow(b)
         \/ BuildReport \/ SendDaily \/ BeatDaily
  PROVE  TypeOK'
<1>1. Fault \/ Quiet
  BY DEF MailAfter, ReadBackup, SendAfter, DayPasses, RemoveRow, BuildReport,
         SendDaily, BeatDaily
<1>2. ScriptTypeOK'
  <2>1. CASE UNCHANGED script
    BY <2>1 DEF TypeOK, ScriptTypeOK, script
  <2>2. ASSUME NEW b \in Backup, RemoveRow(b) PROVE ScriptTypeOK'
    BY <2>2 DEF TypeOK, ScriptTypeOK, RemoveRow
  <2> QED
    BY <2>1, <2>2
    DEF MailAfter, ReadBackup, SendAfter, DayPasses, BuildReport, SendDaily, BeatDaily
<1>3. MailTypeOK'
  <2> USE DEF TypeOK, MailTypeOK
  <2>1. ASSUME NEW b \in Backup, ReadBackup(b) PROVE MailTypeOK'
    BY <2>1 DEF ReadBackup, Asking, User
  <2>2. ASSUME NEW b \in Backup, SendAfter(b) PROVE MailTypeOK'
    <3>1. PICK u \in after[b].left : TRUE
      BY <2>2 DEF SendAfter
    <3>2. ASSUME NEW v \in after[b].left
          PROVE  <<v, "after", b>> \in User \X {"after", "daily"} \X Backup
      OBVIOUS
    <3>3. <<"after", b>> \in {"after", "daily"} \X Backup
      OBVIOUS
    <3> QED BY <2>2, <3>2, <3>3 DEF SendAfter
  <2>3. ASSUME NEW b \in Backup, DayPasses(b) PROVE MailTypeOK'
    BY <2>3 DEF DayPasses
  <2>4. ASSUME NEW b \in Backup, RemoveRow(b) PROVE MailTypeOK'
    BY <2>4 DEF RemoveRow, mail
  <2>5. CASE BuildReport
    BY <2>5 DEF BuildReport, Listed, User
  <2>6. CASE SendDaily
    <3>1. PICK u \in daily.left :
            \/ /\ daily' = [daily EXCEPT !.left = daily.left \ {u},
                        !.lines = IF daily.left \ {u} = {} THEN {} ELSE daily.lines]
               /\ mailed' = mailed \cup {<<u, "daily", b>> : b \in daily.lines}
               /\ UNCHANGED dropped
            \/ /\ daily' = [NoReport EXCEPT !.queued = daily.queued]
               /\ dropped' = dropped \cup {<<"daily", b>> : b \in daily.lines}
               /\ UNCHANGED mailed
      BY <2>6 DEF SendDaily
    <3>2. daily.left \subseteq User /\ daily.lines \subseteq Backup
          /\ daily.queued \in BOOLEAN
      OBVIOUS
    <3>3. daily' \in [queued : BOOLEAN, left : SUBSET User, lines : SUBSET Backup]
      <4>1. CASE daily' = [NoReport EXCEPT !.queued = daily.queued]
        BY <3>2, <4>1 DEF NoReport
      <4>2. ASSUME NEW rest \in SUBSET User, NEW lines \in SUBSET Backup,
                   daily' = [daily EXCEPT !.left = rest, !.lines = lines]
            PROVE  daily' \in [queued : BOOLEAN, left : SUBSET User,
                              lines : SUBSET Backup]
        BY <4>2
      <4> QED BY <3>1, <3>2, <4>1, <4>2
    <3>4. mailed' \subseteq User \X {"after", "daily"} \X Backup
      <4>1. {<<u, "daily", b>> : b \in daily.lines}
              \subseteq User \X {"after", "daily"} \X Backup
        BY <3>2
      <4> QED BY <3>1, <4>1
    <3>5. dropped' \subseteq {"after", "daily"} \X Backup
      <4>1. {<<"daily", b>> : b \in daily.lines} \subseteq {"after", "daily"} \X Backup
        BY <3>2
      <4> QED BY <3>1, <4>1
    <3> QED BY <2>6, <3>3, <3>4, <3>5 DEF SendDaily
  <2>7. CASE BeatDaily
    BY <2>7 DEF BeatDaily
  <2> QED BY <2>1, <2>2, <2>3, <2>4, <2>5, <2>6, <2>7 DEF MailAfter
<1> QED BY <1>1, <1>2, <1>3, CountType DEF TypeOK

\* Every variable keeps its type, in every behaviour, for any number of backups and
\* recipients and however often steps fail (the script of builders/backup.py and
\* the mails of shared.py).
THEOREM TypeCorrect == Spec => []TypeOK
<1>1. TypeOK /\ [Next]_vars => TypeOK'
  <2> SUFFICES ASSUME TypeOK, [Next]_vars PROVE TypeOK'
    OBVIOUS
  <2>1. CASE UNCHANGED vars
    BY <2>1 DEF TypeOK, ScriptTypeOK, MailTypeOK, vars, script, mail
  <2>2. CASE Next
    BY <2>2, BackupType, MailType DEF Next
  <2> QED BY <2>1, <2>2
<1> QED BY InitType, <1>1, PTL DEF Spec

-----------------------------------------------------------------------------
\* What a successful row says of the hosts.

LEMMA InitScript == Init => ScriptInv
<1> SUFFICES ASSUME Init, NEW b \in Backup
             PROVE  WorkerInv(b) /\ HostInv(b) /\ RowInv(b)
  BY DEF ScriptInv
<1>1. command[b].pc = "none" /\ host[b].pc = "none" /\ files[b] = {}
      /\ row[b] = "waiting"
  BY DEF Init
<1> QED BY <1>1 DEF WorkerInv, HostInv, RowInv

\* The variables of the script, of all backups but one, stay as they are.
Others(b) ==
    \A d \in Backup \ {b} :
        /\ row'[d] = row[d] /\ command'[d] = command[d] /\ host'[d] = host[d]
        /\ files'[d] = files[d] /\ archive'[d] = archive[d]

LEMMA OtherScripts ==
  ASSUME ScriptInv, NEW b \in Backup, Others(b),
         WorkerInv(b)', HostInv(b)', RowInv(b)'
  PROVE  ScriptInv'
<1> SUFFICES ASSUME NEW d \in Backup \ {b}
             PROVE  WorkerInv(d)' /\ HostInv(d)' /\ RowInv(d)'
  BY DEF ScriptInv
<1> QED
  BY DEF ScriptInv, Others, WorkerInv, HostInv, RowInv, Mounts

LEMMA WorkerScript ==
  ASSUME TypeOK, ScriptInv, NEW b \in Backup,
         Start(b) \/ WorkerStep(b) \/ Cut(b)
  PROVE  ScriptInv'
<1> USE DEF TypeOK, ScriptTypeOK, WorkerInv, HostInv, RowInv, Mounts, Others,
            AtWorker, Goto, Before
<1>0. WorkerInv(b) /\ HostInv(b) /\ RowInv(b)
  BY DEF ScriptInv
<1> SUFFICES WorkerInv(b)' /\ HostInv(b)' /\ RowInv(b)' /\ Others(b)
  BY OtherScripts
<1>1. CASE Start(b)
  <2>1. /\ row'[b] = "running" /\ row[b] = "waiting" /\ command'[b].pc = "build"
        /\ UNCHANGED <<host, files, archive>> /\ Others(b)
    BY <1>1 DEF Start
  <2>2. host[b].pc = "none"
    BY <1>0, <2>1
  <2>3. "mount" \notin files[b]
    BY <1>0, <2>2
  <2> QED BY <1>0, <2>1, <2>2, <2>3
<1>2. CASE BuildArgs(b)
  <2>1. /\ command[b].pc = "build" /\ UNCHANGED <<row, host, archive>> /\ Others(b)
        /\ command'[b].pc \in {"mkdir", "over"}
        /\ command'[b].pc = "over" => command'[b].exit # "ok"
        /\ command'[b].piped = command[b].piped /\ command'[b].pull = command[b].pull
        /\ files'[b] = files[b] \/ files'[b] = {"run", "display"}
    BY <1>2 DEF BuildArgs
  <2>2. host[b].pc = "none" /\ row[b] # "waiting" /\ row[b] # "successful"
    BY <1>0, <2>1
  <2>3. "mount" \notin files'[b]
    BY <1>0, <2>1, <2>2
  <2> QED BY <1>0, <2>1, <2>2, <2>3
<1>3. CASE MakeRemoteDir(b)
  BY <1>0, <1>3 DEF MakeRemoteDir
<1>4. CASE CopyEnvironment(b)
  BY <1>0, <1>4 DEF CopyEnvironment
<1>5. CASE RemoveEnvironment(b)
  BY <1>0, <1>5 DEF RemoveEnvironment
<1>6. CASE Login(b)
  BY <1>0, <1>6 DEF Login
<1>7. CASE StepFails(b)
  BY <1>0, <1>7 DEF StepFails
<1>8. CASE Cut(b)
  BY <1>0, <1>8 DEF Cut
<1>9. CASE Reply(b)
  BY <1>0, <1>9 DEF Reply
<1>10. CASE End(b)
  <2>1. command[b].exit = "raised"
          \/ (command[b].exit # "ok" => row'[b] # "successful")
    <3>1. \A exit \in Exit \ {"ok", "raised"} : Status[exit] # "successful"
      BY DEF Exit, Status
    <3>2. command[b].exit \in Exit /\ "canceled" \in Exit
      BY Labels
    <3>3. ASSUME command[b].exit # "raised"
          PROVE  \E exit \in {command[b].exit, "canceled"} : row'[b] = Status[exit]
      BY <1>10, <3>3 DEF End
    <3> QED BY <3>1, <3>2, <3>3
  <2>2. /\ host' = host /\ files' = files /\ archive' = archive /\ Others(b)
        /\ row[b] = "running" /\ row'[b] # "waiting"
        /\ command[b].pc = "over" /\ command'[b].exit = command[b].exit
        /\ command'[b].piped = command[b].piped /\ command'[b].pull = command[b].pull
        /\ \/ command'[b].pc = "hook"
           \/ command'[b].pc = "done" /\ row'[b] = "failed"
    <3>1. \A exit \in Exit \ {"raised"} : Status[exit] # "waiting"
      BY DEF Exit, Status
    <3>2. command[b].exit \in Exit /\ "canceled" \in Exit
      BY Labels
    <3> QED BY <1>10, <3>1, <3>2 DEF End
  <2> QED BY <1>0, <1>10, <2>1, <2>2 DEF End
<1>11. CASE FinalHook(b)
  BY <1>0, <1>11 DEF FinalHook, script
<1> QED
  BY <1>1, <1>2, <1>3, <1>4, <1>5, <1>6, <1>7, <1>8, <1>9, <1>10, <1>11
  DEF WorkerStep

LEMMA HostScript ==
  ASSUME TypeOK, ScriptInv, NEW b \in Backup,
         HostStep(b) \/ Hangup(b)
  PROVE  ScriptInv'
<1> USE DEF TypeOK, ScriptTypeOK, WorkerInv, HostInv, RowInv, Mounts, Others,
            AtWorker, Before
<1>0. WorkerInv(b) /\ HostInv(b) /\ RowInv(b)
  BY DEF ScriptInv
<1> SUFFICES WorkerInv(b)' /\ HostInv(b)' /\ RowInv(b)' /\ Others(b)
  BY OtherScripts
<1>1. CASE Source(b)
  BY <1>0, <1>1 DEF Source
<1>2. CASE Mount(b)
  <2>1. Mounts(b) /\ "mount" \in files'[b]
    BY <1>0, <1>2 DEF Mount
  <2> QED BY <1>0, <1>2, <2>1 DEF Mount
<1>3. CASE BorgCreate(b)
  BY <1>0, <1>3 DEF BorgCreate, Read
<1>4. CASE HostFails(b)
  <2>1. PICK broken \in Broken(b) : host' = [host EXCEPT ![b] = broken]
    BY <1>4 DEF HostFails
  <2>2. /\ broken.said = "failed"
        /\ broken.pc = "clean" \/ (broken.pc = "over" /\ broken.exit = "failed")
    BY <2>1 DEF Broken
  <2>3. host[b].pc \in {"source", "mount", "create"}
        /\ UNCHANGED <<row, command, files, archive>>
    BY <1>4 DEF HostFails
  <2> QED BY <1>0, <2>1, <2>2, <2>3
<1>5. CASE RemoveRemoteDir(b)
  BY <1>0, <1>5 DEF RemoveRemoteDir
<1>6. CASE Hangup(b)
  BY <1>0, <1>6 DEF Hangup
<1> QED BY <1>1, <1>2, <1>3, <1>4, <1>5, <1>6 DEF HostStep

\* Mails leave the script alone; a removed row says nothing any more.
LEMMA MailScript ==
  ASSUME TypeOK, ScriptInv,
         \/ \E b \in Backup : MailAfter(b) \/ DayPasses(b) \/ RemoveRow(b)
         \/ BuildReport \/ SendDaily \/ BeatDaily \/ UNCHANGED vars
  PROVE  ScriptInv'
<1> USE DEF ScriptInv, WorkerInv, HostInv, RowInv, Mounts
<1>1. CASE UNCHANGED script
  BY <1>1 DEF script
<1>2. ASSUME NEW b \in Backup, RemoveRow(b) PROVE ScriptInv'
  BY <1>2 DEF RemoveRow, TypeOK, ScriptTypeOK
<1> QED
  BY <1>1, <1>2
  DEF MailAfter, ReadBackup, SendAfter, DayPasses, BuildReport, SendDaily, BeatDaily,
      vars

\* A backup whose row says successful has run its shell on the client to the end and
\* cleaned up there, whichever connections were cut or shells went on without them;
\* unless a step on the client failed, which the row cannot tell (the expanded `$?`
\* of builders/backup.py:281), it has archived all it was to read.
THEOREM SuccessfulRuns == Spec => []SuccessRanToTheEnd
<1>1. TypeOK /\ ScriptInv /\ [Next]_vars => ScriptInv'
  BY WorkerScript, HostScript, MailScript DEF Next
<1>2. TypeOK /\ ScriptInv => SuccessRanToTheEnd
  <2> SUFFICES ASSUME TypeOK, ScriptInv, NEW b \in Backup, row[b] = "successful"
               PROVE  /\ host[b].pc = "over"
                      /\ files[b] \subseteq
                            {"display"} \cup (IF Mounts(b) THEN {"mount"} ELSE {})
                      /\ host[b].said = "ok" =>
                            archive[b] = "whole"
                              \/ (archive[b] = "stream" /\ command[b].piped)
    BY DEF SuccessRanToTheEnd
  <2>1. host[b].pc = "over" /\ host[b].exit = "ok"
    BY DEF ScriptInv, RowInv, WorkerInv
  <2>2. files[b] \subseteq File /\ "run" \notin files[b] /\ "dir" \notin files[b]
        /\ "env" \notin files[b] /\ ("mount" \in files[b] => Mounts(b))
    BY <2>1 DEF TypeOK, ScriptTypeOK, ScriptInv, HostInv
  <2>3. host[b].said = "ok" =>
          archive[b] = "whole" \/ (archive[b] = "stream" /\ command[b].piped)
    BY <2>1 DEF ScriptInv, HostInv
  <2> QED BY <2>1, <2>2, <2>3 DEF File
<1> QED BY InitScript, TypeCorrect, <1>1, <1>2, PTL DEF Spec
=============================================================================
