----------------------------- MODULE JobStartup -----------------------------
(***************************************************************************)
(* What BaseTask.run does between "running" and the borg command (see      *)
(* JobOutput for what follows): it writes the SSH key of the settings into *)
(* a named pipe of a private directory, from a thread of its own, reads    *)
(* the passphrase, builds the command line and the environment, starts     *)
(* ssh-agent with ssh-add, rm and the command, answers the prompt, and     *)
(* removes the directory twice: in its `finally` and in with_path_cleanup. *)
(* Three more places start commands this way, each in its own order and    *)
(* with less care for the directory: Querier._run, which a web request     *)
(* waits for, and launch_command of cleanup_jobs and of rebuild_catalog.   *)
(* Beside them users change the two settings: a generated key              *)
(* (SettingGenerateSsh, two saves), a key and a passphrase of their own    *)
(* (two requests), saves of a row that was read before (a request that     *)
(* names no value, rebuild_settings).                                      *)
(*                                                                         *)
(* A supplied key is locked with a passphrase, which has its name; those   *)
(* of ssh-keygen -N '' are not.                                            *)
(***************************************************************************)
EXTENDS Naturals

CONSTANTS
    Job,        \* what starts a command: jobs, queries, commands
    Generated, Supplied, \* keys that requests make and that users have
    Request,    \* requests to generate a key
    None

ASSUME StartupAssumption ==
    /\ Generated \cap Supplied = {} /\ None \notin Generated \cup Supplied

VARIABLES
    setting,    \* the rows cyborgbackup_ssh_key and cyborgbackup_ssh_password
    generate,   \* the requests to generate a key
    upload,     \* the key whose passphrase its user has still to send
    resave,     \* a row read by a request that will save it as it was
    used,       \* keys that were stored
    kind,       \* what each of them is
    pc,         \* where it is
    key, password, \* what it has read
    dir, place, \* its private directory, and what bears the key's name in it
    writer,     \* the thread of open_fifo_write
    child,      \* the command spawned
    crossed,    \* history: requests on the settings overlapped
    mixed       \* history: jobs that read the settings half changed
Settings == <<setting, generate, upload, resave, used, crossed>>
vars == <<Settings, kind, pc, key, password, dir, place, writer, child, mixed>>

Kind == {"job", "query", "listing", "rebuild"}
Key == Generated \cup Supplied
\* A value: the key or passphrase it says, and how often it is encrypted.
Value == [of : Key \cup {None}, layers : 0 .. 1]
Empty == [of |-> None, layers |-> 0]
Clear(k) == [of |-> k, layers |-> 0]
Name == {"key", "password"}
NoRequest == [pc |-> "idle", key |-> None, password |-> Empty]
NoResave == [name |-> None, value |-> Empty]

Init ==
    /\ setting = [n \in Name |-> Empty]
    /\ generate = [r \in Request |-> NoRequest]
    /\ upload = None /\ resave = NoResave /\ used = {}
    /\ kind \in [Job -> Kind]
    /\ pc = [j \in Job |-> "begin"]
    /\ key = [j \in Job |-> Empty] /\ password = [j \in Job |-> Empty]
    /\ dir = [j \in Job |-> FALSE] /\ place = [j \in Job |-> "none"]
    /\ writer = [j \in Job |-> "none"] /\ child = [j \in Job |-> "none"]
    /\ crossed = FALSE /\ mixed = {}

Pc == {"begin", "data", "passwords", "build", "spawn", "expect",
       "list", "unlink", "rmdir", "list_again", "unlink_again", "rmdir_again", "over"}
TypeOK ==
    /\ setting \in [Name -> Value]
    /\ generate \in [Request -> [pc : {"idle", "key", "password", "answered"},
                                 key : Key \cup {None}, password : Value]]
    /\ upload \in Supplied \cup {None}
    /\ resave \in [name : Name, value : Value] \cup {NoResave}
    /\ used \subseteq Key /\ mixed \subseteq Job
    /\ crossed \in BOOLEAN
    /\ kind \in [Job -> Kind] /\ pc \in [Job -> Pc]
    /\ key \in [Job -> Value] /\ password \in [Job -> Value]
    /\ dir \in [Job -> BOOLEAN]
    /\ place \in [Job -> {"none", "pipe", "file"}]
    /\ writer \in [Job -> {"none", "starting", "blocked", "done"}]
    /\ child \in [Job -> {"none", "adding", "prompt", "added", "exited", "killed"}]

-----------------------------------------------------------------------------
(* The order of the steps: where each of them leads, and where an          *)
(* exception does.                                                         *)

JobOrder == [begin |-> "data", data |-> "passwords", passwords |-> "build",
             build |-> "spawn", spawn |-> "expect", expect |-> "list",
             rmdir |-> "list_again", raise |-> "list"]
\* The passphrase is read first; one rmtree, when nothing was raised.
QueryOrder == [begin |-> "passwords", passwords |-> "data", data |-> "spawn",
               spawn |-> "expect", expect |-> "list", rmdir |-> "over",
               raise |-> "over"]
ListingOrder == [begin |-> "data", data |-> "passwords", passwords |-> "spawn",
                 spawn |-> "expect", expect |-> "list", rmdir |-> "over",
                 raise |-> "over"]
\* Its directory is never removed.
RebuildOrder == [begin |-> "data", data |-> "passwords", passwords |-> "spawn",
                 spawn |-> "expect", expect |-> "over", raise |-> "over"]
Order == [job |-> JobOrder, query |-> QueryOrder, listing |-> ListingOrder,
          rebuild |-> RebuildOrder]
\* Mutant: run is not wrapped in with_path_cleanup.
AfterUnwrapped(j, label) ==
    IF label = "rmdir" THEN "over" ELSE Order[kind[j]][label]
After(j, label) == Order[kind[j]][label]

\* Between the queries for the key and for the passphrase.
HalfRead(j) == pc[j] = IF kind[j] = "query" THEN "data" ELSE "passwords"

-----------------------------------------------------------------------------
(* The settings.                                                           *)

\* Mutant: whether it is encrypted already or not.
EncryptAgain(v) == [v EXCEPT !.layers = @ + 1]
\* encrypt_field: what begins with $encrypted$ stays as it is.
Encrypt(v) == IF v.of = None \/ v.layers > 0 THEN v ELSE [v EXCEPT !.layers = 1]
Decrypt(v) == IF v.layers = 0 THEN v ELSE [v EXCEPT !.layers = @ - 1]

\* Setting.save; jobs that are between their two queries may get halves.
Save(n, v) ==
    /\ setting' = [setting EXCEPT ![n] = Encrypt(v)]
    /\ mixed' = mixed \cup {j \in Job : HalfRead(j)}

InProgress ==
    \/ \E r \in Request : generate[r].pc \in {"key", "password"}
    \/ upload # None \/ resave # NoResave
Begins == crossed' = (crossed \/ InProgress)

JobState == <<kind, pc, key, password, dir, place, writer, child>>

\* SettingGenerateSsh.create: 409 without force when there is a key.
BeginGenerate(r) ==
    /\ generate[r].pc = "idle"
    /\ \E k \in Generated \ used :
          /\ used' = used \cup {k}
          /\ generate' = [generate EXCEPT ![r] = [pc |-> "key", key |-> k,
                                                  password |-> setting["password"]]]
    /\ Begins
    /\ UNCHANGED <<setting, upload, resave, mixed, JobState>>

SaveGeneratedKey(r) ==
    /\ generate[r].pc = "key"
    /\ Save("key", Clear(generate[r].key))
    /\ generate' = [generate EXCEPT ![r].pc = "password"]
    /\ UNCHANGED <<upload, resave, used, crossed, JobState>>

\* A passphrase there was is passed on as it is stored; or it is a random one.
Passphrase(r) == IF generate[r].password = Empty THEN Clear(generate[r].key)
                 ELSE generate[r].password
SavePassphrase(r) ==
    /\ generate[r].pc = "password"
    /\ Save("password", Passphrase(r))
    /\ generate' = [generate EXCEPT ![r].pc = "answered"]
    /\ UNCHANGED <<upload, resave, used, crossed, JobState>>

\* SettingDetail, with a value: the key, then its passphrase.
UploadKey(k) ==
    /\ upload = None /\ k \notin used
    /\ Save("key", Clear(k))
    /\ upload' = k /\ used' = used \cup {k}
    /\ Begins
    /\ UNCHANGED <<generate, resave, JobState>>

UploadPassphrase ==
    /\ upload # None
    /\ Save("password", Clear(upload))
    /\ upload' = None
    /\ UNCHANGED <<generate, resave, used, crossed, JobState>>

\* A whole row is read and saved, with the value it had.
ReadRow(n) ==
    /\ resave = NoResave
    /\ resave' = [name |-> n, value |-> setting[n]]
    /\ Begins
    /\ UNCHANGED <<setting, generate, upload, used, mixed, JobState>>
SaveRow ==
    /\ resave # NoResave
    /\ Save(resave.name, resave.value)
    /\ resave' = NoResave
    /\ UNCHANGED <<generate, upload, used, crossed, JobState>>

-----------------------------------------------------------------------------
(* A job starts.                                                           *)

Goto(j, label) == kind' = kind /\ pc' = [pc EXCEPT ![j] = label]
HalfChanged(j) ==
    mixed' = IF upload # None \/ crossed THEN mixed \cup {j} ELSE mixed

\* build_private_data_dir
MakeDir(j) ==
    /\ pc[j] = "begin" /\ Goto(j, After(j, "begin"))
    /\ dir' = [dir EXCEPT ![j] = TRUE]
    /\ UNCHANGED <<Settings, key, password, place, writer, child, mixed>>

\* Mutant: Thread(...) without start().
NotStarted == "none"
ThreadStarted == "starting"
\* build_private_data_files, open_fifo_write
WriteKey(j) ==
    /\ pc[j] = "data" /\ Goto(j, After(j, "data"))
    /\ key' = [key EXCEPT ![j] = Decrypt(setting["key"])]
    /\ place' = [place EXCEPT ![j] = "pipe"]
    /\ writer' = [writer EXCEPT ![j] = ThreadStarted]
    /\ HalfChanged(j)
    /\ UNCHANGED <<Settings, password, dir, child>>

\* open(p, 'w') makes a file where there is no pipe any more, but a directory.
Open(j) ==
    /\ writer[j] = "starting"
    /\ writer' = [writer EXCEPT ![j] = IF place[j] = "pipe" THEN "blocked" ELSE "done"]
    /\ place' = [place EXCEPT ![j] = IF @ = "none" /\ dir[j] THEN "file" ELSE @]
    /\ UNCHANGED <<Settings, kind, pc, key, password, dir, child, mixed>>

BuildPasswords(j) ==
    /\ pc[j] = "passwords" /\ Goto(j, After(j, "passwords"))
    /\ password' = [password EXCEPT ![j] = Decrypt(setting["password"])]
    /\ HalfChanged(j)
    /\ UNCHANGED <<Settings, key, dir, place, writer, child>>

Build(j) ==
    /\ pc[j] = "build" /\ Goto(j, After(j, "build"))
    /\ UNCHANGED <<Settings, key, password, dir, place, writer, child, mixed>>

\* A query of the database fails; or, in build_args and build_env, what the job's
\* type needs is not there, or another job makes the user of the agents.
Raise(j) ==
    /\ pc[j] \in {"data", "passwords", "build"} /\ Goto(j, After(j, "raise"))
    /\ UNCHANGED <<Settings, key, password, dir, place, writer, child, mixed>>

\* Mutant: rm before ssh-add.
LeftBefore(j) == "none"
LeftForAgent(j) == place[j]
\* wrap_args_with_ssh_agent, pexpect.spawn
Spawn(j) ==
    /\ pc[j] = "spawn" /\ Goto(j, After(j, "spawn"))
    /\ child' = [child EXCEPT ![j] = "adding"]
    /\ place' = [place EXCEPT ![j] = LeftForAgent(j)]
    /\ UNCHANGED <<Settings, key, password, dir, writer, mixed>>

\* ssh-add reads the pipe and frees the thread; what is no key ends the chain.
AddKey(j) ==
    /\ child[j] = "adding" /\ (writer[j] = "blocked" \/ place[j] = "none")
    /\ writer' = [writer EXCEPT ![j] = IF place[j] = "pipe" THEN "done" ELSE @]
    /\ child' = [child EXCEPT ![j] =
          IF place[j] = "none" \/ key[j].of = None \/ key[j].layers > 0 THEN "exited"
          ELSE IF key[j].of \in Supplied THEN "prompt" ELSE "added"]
    /\ UNCHANGED <<Settings, kind, pc, key, password, dir, place, mixed>>

\* An empty answer is never sent, nor is one to "Bad passphrase, try again".
Opens(j) == password[j] = key[j]
Answer(j) ==
    /\ pc[j] = "expect" /\ child[j] = "prompt" /\ Opens(j)
    /\ child' = [child EXCEPT ![j] = "added"]
    /\ UNCHANGED <<Settings, kind, pc, key, password, dir, place, writer, mixed>>

\* rm -f, and the command.
RunCommand(j) ==
    /\ child[j] = "added"
    /\ child' = [child EXCEPT ![j] = "exited"]
    /\ place' = [place EXCEPT ![j] = "none"]
    /\ UNCHANGED <<Settings, kind, pc, key, password, dir, writer, mixed>>

\* A user cancels the job, or the timeout of the query comes; the others have none.
Terminate(j) ==
    /\ kind[j] \in {"job", "query"}
    /\ pc[j] = "expect" /\ child[j] \notin {"exited", "killed"}
    /\ child' = [child EXCEPT ![j] = "killed"]
    /\ UNCHANGED <<Settings, kind, pc, key, password, dir, place, writer, mixed>>

RunEnds(j) ==
    /\ pc[j] = "expect" /\ child[j] \in {"exited", "killed"} /\ Goto(j, After(j, "expect"))
    /\ UNCHANGED <<Settings, key, password, dir, place, writer, child, mixed>>

\* shutil.rmtree: the names are listed before the first is unlinked.
Cleanup == <<Settings, key, password, writer, child, mixed>>
List(j) ==
    /\ \/ pc[j] = "list"
          /\ Goto(j, IF place[j] = "none" THEN "rmdir" ELSE "unlink")
       \/ pc[j] = "list_again"
          /\ Goto(j, IF ~dir[j] THEN "over"
                     ELSE IF place[j] = "none" THEN "rmdir_again" ELSE "unlink_again")
    /\ UNCHANGED <<dir, place, Cleanup>>
Unlink(j) ==
    /\ \/ pc[j] = "unlink" /\ Goto(j, "rmdir")
       \/ pc[j] = "unlink_again" /\ Goto(j, "rmdir_again")
    /\ place' = [place EXCEPT ![j] = "none"]
    /\ UNCHANGED <<dir, Cleanup>>
\* A directory that is not empty stays: the exception is logged, or ends the rest.
RemoveDir(j) ==
    /\ \/ pc[j] = "rmdir" /\ Goto(j, After(j, "rmdir"))
       \/ pc[j] = "rmdir_again" /\ Goto(j, "over")
    /\ dir' = [dir EXCEPT ![j] = place[j] # "none"]
    /\ UNCHANGED <<place, Cleanup>>

-----------------------------------------------------------------------------
RunStep(j) ==
    \/ MakeDir(j) \/ WriteKey(j) \/ BuildPasswords(j) \/ Build(j) \/ Raise(j)
    \/ Spawn(j) \/ Answer(j) \/ RunEnds(j)
    \/ List(j) \/ Unlink(j) \/ RemoveDir(j)
ChildStep(j) == AddKey(j) \/ RunCommand(j)
SettingStep ==
    \/ \E r \in Request : BeginGenerate(r) \/ SaveGeneratedKey(r) \/ SavePassphrase(r)
    \/ \E k \in Supplied : UploadKey(k)
    \/ UploadPassphrase
    \/ \E n \in Name : ReadRow(n)
    \/ SaveRow
Next ==
    \/ \E j \in Job : RunStep(j) \/ Open(j) \/ ChildStep(j) \/ Terminate(j)
    \/ SettingStep

Spec == Init /\ [][Next]_vars

\* Workers, threads and commands go on, and time passes; users need do nothing.
Fairness == \A j \in Job :
    /\ WF_vars(RunStep(j)) /\ WF_vars(Open(j)) /\ WF_vars(ChildStep(j))
    /\ WF_vars(kind[j] = "query" /\ Terminate(j))
FairSpec == Spec /\ Fairness
-----------------------------------------------------------------------------
\* The job waits for ever at the prompt: nothing more will be sent.
Hung(j) == pc[j] = "expect" /\ child[j] = "prompt" /\ ~Opens(j)

\* When a job is over its private directory is gone, and the key has not been
\* left in a file of it, however late its thread opened the pipe.  The others
\* leave no key when their command came to its end, and only rebuild_catalog
\* leaves the directory, with no more than the pipe.
NothingIsLeft ==
    \A j \in Job : pc[j] = "over" /\ (kind[j] = "job" \/ child[j] = "exited") =>
        /\ place[j] # "file"
        /\ dir[j] \/ place[j] # "none" => kind[j] = "rebuild"

\* A command that came to its end has read the key: its thread is not left
\* blocked.  (It is when something raises or the command is terminated.)
ReadPipesAreFreed ==
    \A j \in Job : pc[j] = "over" /\ child[j] = "exited" => writer[j] = "done"

\* A job hangs at the prompt for a passphrase only if it read the settings while
\* a user was changing them or after requests had overlapped; saves one after the
\* other leave a key with its passphrase, encrypted once.
HangsOnlyOnMixedPair == \A j \in Job : Hung(j) => j \in mixed

\* What has begun gets through to its end, whatever raises, unless it hangs, and a
\* query even then: the thread, the agent and the worker do not wait for each
\* other.
StartupEnds ==
    \A j \in Job :
        pc[j] # "begin" ~> pc[j] = "over" \/ (kind[j] # "query" /\ Hung(j))
=============================================================================
