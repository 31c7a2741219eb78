-------------------------- MODULE JobStartupProofs --------------------------
(***************************************************************************)
(* What TLAPS proves of JobStartup, for any number of jobs, keys and       *)
(* requests.                                                               *)
(***************************************************************************)
EXTENDS JobStartup, TLAPS

-----------------------------------------------------------------------------
(* Values.                                                                 *)

\* An empty value is never encrypted; a stored one that is not empty always is.
Good(v) == v.of = None => v.layers = 0
Stored(v) == v.layers = IF v.of = None THEN 0 ELSE 1

LEMMA EncryptFacts ==
    ASSUME NEW v \in Value
    PROVE  /\ Encrypt(v) \in Value /\ Encrypt(v).of = v.of
           /\ Good(v) => Stored(Encrypt(v))
  BY DEF Value, Encrypt, Good, Stored

LEMMA DecryptFacts ==
    ASSUME NEW v \in Value
    PROVE  /\ Decrypt(v) \in Value /\ Decrypt(v).of = v.of
           /\ Stored(v) => Decrypt(v).layers = 0
  BY DEF Value, Decrypt, Stored

LEMMA Literals ==
    /\ Empty \in Value /\ Good(Empty) /\ Stored(Empty)
    /\ \A k \in Key : Clear(k) \in Value /\ Clear(k).of = k /\ Good(Clear(k))
  BY StartupAssumption DEF Empty, Clear, Value, Key, Good, Stored

-----------------------------------------------------------------------------
(* Types.                                                                  *)

LEMMA SaveType ==
    ASSUME TypeOK, NEW n \in Name, NEW v \in Value, Save(n, v)
    PROVE  setting' \in [Name -> Value] /\ mixed' \subseteq Job
  BY EncryptFacts DEF TypeOK, Save

LEMMA SettingType ==
    ASSUME TypeOK, SettingStep
    PROVE  TypeOK'
<1> USE DEF TypeOK, JobState
<1>1. CASE \E r \in Request : BeginGenerate(r)
  <2>1. PICK r \in Request : BeginGenerate(r)
    BY <1>1
  <2>2. PICK k \in Generated \ used :
          /\ used' = used \cup {k}
          /\ generate' = [generate EXCEPT ![r] = [pc |-> "key", key |-> k,
                                                  password |-> setting["password"]]]
    BY <2>1 DEF BeginGenerate
  <2>3. setting["password"] \in Value
    BY DEF Name
  <2> QED
    BY <2>1, <2>2, <2>3 DEF BeginGenerate, Begins, InProgress, Key
<1>2. CASE \E r \in Request : SaveGeneratedKey(r)
  <2>1. PICK r \in Request : SaveGeneratedKey(r)
    BY <1>2
  <2>2. generate[r].key \in Key \cup {None}
    OBVIOUS
  <2>3. Clear(generate[r].key) \in Value
    BY <2>2 DEF Clear, Value
  <2>4. setting' \in [Name -> Value] /\ mixed' \subseteq Job
    BY <2>1, <2>3, SaveType DEF SaveGeneratedKey, Name
  <2>5. generate' \in [Request -> [pc : {"idle", "key", "password", "answered"},
                                   key : Key \cup {None}, password : Value]]
    BY <2>1 DEF SaveGeneratedKey
  <2> QED
    BY <2>1, <2>4, <2>5 DEF SaveGeneratedKey
<1>3. CASE \E r \in Request : SavePassphrase(r)
  <2>1. PICK r \in Request : SavePassphrase(r)
    BY <1>3
  <2>2. Passphrase(r) \in Value
    BY DEF Passphrase, Clear, Value
  <2>3. setting' \in [Name -> Value] /\ mixed' \subseteq Job
    BY <2>1, <2>2, SaveType DEF SavePassphrase, Name
  <2>4. generate' \in [Request -> [pc : {"idle", "key", "password", "answered"},
                                   key : Key \cup {None}, password : Value]]
    BY <2>1 DEF SavePassphrase
  <2> QED
    BY <2>1, <2>3, <2>4 DEF SavePassphrase
<1>4. CASE \E k \in Supplied : UploadKey(k)
  <2>1. PICK k \in Supplied : UploadKey(k)
    BY <1>4
  <2>2. setting' \in [Name -> Value] /\ mixed' \subseteq Job
    BY <2>1, Literals, SaveType DEF UploadKey, Name, Key
  <2> QED
    BY <2>1, <2>2 DEF UploadKey, Begins, InProgress, Key
<1>5. CASE UploadPassphrase
  <2>1. setting' \in [Name -> Value] /\ mixed' \subseteq Job
    BY <1>5, Literals, SaveType DEF UploadPassphrase, Name, Key
  <2> QED
    BY <1>5, <2>1 DEF UploadPassphrase
<1>6. CASE \E n \in Name : ReadRow(n)
  BY <1>6 DEF ReadRow, Begins, InProgress
<1>7. CASE SaveRow
  <2>1. setting' \in [Name -> Value] /\ mixed' \subseteq Job
    BY <1>7, SaveType DEF SaveRow
  <2> QED
    BY <1>7, <2>1 DEF SaveRow
<1> QED
  BY <1>1, <1>2, <1>3, <1>4, <1>5, <1>6, <1>7 DEF SettingStep

\* Which labels are met on the way of each kind.
PathInv ==
    \A j \in Job :
        /\ pc[j] \in {"build", "list_again", "unlink_again", "rmdir_again"} => kind[j] = "job"
        /\ pc[j] \in {"list", "unlink", "rmdir"} => kind[j] # "rebuild"

LEMMA Ways ==
    ASSUME TypeOK, NEW j \in Job
    PROVE  /\ After(j, "begin") = IF kind[j] = "query" THEN "passwords" ELSE "data"
           /\ After(j, "data") = IF kind[j] = "query" THEN "spawn" ELSE "passwords"
           /\ After(j, "passwords") = IF kind[j] = "job" THEN "build"
                                      ELSE IF kind[j] = "query" THEN "data" ELSE "spawn"
           /\ kind[j] = "job" => After(j, "build") = "spawn"
           /\ After(j, "spawn") = "expect"
           /\ After(j, "expect") = IF kind[j] = "rebuild" THEN "over" ELSE "list"
           /\ kind[j] # "rebuild" =>
                 After(j, "rmdir") = IF kind[j] = "job" THEN "list_again" ELSE "over"
           /\ After(j, "raise") = IF kind[j] = "job" THEN "list" ELSE "over"
<1>1. kind[j] \in Kind
  BY DEF TypeOK
<1> QED
  BY <1>1 DEF Kind, After, Order, JobOrder, QueryOrder, ListingOrder, RebuildOrder

LEMMA JobType ==
    ASSUME TypeOK, PathInv, NEW j \in Job,
           RunStep(j) \/ Open(j) \/ ChildStep(j) \/ Terminate(j)
    PROVE  TypeOK' /\ PathInv'
<1> USE Ways DEF TypeOK, PathInv, Settings, Goto, Pc, HalfChanged
<1>1. CASE MakeDir(j)
  BY <1>1 DEF MakeDir
<1>2. CASE Build(j)
  BY <1>2 DEF Build
<1>3. CASE RunEnds(j)
  BY <1>3 DEF RunEnds
<1>4. CASE Open(j) \/ Terminate(j)
  BY <1>4 DEF Open, Terminate
<1>5. CASE WriteKey(j)
  BY <1>5, DecryptFacts DEF WriteKey, ThreadStarted, Name
<1>6. CASE BuildPasswords(j)
  BY <1>6, DecryptFacts DEF BuildPasswords, Name
<1>7. CASE Spawn(j) \/ Raise(j)
  BY <1>7 DEF Spawn, LeftForAgent, Raise
<1>8. CASE Answer(j) \/ AddKey(j) \/ RunCommand(j)
  BY <1>8 DEF Answer, AddKey, RunCommand
<1>9. CASE List(j)
  BY <1>9 DEF List, Cleanup
<1>10. CASE Unlink(j)
  BY <1>10 DEF Unlink, Cleanup
<1>11. CASE RemoveDir(j)
  BY <1>11 DEF RemoveDir, Cleanup
<1> QED
  BY <1>1, <1>2, <1>3, <1>4, <1>5, <1>6, <1>7, <1>8, <1>9, <1>10, <1>11 DEF RunStep, ChildStep

LEMMA TypeInvariant == Spec => [](TypeOK /\ PathInv)
<1>1. Init => TypeOK /\ PathInv
  <2> SUFFICES ASSUME Init
               PROVE  TypeOK /\ PathInv
    OBVIOUS
  <2>1. setting \in [Name -> Value] /\ key \in [Job -> Value] /\ password \in [Job -> Value]
    BY Literals DEF Init
  <2>2. generate \in [Request -> [pc : {"idle", "key", "password", "answered"},
                                  key : Key \cup {None}, password : Value]]
    BY Literals DEF Init, NoRequest
  <2> QED
    BY <2>1, <2>2 DEF Init, TypeOK, PathInv, Pc
<1>2. TypeOK /\ PathInv /\ [Next]_vars => (TypeOK /\ PathInv)'
  <2>1. ASSUME TypeOK, PathInv, SettingStep
        PROVE  TypeOK' /\ PathInv'
    <3>1. TypeOK'
      BY <2>1, SettingType
    <3>2. UNCHANGED <<kind, pc>>
      BY <2>1 DEF SettingStep, BeginGenerate, SaveGeneratedKey, SavePassphrase,
                  UploadKey, UploadPassphrase, ReadRow, SaveRow, JobState
    <3> QED
      BY <2>1, <3>1, <3>2 DEF PathInv
  <2>2. CASE UNCHANGED vars
    BY <2>2 DEF vars, Settings, TypeOK, PathInv
  <2> QED
    BY <2>1, <2>2, JobType DEF Next
<1> QED
  BY <1>1, <1>2, PTL DEF Spec

\* Every variable keeps its type, whatever users change while jobs start: a value
\* is encrypted at most once (Setting.save, encrypt_field).
THEOREM TypeCorrect == Spec => []TypeOK
  BY TypeInvariant, PTL

-----------------------------------------------------------------------------
(* The pipe and the directory.                                             *)

Early == {"begin", "data", "passwords", "build", "spawn"}
\* What the child says of the pipe, and the order in which the cleanups, the
\* thread and the end of the child may leave the directory.
PipeInv(j) ==
    /\ pc[j] \in Early => child[j] = "none"
    /\ pc[j] \in {"build", "spawn"} \/ (pc[j] = "passwords" /\ kind[j] # "query")
          => place[j] = "pipe"
    /\ child[j] \in {"adding", "prompt", "added"} => pc[j] = "expect" /\ place[j] = "pipe"
    /\ child[j] \in {"prompt", "added", "exited"} => writer[j] = "done"
    /\ child[j] = "exited" => place[j] # "file"
DirInv(j) ==
    /\ pc[j] \in {"data", "passwords"} => dir[j]
    /\ place[j] # "none" => dir[j]
    /\ pc[j] = "rmdir" /\ place[j] # "none" => writer[j] = "done" /\ child[j] # "exited"
    /\ pc[j] \in {"list_again", "unlink_again", "rmdir_again"} /\ dir[j]
          => writer[j] = "done"
    /\ pc[j] = "rmdir_again" => place[j] = "none"
    /\ pc[j] = "over" /\ (kind[j] = "job" \/ (child[j] = "exited" /\ kind[j] # "rebuild"))
          => ~dir[j] /\ place[j] = "none"
FilesInv == \A j \in Job : PipeInv(j) /\ DirInv(j)

LEMMA FilesInit == Init => FilesInv
  BY DEF Init, FilesInv, PipeInv, DirInv, Early

\* A step of one job leaves the others as they are.
LEMMA OtherFiles ==
    ASSUME TypeOK, FilesInv, NEW j \in Job, NEW i \in Job \ {j},
           kind' = kind, pc'[i] = pc[i], place'[i] = place[i], dir'[i] = dir[i],
           writer'[i] = writer[i], child'[i] = child[i]
    PROVE  PipeInv(i)' /\ DirInv(i)'
  BY DEF FilesInv, PipeInv, DirInv

LEMMA JobFiles ==
    ASSUME TypeOK, PathInv, FilesInv, NEW j \in Job,
           RunStep(j) \/ Open(j) \/ ChildStep(j) \/ Terminate(j)
    PROVE  FilesInv'
<1> USE Ways DEF TypeOK, PathInv, Goto, Early
<1>1. PipeInv(j) /\ DirInv(j)
  BY DEF FilesInv
<1>2. PipeInv(j)' /\ DirInv(j)'
  <2>1. CASE MakeDir(j) \/ BuildPasswords(j) \/ Build(j) \/ Raise(j) \/ RunEnds(j)
    BY <2>1, <1>1 DEF MakeDir, BuildPasswords, Build, Raise, RunEnds, PipeInv, DirInv
  <2>2. CASE WriteKey(j)
    BY <2>2, <1>1 DEF WriteKey, ThreadStarted, PipeInv, DirInv
  <2>3. CASE Spawn(j) \/ Answer(j) \/ Terminate(j)
    BY <2>3, <1>1 DEF Spawn, LeftForAgent, Answer, Terminate, PipeInv, DirInv
  <2>4. CASE Open(j)
    BY <2>4, <1>1 DEF Open, PipeInv, DirInv
  <2>5. CASE AddKey(j)
    BY <2>5, <1>1 DEF AddKey, PipeInv, DirInv
  <2>6. CASE RunCommand(j)
    BY <2>6, <1>1 DEF RunCommand, PipeInv, DirInv
  <2>7. CASE List(j)
    BY <2>7, <1>1 DEF List, Cleanup, PipeInv, DirInv
  <2>8. CASE Unlink(j)
    BY <2>8, <1>1 DEF Unlink, Cleanup, PipeInv, DirInv
  <2>9. CASE RemoveDir(j)
    <3>1. /\ UNCHANGED <<kind, place, writer, child>>
          /\ dir' = [dir EXCEPT ![j] = place[j] # "none"]
      BY <2>9 DEF RemoveDir, Cleanup
    <3>2. CASE pc[j] = "rmdir"
      <4>1. pc'[j] = IF kind[j] = "job" THEN "list_again" ELSE "over"
        BY <2>9, <3>2 DEF RemoveDir
      <4>2. place[j] # "none" => writer[j] = "done" /\ child[j] # "exited"
        BY <1>1, <3>2 DEF DirInv
      <4>3. child[j] \notin {"adding", "prompt", "added"}
        BY <1>1, <3>2 DEF PipeInv
      <4> QED
        BY <1>1, <3>1, <3>2, <4>1, <4>2, <4>3 DEF PipeInv, DirInv
    <3>3. CASE pc[j] = "rmdir_again"
      BY <2>9, <1>1, <3>1, <3>3 DEF RemoveDir, PipeInv, DirInv
    <3> QED
      BY <2>9, <3>2, <3>3 DEF RemoveDir
  <2> QED
    BY <2>1, <2>2, <2>3, <2>4, <2>5, <2>6, <2>7, <2>8, <2>9 DEF RunStep, ChildStep
<1>3. ASSUME NEW i \in Job \ {j}
      PROVE  PipeInv(i)' /\ DirInv(i)'
  <2>1. /\ kind' = kind /\ pc'[i] = pc[i] /\ place'[i] = place[i] /\ dir'[i] = dir[i]
        /\ writer'[i] = writer[i] /\ child'[i] = child[i]
    BY DEF RunStep, ChildStep, MakeDir, WriteKey, BuildPasswords, Build, Raise, Spawn, Answer,
           RunEnds, List, Unlink, RemoveDir, Cleanup, Open, AddKey, RunCommand, Terminate
  <2> QED
    BY <2>1, OtherFiles
<1> QED
  BY <1>2, <1>3 DEF FilesInv

LEMMA FilesInvariant == Spec => []FilesInv
<1>1. TypeOK /\ PathInv /\ FilesInv /\ [Next]_vars => FilesInv'
  <2>1. CASE SettingStep
    BY <2>1 DEF SettingStep, BeginGenerate, SaveGeneratedKey, SavePassphrase, UploadKey,
                UploadPassphrase, ReadRow, SaveRow, JobState, FilesInv, PipeInv, DirInv
  <2>2. CASE UNCHANGED vars
    BY <2>2 DEF vars, FilesInv, PipeInv, DirInv
  <2> QED
    BY <2>1, <2>2, JobFiles DEF Next
<1> QED
  BY <1>1, FilesInit, TypeInvariant, PTL DEF Spec

\* Whatever raises, and however late the thread of open_fifo_write comes to open
\* the pipe, the two cleanups of BaseTask.run leave no key behind.
THEOREM CleanedUp == Spec => []NothingIsLeft
<1>1. FilesInv => NothingIsLeft
  BY DEF FilesInv, PipeInv, DirInv, NothingIsLeft
<1> QED
  BY <1>1, FilesInvariant, PTL

\* The chain of wrap_args_with_ssh_agent reads the pipe before it removes it, so a
\* command that came to its end has let its thread go.
THEOREM ThreadsAreFreed == Spec => []ReadPipesAreFreed
<1>1. FilesInv => ReadPipesAreFreed
  BY DEF FilesInv, PipeInv, ReadPipesAreFreed
<1> QED
  BY <1>1, FilesInvariant, PTL

-----------------------------------------------------------------------------
(* The key and its passphrase.                                             *)

Busy(r) == generate[r].pc \in {"key", "password"}
\* A key that asks for a passphrase has its own beside it.
Match == setting["key"].of \in Supplied => setting["password"].of = setting["key"].of
\* What was stored, or is about to be, is encrypted when it is not empty.
StoreInv ==
    /\ \A n \in Name : Stored(setting[n])
    /\ \A r \in Request : /\ Good(generate[r].password)
                          /\ Busy(r) => generate[r].key \in Generated
    /\ Good(resave.value)
\* As long as requests came one after the other, each knows what is stored.
SerialInv ==
    /\ upload = None => Match
    /\ upload # None => /\ setting["key"].of = upload /\ resave = NoResave
                        /\ \A r \in Request : ~Busy(r)
    /\ \A r \in Request : Busy(r) =>
          /\ resave = NoResave /\ \A q \in Request \ {r} : ~Busy(q)
          /\ generate[r].pc = "password" => setting["key"].of \in Generated
    /\ resave # NoResave => resave.value = setting[resave.name]
\* What a job knows that did not read while the settings changed.
ReadInv(j) ==
    /\ child[j] = "prompt" => key[j].of \in Supplied
    /\ key[j].layers = 0 /\ password[j].layers = 0
    /\ j \notin mixed =>
          /\ HalfRead(j) =>
                /\ upload = None
                /\ IF kind[j] = "query" THEN password[j].of = setting["password"].of
                   ELSE key[j].of = setting["key"].of
          /\ pc[j] \in {"build", "spawn", "expect"} =>
                (key[j].of \in Supplied => password[j] = key[j])
PairInv == StoreInv /\ (~crossed => SerialInv) /\ \A j \in Job : ReadInv(j)

LEMMA PairInit == Init => PairInv
  BY Literals, StartupAssumption
  DEF Init, PairInv, StoreInv, SerialInv, ReadInv, HalfRead, Match, Busy, NoRequest, NoResave,
      Empty, Name, Good, Stored, Key

\* After a save the other row is what it was, and every stored value is encrypted.
LEMMA SaveFacts ==
    ASSUME TypeOK, PairInv, NEW n \in Name, NEW v \in Value, Good(v), Save(n, v)
    PROVE  /\ setting'[n].of = v.of
           /\ \A o \in Name \ {n} : setting'[o] = setting[o]
           /\ \A o \in Name : Stored(setting'[o])
<1>1. /\ setting'[n] = Encrypt(v)
      /\ \A o \in Name \ {n} : setting'[o] = setting[o]
  BY DEF Save, TypeOK
<1>2. Stored(Encrypt(v)) /\ Encrypt(v).of = v.of
  BY EncryptFacts
<1> QED
  BY <1>1, <1>2 DEF PairInv, StoreInv

\* A save does not disturb what jobs know: those between their reads are mixed.
LEMMA ReadAfterSave ==
    ASSUME TypeOK, PairInv, NEW n \in Name, NEW v \in Value, Save(n, v),
           UNCHANGED JobState
    PROVE  \A j \in Job : ReadInv(j)'
  BY DEF PairInv, ReadInv, HalfRead, Save, JobState

LEMMA GeneratePair ==
    ASSUME TypeOK, PairInv, NEW r \in Request, BeginGenerate(r)
    PROVE  PairInv'
<1> USE DEF TypeOK, Busy
<1>1. PICK k \in Generated \ used :
        generate' = [generate EXCEPT ![r] = [pc |-> "key", key |-> k,
                                             password |-> setting["password"]]]
  BY DEF BeginGenerate
<1>2. StoreInv'
  BY <1>1 DEF BeginGenerate, PairInv, StoreInv, Stored, Good, Name
<1>3. ~crossed' => SerialInv'
  BY <1>1 DEF BeginGenerate, Begins, InProgress, PairInv, SerialInv, Match
<1>4. \A j \in Job : ReadInv(j)'
  BY DEF BeginGenerate, JobState, PairInv, ReadInv, HalfRead
<1> QED
  BY <1>2, <1>3, <1>4 DEF PairInv

LEMMA KeyPair ==
    ASSUME TypeOK, PairInv, NEW r \in Request, SaveGeneratedKey(r)
    PROVE  PairInv'
<1> USE DEF TypeOK, Busy
<1>1. generate[r].key \in Generated
  BY DEF SaveGeneratedKey, PairInv, StoreInv
<1>2. /\ Clear(generate[r].key) \in Value /\ Good(Clear(generate[r].key))
      /\ Clear(generate[r].key).of = generate[r].key
  BY <1>1, Literals DEF Key
<1>3. /\ setting'["key"].of = generate[r].key
      /\ \A o \in Name : Stored(setting'[o])
  BY <1>2, SaveFacts DEF SaveGeneratedKey, Name
<1>4. generate' = [generate EXCEPT ![r].pc = "password"]
  BY DEF SaveGeneratedKey
<1>5. StoreInv'
  BY <1>3, <1>4 DEF SaveGeneratedKey, PairInv, StoreInv
<1>6. ~crossed' => SerialInv'
  BY <1>1, <1>3, <1>4, StartupAssumption
  DEF SaveGeneratedKey, PairInv, SerialInv, Match
<1>7. \A j \in Job : ReadInv(j)'
  BY <1>2, ReadAfterSave DEF SaveGeneratedKey, Name
<1> QED
  BY <1>5, <1>6, <1>7 DEF PairInv

LEMMA PassphrasePair ==
    ASSUME TypeOK, PairInv, NEW r \in Request, SavePassphrase(r)
    PROVE  PairInv'
<1> USE DEF TypeOK, Busy
<1>1. generate[r].key \in Generated /\ Good(generate[r].password)
  BY DEF SavePassphrase, PairInv, StoreInv
<1>2. Passphrase(r) \in Value /\ Good(Passphrase(r))
  BY <1>1, Literals DEF Passphrase, Key
<1>3. /\ setting'["key"] = setting["key"]
      /\ \A o \in Name : Stored(setting'[o])
  BY <1>2, SaveFacts DEF SavePassphrase, Name
<1>4. generate' = [generate EXCEPT ![r].pc = "answered"]
  BY DEF SavePassphrase
<1>5. StoreInv'
  BY <1>3, <1>4 DEF SavePassphrase, PairInv, StoreInv
<1>6. ~crossed' => SerialInv'
  BY <1>3, <1>4, StartupAssumption DEF SavePassphrase, PairInv, SerialInv, Match
<1>7. \A j \in Job : ReadInv(j)'
  BY <1>2, ReadAfterSave DEF SavePassphrase, Name
<1> QED
  BY <1>5, <1>6, <1>7 DEF PairInv

LEMMA UploadPair ==
    ASSUME TypeOK, PairInv, (\E k \in Supplied : UploadKey(k)) \/ UploadPassphrase
    PROVE  PairInv'
<1> USE DEF TypeOK, Busy
<1>1. ASSUME NEW k \in Supplied, UploadKey(k)
      PROVE  PairInv'
  <2>1. Clear(k) \in Value /\ Good(Clear(k)) /\ Clear(k).of = k
    BY Literals DEF Key
  <2>2. setting'["key"].of = k /\ \A o \in Name : Stored(setting'[o])
    BY <1>1, <2>1, SaveFacts DEF UploadKey, Name
  <2>3. StoreInv'
    BY <1>1, <2>2 DEF UploadKey, PairInv, StoreInv
  <2>4. ~crossed' => SerialInv'
    BY <1>1, <2>2, StartupAssumption
    DEF UploadKey, Begins, InProgress, PairInv, SerialInv, Match, Key
  <2>5. \A j \in Job : ReadInv(j)'
    BY <1>1, <2>1, ReadAfterSave DEF UploadKey, Name
  <2> QED
    BY <2>3, <2>4, <2>5 DEF PairInv
<1>2. CASE UploadPassphrase
  <2>1. /\ upload \in Supplied /\ Clear(upload) \in Value /\ Good(Clear(upload))
        /\ Clear(upload).of = upload
    BY <1>2, Literals DEF UploadPassphrase, Key
  <2>2. /\ setting'["key"] = setting["key"] /\ setting'["password"].of = upload
        /\ \A o \in Name : Stored(setting'[o])
    BY <1>2, <2>1, SaveFacts DEF UploadPassphrase, Name
  <2>3. StoreInv'
    BY <1>2, <2>2 DEF UploadPassphrase, PairInv, StoreInv
  <2>4. ~crossed' => SerialInv'
    BY <1>2, <2>2 DEF UploadPassphrase, PairInv, SerialInv, Match
  <2>5. \A j \in Job : ReadInv(j)'
    BY <1>2, <2>1, ReadAfterSave DEF UploadPassphrase, Name
  <2> QED
    BY <2>3, <2>4, <2>5 DEF PairInv
<1> QED
  BY <1>1, <1>2

LEMMA RowPair ==
    ASSUME TypeOK, PairInv, (\E n \in Name : ReadRow(n)) \/ SaveRow
    PROVE  PairInv'
<1> USE DEF TypeOK, Busy
<1>1. ASSUME NEW n \in Name, ReadRow(n)
      PROVE  PairInv'
  <2>1. resave' = [name |-> n, value |-> setting[n]]
    BY <1>1 DEF ReadRow
  <2>2. StoreInv'
    BY <1>1, <2>1 DEF ReadRow, PairInv, StoreInv, Stored, Good
  <2>3. ~crossed' => SerialInv'
    <3> SUFFICES ASSUME ~crossed'
                 PROVE  SerialInv'
      OBVIOUS
    <3>1. ~crossed /\ upload = None /\ \A r \in Request : ~Busy(r)
      BY <1>1 DEF ReadRow, Begins, InProgress
    <3>2. UNCHANGED <<setting, generate, upload>> /\ resave'.value = setting'[resave'.name]
      BY <1>1, <2>1 DEF ReadRow
    <3> QED
      BY <3>1, <3>2 DEF PairInv, SerialInv, Match
  <2>4. \A j \in Job : ReadInv(j)'
    BY <1>1 DEF ReadRow, JobState, PairInv, ReadInv, HalfRead
  <2> QED
    BY <2>2, <2>3, <2>4 DEF PairInv
<1>2. CASE SaveRow
  <2>1. resave.name \in Name /\ resave.value \in Value /\ Good(resave.value)
    BY <1>2 DEF SaveRow, PairInv, StoreInv
  <2>2. /\ setting'[resave.name].of = resave.value.of
        /\ \A o \in Name \ {resave.name} : setting'[o] = setting[o]
        /\ \A o \in Name : Stored(setting'[o])
    BY <1>2, <2>1, SaveFacts DEF SaveRow
  <2>3. StoreInv'
    BY <1>2, <2>2, Literals DEF SaveRow, PairInv, StoreInv, NoResave
  <2>4. ~crossed' => SerialInv'
    <3> SUFFICES ASSUME ~crossed'
                 PROVE  SerialInv'
      OBVIOUS
    <3>1. SerialInv /\ upload = None /\ \A r \in Request : ~Busy(r)
      BY <1>2 DEF SaveRow, PairInv, SerialInv
    <3>2. resave.value = setting[resave.name]
      BY <1>2, <3>1 DEF SaveRow, SerialInv
    <3>3. \A o \in Name : setting'[o].of = setting[o].of
      BY <2>2, <3>2
    <3> QED
      BY <1>2, <3>1, <3>3 DEF SaveRow, SerialInv, Match, Name
  <2>5. \A j \in Job : ReadInv(j)'
    BY <1>2, <2>1, ReadAfterSave DEF SaveRow
  <2> QED
    BY <2>3, <2>4, <2>5 DEF PairInv
<1> QED
  BY <1>1, <1>2

\* The second of the two queries, of whoever was not mixed up before: what it
\* reads belongs to what the first one got.
LEMMA SecondRead ==
    ASSUME TypeOK, PairInv, NEW j \in Job, HalfRead(j), HalfChanged(j), j \notin mixed'
    PROVE  /\ kind[j] = "query" => /\ Decrypt(setting["key"]).of \in Supplied
                                        => Decrypt(setting["key"]) = password[j]
           /\ kind[j] # "query" => /\ key[j].of \in Supplied
                                        => Decrypt(setting["password"]) = key[j]
<1>1. j \notin mixed /\ ~crossed /\ upload = None
  BY DEF HalfChanged
<1>2. Match /\ ReadInv(j)
  BY <1>1 DEF PairInv, SerialInv
<1>3. \A n \in Name : /\ Decrypt(setting[n]) \in Value /\ Decrypt(setting[n]).layers = 0
                       /\ Decrypt(setting[n]).of = setting[n].of
  BY DecryptFacts DEF PairInv, StoreInv, TypeOK
<1>4. key[j] \in Value /\ password[j] \in Value
  BY DEF TypeOK
<1> QED
  BY <1>1, <1>2, <1>3, <1>4 DEF ReadInv, Match, Name, Value

LEMMA JobPair ==
    ASSUME TypeOK, PathInv, FilesInv, PairInv, NEW j \in Job,
           RunStep(j) \/ Open(j) \/ ChildStep(j) \/ Terminate(j)
    PROVE  PairInv'
<1> USE DEF TypeOK
<1>1. UNCHANGED <<Settings, kind>>
  BY DEF RunStep, ChildStep, MakeDir, WriteKey, BuildPasswords, Build, Raise, Spawn, Answer,
         RunEnds, List, Unlink, RemoveDir, Cleanup, Goto, Open, AddKey, RunCommand, Terminate
<1>2. StoreInv' /\ (~crossed' => SerialInv')
  BY <1>1 DEF Settings, PairInv, StoreInv, SerialInv, Match, Busy
<1>3. ReadInv(j) /\ PipeInv(j)
  BY DEF PairInv, FilesInv
<1>4. ReadInv(j)'
  <2>1. CASE WriteKey(j)
    <3>1. /\ pc[j] = "data" /\ key'[j] = Decrypt(setting["key"]) /\ password' = password
          /\ pc'[j] = IF kind[j] = "query" THEN "spawn" ELSE "passwords"
          /\ child'[j] = "none"
      BY <2>1, <1>3, Ways DEF WriteKey, Goto, PipeInv, Early
    <3>2. key'[j].of = setting["key"].of /\ key'[j].layers = 0
      BY <3>1, DecryptFacts DEF PairInv, StoreInv, Name
    <3>3. j \notin mixed' => upload = None
      BY <2>1 DEF WriteKey, HalfChanged
    <3>4. ASSUME kind[j] = "query", j \notin mixed', key'[j].of \in Supplied
          PROVE  password'[j] = key'[j]
      BY <2>1, <3>1, <3>4, SecondRead DEF WriteKey, HalfRead
    <3> QED
      BY <3>1, <3>2, <3>3, <3>4, <1>1, <1>3 DEF ReadInv, HalfRead, Settings
  <2>2. CASE BuildPasswords(j)
    <3>1. /\ pc[j] = "passwords" /\ UNCHANGED <<key, child>>
          /\ pc'[j] = IF kind[j] = "job" THEN "build"
                      ELSE IF kind[j] = "query" THEN "data" ELSE "spawn"
          /\ password'[j] = Decrypt(setting["password"])
      BY <2>2, Ways DEF BuildPasswords, Goto
    <3>2. password'[j].of = setting["password"].of /\ password'[j].layers = 0
      BY <3>1, DecryptFacts DEF PairInv, StoreInv, Name
    <3>3. j \notin mixed' => upload = None
      BY <2>2 DEF BuildPasswords, HalfChanged
    <3>4. ASSUME kind[j] # "query", j \notin mixed', key[j].of \in Supplied
          PROVE  password'[j] = key[j]
      BY <2>2, <3>1, <3>4, SecondRead DEF BuildPasswords, HalfRead
    <3> QED
      BY <3>1, <3>2, <3>3, <3>4, <1>1, <1>3 DEF ReadInv, HalfRead, Settings
  <2>3. CASE AddKey(j)
    BY <2>3, <1>1, <1>3 DEF AddKey, ReadInv, HalfRead, Settings
  <2>4. CASE MakeDir(j)
    <3>1. pc'[j] \in {"passwords", "data"} /\ ~HalfRead(j)'
      BY <2>4, <1>1, Ways DEF MakeDir, Goto, HalfRead
    <3> QED
      BY <2>4, <1>1, <1>3, <3>1 DEF MakeDir, ReadInv
  <2>5. CASE Build(j) \/ Raise(j) \/ Spawn(j)
    <3>1. /\ pc'[j] \in {"spawn", "list", "over", "expect"}
          /\ pc'[j] \in {"spawn", "expect"} => pc[j] \in {"build", "spawn"}
      BY <2>5, Ways DEF Build, Raise, Spawn, Goto, PathInv
    <3>2. UNCHANGED <<key, password, mixed>> /\ child'[j] # "prompt"
      BY <2>5, <1>3 DEF Build, Raise, Spawn, PipeInv, Early
    <3> QED
      BY <1>1, <1>3, <3>1, <3>2 DEF ReadInv, HalfRead, Settings
  <2>6. CASE Answer(j) \/ RunEnds(j) \/ Open(j) \/ RunCommand(j) \/ Terminate(j)
    BY <2>6, <1>1, <1>3, Ways DEF Answer, RunEnds, Open, RunCommand, Terminate, Goto,
       ReadInv, HalfRead, Settings
  <2>7. CASE List(j) \/ Unlink(j) \/ RemoveDir(j)
    BY <2>7, <1>1, <1>3, Ways DEF List, Unlink, RemoveDir, Cleanup, Goto, PathInv,
       ReadInv, HalfRead, Settings
  <2> QED
    BY <2>1, <2>2, <2>3, <2>4, <2>5, <2>6, <2>7 DEF RunStep, ChildStep
<1>5. ASSUME NEW i \in Job \ {j}
      PROVE  ReadInv(i)'
  <2>1. /\ pc'[i] = pc[i] /\ key'[i] = key[i] /\ password'[i] = password[i]
        /\ child'[i] = child[i]
    BY DEF RunStep, ChildStep, MakeDir, WriteKey, BuildPasswords, Build, Raise, Spawn, Answer,
           RunEnds, List, Unlink, RemoveDir, Cleanup, Goto, Open, AddKey, RunCommand,
           Terminate
  <2>2. mixed' \in {mixed, mixed \cup {j}}
    BY DEF RunStep, ChildStep, MakeDir, WriteKey, BuildPasswords, Build, Raise, Spawn, Answer,
           RunEnds, List, Unlink, RemoveDir, Cleanup, Open, AddKey, RunCommand,
           Terminate, HalfChanged
  <2> QED
    BY <1>1, <2>1, <2>2 DEF PairInv, ReadInv, HalfRead, Settings
<1> QED
  BY <1>2, <1>4, <1>5 DEF PairInv

LEMMA PairInvariant == Spec => []PairInv
<1>1. TypeOK /\ PathInv /\ FilesInv /\ PairInv /\ [Next]_vars => PairInv'
  <2>1. ASSUME TypeOK, PairInv, SettingStep
        PROVE  PairInv'
    BY <2>1, GeneratePair, KeyPair, PassphrasePair, UploadPair, RowPair DEF SettingStep
  <2>2. ASSUME PairInv, UNCHANGED vars
        PROVE  PairInv'
    BY <2>2 DEF vars, Settings, PairInv, StoreInv, SerialInv, ReadInv, HalfRead, Match, Busy
  <2> QED
    BY <2>1, <2>2, JobPair DEF Next
<1> QED
  BY <1>1, PairInit, TypeInvariant, FilesInvariant, PTL DEF Spec

\* A job waits in vain at the prompt for a passphrase only if it read key and
\* passphrase while they were being changed, or after changes that overlapped.
THEOREM PromptIsAnswered == Spec => []HangsOnlyOnMixedPair
<1>1. PairInv => HangsOnlyOnMixedPair
  BY DEF PairInv, ReadInv, HangsOnlyOnMixedPair, Hung, Opens
<1> QED
  BY <1>1, PairInvariant, PTL
=============================================================================
