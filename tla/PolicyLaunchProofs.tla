------------------------- MODULE PolicyLaunchProofs -------------------------
(***************************************************************************)
(* What TLAPS proves of PolicyLaunch: as long as no pass and no other      *)
(* launch comes between the saves of a launch, and none fails half way,    *)
(* the rows it leaves are executed alone and in their order, for every     *)
(* table, policy, number of clients, launchers and workers.                *)
(***************************************************************************)
EXTENDS PolicyLaunch, TaskManagerProofs

-----------------------------------------------------------------------------
(* Types.                                                                  *)

\* A job saved by a launcher, of its types.
LEMMA SavedMine ==
    ASSUME LaunchTypeOK, NEW l \in Launcher, NEW j \in Job, NEW r \in Row,
           SaveMine(l, j, r)
    PROVE  /\ row' \in [Job -> Row] /\ mine' \in [Launcher -> [Job -> Row]]
           /\ row'[j] = r /\ \A k \in Job \ {j} : row'[k] = row[k]
           /\ mine'[l][j] = r /\ \A k \in Job \ {j} : mine'[l][k] = mine[l][k]
           /\ \A k \in Launcher \ {l} : mine'[k] = mine[k]
  BY DEF LaunchTypeOK, TypeOK, SaveMine

LEMMA NewRows ==
    ASSUME NEW s \in Status
    PROVE  NewRow(s) \in Row
  BY JobAssumption DEF NewRow, Row

LEMMA FreshJob ==
    ASSUME NEW t, NEW c, NEW repo, NEW j \in Fresh(t, c, repo)
    PROVE  /\ j \in Job \ Dependency /\ TypeOf[j] = t /\ ClientOf[j] = c
           /\ RepoOf[j] = repo
           /\ row[j].status = "absent"
<1>1. /\ j \in Job \ Dependency /\ TypeOf[j] = t /\ ClientOf[j] = c
      /\ RepoOf[j] = repo
  BY DEF Fresh
<1>2. row[j].status # "absent" => j < j
  BY <1>1 DEF Fresh
<1>3. j \in Nat
  BY <1>1, JobAssumption
<1> QED
  BY <1>1, <1>2, <1>3

-----------------------------------------------------------------------------
(* The steps of a launcher, by what they change.                           *)

\* A step of l that leaves the jobs it has saved alone.
Walks(l) ==
    /\ launch' \in [Launcher -> Launch]
    /\ \A k \in Launcher \ {l} : launch'[k] = launch[k]
    /\ UNCHANGED <<ready, toUpdate, pass, deliv, api>>

\* A new row of l.
Creates(l, j, s) ==
    /\ Walks(l)
    /\ j \in Job \ Dependency /\ row[j].status = "absent"
    /\ SaveMine(l, j, NewRow(s))

\* A launcher's record that is replaced.
LEMMA RecordSet ==
    ASSUME LaunchTypeOK, NEW l \in Launcher, NEW x \in Launch,
           launch' = [launch EXCEPT ![l] = x]
    PROVE  /\ launch' \in [Launcher -> Launch] /\ launch'[l] = x
           /\ \A k \in Launcher \ {l} : launch'[k] = launch[k]
  BY DEF LaunchTypeOK

LEMMA CreateBackupStep ==
    ASSUME LaunchTypeOK, NEW l \in Launcher, CreateBackup(l)
    PROVE  \E j \in Job :
             /\ LaunchAt(l) = "next" /\ Creates(l, j, "pending")
             /\ RepoOf[j] = LaunchRepo
             /\ launch'[l].pc = AfterBackup /\ launch'[l].backup = j
             /\ launch'[l].catalog = None /\ launch'[l].prune = None
             /\ launch'[l].previous = launch[l].previous
             /\ launch'[l].first = IF launch[l].first = None THEN j ELSE launch[l].first
             /\ UNCHANGED master
<1>0. PICK c \in launch[l].todo : \E j \in Fresh("job", c, LaunchRepo) :
        /\ SaveMine(l, j, NewRow("pending"))
        /\ launch' = [launch EXCEPT ![l].pc = AfterBackup, ![l].todo = @ \ {c},
                            ![l].backup = j, ![l].catalog = None,
                            ![l].prune = None,
                            ![l].first = IF @ = None THEN j ELSE @]
  BY DEF CreateBackup
<1>1. PICK j \in Fresh("job", c, LaunchRepo) :
        /\ SaveMine(l, j, NewRow("pending"))
        /\ launch' = [launch EXCEPT ![l].pc = AfterBackup, ![l].todo = @ \ {c},
                            ![l].backup = j, ![l].catalog = None,
                            ![l].prune = None,
                            ![l].first = IF @ = None THEN j ELSE @]
  BY <1>0
<1>2. j \in Job \ Dependency /\ row[j].status = "absent" /\ RepoOf[j] = LaunchRepo
  BY FreshJob
<1>3. launch[l] \in Launch /\ AfterBackup \in LaunchPc
  BY DEF LaunchTypeOK, AfterBackup, LaunchPc
<1>4. DEFINE x == [launch[l] EXCEPT !.pc = AfterBackup, !.todo = @ \ {c},
                      !.backup = j, !.catalog = None, !.prune = None,
                      !.first = IF @ = None THEN j ELSE @]
<1>5. x \in Launch /\ launch' = [launch EXCEPT ![l] = x]
  BY <1>1, <1>2, <1>3 DEF Launch
<1>6. launch' \in [Launcher -> Launch] /\ launch'[l] = x
      /\ \A k \in Launcher \ {l} : launch'[k] = launch[k]
  BY <1>5, RecordSet
<1>7. /\ x.pc = AfterBackup /\ x.backup = j /\ x.catalog = None /\ x.prune = None
      /\ x.previous = launch[l].previous
      /\ x.first = IF launch[l].first = None THEN j ELSE launch[l].first
  BY <1>3 DEF Launch
<1> HIDE DEF x
<1> QED
  BY <1>1, <1>2, <1>6, <1>7 DEF CreateBackup, Creates, Walks, Unlaunched, LaunchAt

LEMMA CreateCatalogStep ==
    ASSUME LaunchTypeOK, NEW l \in Launcher, CreateCatalog(l)
    PROVE  \E j \in Job :
             /\ LaunchAt(l) = "catalog" /\ Creates(l, j, "waiting")
             /\ RepoOf[j] = LaunchRepo
             /\ launch'[l].pc = "attachCatalog"
             /\ launch'[l] = [launch[l] EXCEPT !.pc = "attachCatalog", !.catalog = j]
             /\ master' = [master EXCEPT ![j] = launch[l].backup]
<1>1. PICK j \in Fresh("catalog", ClientOf[launch[l].backup], LaunchRepo) :
        /\ SaveMine(l, j, NewRow("waiting"))
        /\ master' = [master EXCEPT ![j] = launch[l].backup]
        /\ launch' = [launch EXCEPT ![l].pc = "attachCatalog", ![l].catalog = j]
  BY DEF CreateCatalog
<1>2. j \in Job \ Dependency /\ row[j].status = "absent" /\ RepoOf[j] = LaunchRepo
  BY FreshJob
<1>3. DEFINE x == [launch[l] EXCEPT !.pc = "attachCatalog", !.catalog = j]
<1>4. x \in Launch /\ x.pc = "attachCatalog" /\ launch' = [launch EXCEPT ![l] = x]
  BY <1>1, <1>2 DEF LaunchTypeOK, Launch, LaunchPc
<1> HIDE DEF x
<1>5. /\ launch' \in [Launcher -> Launch] /\ launch'[l] = x
      /\ \A k \in Launcher \ {l} : launch'[k] = launch[k]
  BY <1>4, RecordSet
<1> QED
  BY <1>1, <1>2, <1>4, <1>5 DEF CreateCatalog, Creates, Walks, Unlaunched, LaunchAt, x

LEMMA CreatePruneStep ==
    ASSUME LaunchTypeOK, NEW l \in Launcher, CreatePrune(l)
    PROVE  \E j \in Job :
             /\ LaunchAt(l) = "prune" /\ Creates(l, j, "waiting")
             /\ RepoOf[j] = LaunchRepo
             /\ launch'[l].pc = "attachPrune"
             /\ launch'[l] = [launch[l] EXCEPT !.pc = "attachPrune", !.prune = j]
             /\ master' = [master EXCEPT ![j] = Pruned(l)]
<1>1. PICK j \in Fresh("prune", ClientOf[launch[l].backup], LaunchRepo) :
        /\ SaveMine(l, j, NewRow("waiting"))
        /\ master' = [master EXCEPT ![j] = Pruned(l)]
        /\ launch' = [launch EXCEPT ![l].pc = "attachPrune", ![l].prune = j]
  BY DEF CreatePrune
<1>2. j \in Job \ Dependency /\ row[j].status = "absent" /\ RepoOf[j] = LaunchRepo
  BY FreshJob
<1>3. DEFINE x == [launch[l] EXCEPT !.pc = "attachPrune", !.prune = j]
<1>4. x \in Launch /\ x.pc = "attachPrune" /\ launch' = [launch EXCEPT ![l] = x]
  BY <1>1, <1>2 DEF LaunchTypeOK, Launch, LaunchPc
<1> HIDE DEF x
<1>5. /\ launch' \in [Launcher -> Launch] /\ launch'[l] = x
      /\ \A k \in Launcher \ {l} : launch'[k] = launch[k]
  BY <1>4, RecordSet
<1> QED
  BY <1>1, <1>2, <1>4, <1>5 DEF CreatePrune, Creates, Walks, Unlaunched, LaunchAt, x

LEMMA AttachCatalogStep ==
    ASSUME LaunchTypeOK, NEW l \in Launcher, AttachCatalog(l)
    PROVE  /\ LaunchAt(l) = "attachCatalog" /\ Walks(l) /\ Link(l, launch[l].backup, launch[l].catalog)
           /\ launch'[l] = [launch[l] EXCEPT !.pc = IF Prunes THEN "prune" ELSE "chain"]
           /\ UNCHANGED master
<1>1. DEFINE x == [launch[l] EXCEPT !.pc = IF Prunes THEN "prune" ELSE "chain"]
<1>2. x \in Launch /\ launch' = [launch EXCEPT ![l] = x]
  BY DEF AttachCatalog, LaunchTypeOK, Launch, LaunchPc
<1> HIDE DEF x
<1>3. /\ launch' \in [Launcher -> Launch] /\ launch'[l] = x
      /\ \A k \in Launcher \ {l} : launch'[k] = launch[k]
  BY <1>2, RecordSet
<1> QED
  BY <1>3 DEF AttachCatalog, Walks, Unlaunched, x

LEMMA AttachPruneStep ==
    ASSUME LaunchTypeOK, NEW l \in Launcher, AttachPrune(l)
    PROVE  /\ LaunchAt(l) = "attachPrune" /\ Walks(l) /\ Link(l, Pruned(l), launch[l].prune)
           /\ launch'[l] = [launch[l] EXCEPT !.pc = "chain"]
           /\ UNCHANGED master
<1>1. DEFINE x == [launch[l] EXCEPT !.pc = "chain"]
<1>2. x \in Launch /\ launch' = [launch EXCEPT ![l] = x]
  BY DEF AttachPrune, LaunchTypeOK, Launch, LaunchPc
<1> HIDE DEF x
<1>3. /\ launch' \in [Launcher -> Launch] /\ launch'[l] = x
      /\ \A k \in Launcher \ {l} : launch'[k] = launch[k]
  BY <1>2, RecordSet
<1> QED
  BY <1>3 DEF AttachPrune, Walks, Unlaunched, x

LEMMA ChainClientStep ==
    ASSUME LaunchTypeOK, NEW l \in Launcher, ChainClient(l)
    PROVE  /\ LaunchAt(l) = "chain" /\ Walks(l) /\ UNCHANGED master
           /\ \/ ~Chains(l) /\ UNCHANGED <<row, mine>>
              \/ Chains(l) /\ Link(l, launch[l].previous, LastOfClient(l))
           /\ launch'[l] = [launch[l] EXCEPT
                              !.pc = IF launch[l].todo = {} THEN "renew" ELSE "next",
                              !.previous = PreviousAfter(l)]
<1>1. DEFINE x == [launch[l] EXCEPT
                     !.pc = IF launch[l].todo = {} THEN "renew" ELSE "next",
                     !.previous = PreviousAfter(l)]
<1>2. PreviousAfter(l) \in Job \cup {None}
  BY DEF PreviousAfter, LastOfClient, LaunchTypeOK, Launch
<1>5. launch' = [launch EXCEPT
                   ![l].pc = IF launch[l].todo = {} THEN "renew" ELSE "next",
                   ![l].previous = PreviousAfter(l)]
  BY DEF ChainClient
<1>3. x \in Launch /\ launch' = [launch EXCEPT ![l] = x]
  BY <1>2, <1>5 DEF LaunchTypeOK, Launch, LaunchPc
<1> HIDE DEF x
<1>4. /\ launch' \in [Launcher -> Launch] /\ launch'[l] = x
      /\ \A k \in Launcher \ {l} : launch'[k] = launch[k]
  BY <1>3, RecordSet
<1> QED
  BY <1>4 DEF ChainClient, Walks, Unlaunched, x

LEMMA RenewFirstStep ==
    ASSUME LaunchTypeOK, NEW l \in Launcher, RenewFirst(l)
    PROVE  /\ LaunchAt(l) = "renew" /\ Walks(l) /\ UNCHANGED master
           /\ SaveMine(l, launch[l].first,
                       [mine[l][launch[l].first] EXCEPT !.status = "new"])
           /\ launch'[l] = [launch[l] EXCEPT !.pc = "signal"]
<1>1. DEFINE x == [launch[l] EXCEPT !.pc = "signal"]
<1>2. x \in Launch /\ launch' = [launch EXCEPT ![l] = x]
  BY DEF RenewFirst, LaunchTypeOK, Launch, LaunchPc
<1> HIDE DEF x
<1>3. /\ launch' \in [Launcher -> Launch] /\ launch'[l] = x
      /\ \A k \in Launcher \ {l} : launch'[k] = launch[k]
  BY <1>2, RecordSet
<1> QED
  BY <1>3 DEF RenewFirst, Walks, Unlaunched, x

LEMMA CopyStep ==
    ASSUME LaunchTypeOK, NEW l \in Launcher, CopyJob(l) \/ CreateRestoreJob(l)
    PROVE  \E j \in Job :
             /\ LaunchAt(l) = "copy" /\ Creates(l, j, "new")
             /\ launch'[l] = [launch[l] EXCEPT !.pc = "signal", !.first = j]
             /\ \/ UNCHANGED master
                \/ master' = [master EXCEPT ![j] = master[launch[l].copied]]
<1>1. PICK j \in CopyRows(launch[l].copied) \cup RestoreRows(launch[l].copied) :
        /\ SaveMine(l, j, NewRow("new"))
        /\ \/ UNCHANGED master
           \/ master' = [master EXCEPT ![j] = master[launch[l].copied]]
        /\ launch' = [launch EXCEPT ![l].pc = "signal", ![l].first = j]
  BY DEF CopyJob, CreateRestoreJob
<1>2. j \in Job \ Dependency /\ row[j].status = "absent"
  BY FreshJob DEF CopyRows, RestoreRows
<1>3. DEFINE x == [launch[l] EXCEPT !.pc = "signal", !.first = j]
<1>4. x \in Launch /\ launch' = [launch EXCEPT ![l] = x]
  <2>1. launch[l] \in Launch /\ j \in Job
    BY <1>2 DEF LaunchTypeOK
  <2>2. x \in Launch
    BY <2>1 DEF Launch, LaunchPc
  <2>3. launch' = [launch EXCEPT ![l] = x]
    BY <1>1 DEF LaunchTypeOK
  <2> QED
    BY <2>2, <2>3
<1> HIDE DEF x
<1>5. /\ launch' \in [Launcher -> Launch] /\ launch'[l] = x
      /\ \A k \in Launcher \ {l} : launch'[k] = launch[k]
  BY <1>4, RecordSet
<1> QED
  BY <1>1, <1>2, <1>5 DEF CopyJob, CreateRestoreJob, Creates, Walks, Unlaunched,
     LaunchAt, x

\* The steps that save nothing: l begins, or has tested a client.
LEMMA TestStep ==
    ASSUME LaunchTypeOK, NEW l \in Launcher,
           BeginLaunch(l) \/ CheckClient(l) \/ BeginCopy(l)
    PROVE  /\ Walks(l) /\ UNCHANGED <<row, mine, master>>
           /\ \/ LaunchAt(l) = "idle" /\ launch'[l].pc \in {"check", "next"}
                 /\ launch'[l].previous = None /\ launch'[l].first = None
              \/ /\ LaunchAt(l) = "check" /\ launch'[l].pc \in {"idle", "check", "next"}
                 /\ launch'[l].pc # "idle" =>
                       /\ launch'[l].previous = launch[l].previous
                       /\ launch'[l].first = launch[l].first
              \/ LaunchAt(l) = "idle" /\ launch'[l].pc = "copy"
                 /\ launch'[l].copied \in Job
                 /\ row[launch'[l].copied].status # "absent"
                 /\ ~Conflicting(ClientOf[launch'[l].copied], Repo \cup {None})
<1> DEFINE Shown(x) == /\ launch' \in [Launcher -> Launch] /\ launch'[l] = x
                       /\ \A k \in Launcher \ {l} : launch'[k] = launch[k]
<1>0. NoLaunch \in Launch /\ launch[l] \in Launch
  BY DEF NoLaunch, Launch, LaunchPc, LaunchTypeOK
<1>1. UNCHANGED <<row, mine, master, ready, toUpdate, pass, deliv, api>>
  BY DEF BeginLaunch, CheckClient, BeginCopy, Unlaunched
<1>2. CASE BeginLaunch(l)
  <2>1. PICK p \in {"check", "next"}, T \in SUBSET Client :
          launch' = [launch EXCEPT ![l] = [NoLaunch EXCEPT !.pc = p, !.todo = T]]
    BY <1>2, LaunchAssumption DEF BeginLaunch
  <2>2. [NoLaunch EXCEPT !.pc = p, !.todo = T] \in Launch
    BY <1>0 DEF Launch, LaunchPc
  <2>3. Shown([NoLaunch EXCEPT !.pc = p, !.todo = T])
    BY <2>1, <2>2, RecordSet
  <2> QED
    BY <1>1, <1>2, <2>3 DEF BeginLaunch, NoLaunch, Walks
<1>3. CASE CheckClient(l)
  <2>1. \/ launch' = [launch EXCEPT ![l] = NoLaunch]
        \/ \E p \in {"check", "next"}, T \in SUBSET Client :
              launch' = [launch EXCEPT ![l] = [launch[l] EXCEPT !.pc = p, !.todo = T]]
    <3>1. CASE \E enabled \in EnabledSets :
                 launch' = [launch EXCEPT ![l].pc = "next", ![l].todo = enabled]
      BY <3>1, LaunchAssumption
    <3>2. CASE \E c \in launch[l].todo :
                 launch' = [launch EXCEPT ![l].todo = @ \ {c}]
      <4>1. PICK c \in launch[l].todo : launch' = [launch EXCEPT ![l].todo = @ \ {c}]
        BY <3>2
      <4>2. [launch[l] EXCEPT !.todo = @ \ {c}]
              = [launch[l] EXCEPT !.pc = "check", !.todo = launch[l].todo \ {c}]
        BY <1>0, <1>3 DEF CheckClient, LaunchAt, Launch
      <4>3. launch' = [launch EXCEPT ![l] = [launch[l] EXCEPT !.pc = "check",
                                               !.todo = launch[l].todo \ {c}]]
        BY <4>1, <4>2
      <4>4. launch[l].todo \ {c} \in SUBSET Client
        BY <1>0 DEF Launch
      <4> QED
        BY <4>3, <4>4
    <3> QED
      BY <1>3, <3>1, <3>2 DEF CheckClient
  <2>2. CASE launch' = [launch EXCEPT ![l] = NoLaunch]
    <3>1. Shown(NoLaunch)
      BY <1>0, <2>2, RecordSet
    <3> QED
      BY <1>1, <1>3, <3>1 DEF CheckClient, NoLaunch, Walks
  <2>3. CASE \E p \in {"check", "next"}, T \in SUBSET Client :
               launch' = [launch EXCEPT ![l] = [launch[l] EXCEPT !.pc = p, !.todo = T]]
    <3>1. PICK p \in {"check", "next"}, T \in SUBSET Client :
               launch' = [launch EXCEPT ![l] = [launch[l] EXCEPT !.pc = p, !.todo = T]]
      BY <2>3
    <3>2. [launch[l] EXCEPT !.pc = p, !.todo = T] \in Launch
      BY <1>0 DEF Launch, LaunchPc
    <3>3. Shown([launch[l] EXCEPT !.pc = p, !.todo = T])
      BY <3>1, <3>2, RecordSet
    <3> QED
      BY <1>0, <1>1, <1>3, <3>3 DEF CheckClient, Walks, Launch
  <2> QED
    BY <2>1, <2>2, <2>3
<1>4. CASE BeginCopy(l)
  <2>1. PICK o \in Job :
          /\ row[o].status # "absent"
          /\ ~Conflicting(ClientOf[o], Repo \cup {None})
          /\ launch' = [launch EXCEPT ![l] = [NoLaunch EXCEPT !.pc = "copy",
                                                !.copied = o]]
    BY <1>4 DEF BeginCopy
  <2>2. [NoLaunch EXCEPT !.pc = "copy", !.copied = o] \in Launch
    BY <1>0 DEF Launch, LaunchPc
  <2>3. Shown([NoLaunch EXCEPT !.pc = "copy", !.copied = o])
    BY <2>1, <2>2, RecordSet
  <2> QED
    BY <1>1, <1>4, <2>1, <2>3 DEF BeginCopy, NoLaunch, Walks
<1> QED
  BY <1>2, <1>3, <1>4

\* A launch that is over, or has failed.
LEMMA EndStep ==
    ASSUME LaunchTypeOK, NEW l \in Launcher, SignalFirst(l) \/ LaunchRaises(l)
    PROVE  /\ Walks(l) /\ UNCHANGED master
           /\ launch'[l] = NoLaunch /\ launch'[l].pc = "idle"
           /\ \A j \in Job : mine'[l][j] = NoRow
           /\ \A k \in Launcher \ {l} : mine'[k] = mine[k]
           /\ mine' \in [Launcher -> [Job -> Row]]
           /\ \/ SignalFirst(l) /\ LaunchAt(l) = "signal"
                 /\ SetStatus(launch[l].first, "pending")
              \/ LaunchRaises(l) /\ UNCHANGED row /\ LaunchAt(l) \notin {"idle", "check"}
<1>1. NoLaunch \in Launch /\ NoLaunch.pc = "idle"
  BY DEF NoLaunch, Launch, LaunchPc
<1>2. launch' = [launch EXCEPT ![l] = NoLaunch]
  BY DEF SignalFirst, LaunchRaises
<1>3. mine' = [mine EXCEPT ![l] = [j \in Job |-> NoRow]]
  BY DEF SignalFirst, LaunchRaises
<1>4. /\ \A j \in Job : mine'[l][j] = NoRow
      /\ \A k \in Launcher \ {l} : mine'[k] = mine[k]
      /\ mine' \in [Launcher -> [Job -> Row]]
  BY <1>3, NullRows DEF LaunchTypeOK
<1> QED
  BY <1>1, <1>2, <1>4, RecordSet DEF SignalFirst, LaunchRaises, Walks, Unlaunched,
     LaunchAt, Signalled

-----------------------------------------------------------------------------
(* What a launcher has in hand.                                            *)

\* The jobs it has saved: rows of this launch, that nothing has begun yet.
Queueing == {"new", "pending", "waiting"}
Hand(l) == {j \in Job \ Dependency : mine[l][j].status \in Queueing}
\* Those of the policy's repository.
Chaining(l) == {j \in Hand(l) : RepoOf[j] = LaunchRepo}

Creating == {"catalog", "attachCatalog", "prune", "attachPrune", "chain"}
Started == {"check", "next"} \cup Creating
HasCatalog(p) == \/ p = "attachCatalog"
                 \/ p \in {"prune", "attachPrune", "chain"} /\ CatalogEnabled
HasPrune(p) == p = "attachPrune" \/ (p = "chain" /\ Prunes)

\* Where it is says which of its jobs there are.
Staged(l) ==
    LET r == launch[l] IN
    /\ \A j \in Job : mine[l][j].status # "absent" =>
                        j \in Hand(l) /\ ~mine[l][j].cancel
    /\ r.pc \in {"idle", "check", "copy"} => Hand(l) = {}
    /\ r.pc = "copy" => r.copied \in Job
    /\ r.pc \in {"catalog", "attachCatalog"} => CatalogEnabled
    /\ r.pc \in {"prune", "attachPrune"} => Prunes
    /\ r.pc \in Started => /\ r.previous \in Chaining(l) \cup {None}
                           /\ r.first \in Hand(l) \cup {None}
    /\ r.pc \in Creating => /\ r.backup \in Chaining(l) /\ r.first # None
                            /\ r.catalog \in Chaining(l) \cup {None}
                            /\ r.prune \in Chaining(l) \cup {None}
    /\ HasCatalog(r.pc) => r.catalog # None
    /\ HasPrune(r.pc) => r.prune # None
    /\ r.pc \in {"renew", "signal"} => r.first \in Hand(l)
Stages == \A l \in Launcher : Staged(l)

Typed == LaunchTypeOK /\ PassShape /\ Stages

LEMMA HandGrows ==
    ASSUME LaunchTypeOK, NEW l \in Launcher, Staged(l), NEW s \in Queueing,
           NEW j \in Job, Creates(l, j, s)
    PROVE  /\ Hand(l)' = Hand(l) \cup {j} /\ j \notin Dependency
           /\ RepoOf[j] = LaunchRepo => Chaining(l)' = Chaining(l) \cup {j}
           /\ Hand(l) \subseteq Hand(l)' /\ Chaining(l) \subseteq Chaining(l)'
           /\ mine'[l][j] = NewRow(s)
           /\ \A k \in Job \ {j} : mine'[l][k] = mine[l][k]
           /\ \A k \in Job : mine'[l][k].status # "absent" =>
                 k \in Hand(l)' /\ ~mine'[l][k].cancel
           /\ mine' \in [Launcher -> [Job -> Row]] /\ row' \in [Job -> Row]
           /\ \A k \in Launcher \ {l} : mine'[k] = mine[k]
<1>1. NewRow(s) \in Row /\ NewRow(s).status = s /\ ~NewRow(s).cancel
  BY NewRows DEF Queueing, Status, NewRow
<1>2. /\ row' \in [Job -> Row] /\ mine' \in [Launcher -> [Job -> Row]]
      /\ mine'[l][j] = NewRow(s) /\ \A k \in Job \ {j} : mine'[l][k] = mine[l][k]
      /\ \A k \in Launcher \ {l} : mine'[k] = mine[k]
  BY <1>1, SavedMine DEF Creates
<1>3. j \in Job \ Dependency
  BY DEF Creates
<1>4. \A k \in Job : k \in Hand(l)' <=> k \in Hand(l) \/ k = j
  BY <1>1, <1>2, <1>3 DEF Hand
<1>5. Hand(l)' = Hand(l) \cup {j}
  BY <1>3, <1>4 DEF Hand
<1>6. \A k \in Job : mine'[l][k].status # "absent" =>
                       k \in Hand(l)' /\ ~mine'[l][k].cancel
  BY <1>1, <1>2, <1>5 DEF Staged
<1> QED
  BY <1>2, <1>3, <1>5, <1>6 DEF Chaining

LEMMA HandStays ==
    ASSUME LaunchTypeOK, NEW l \in Launcher, Staged(l), NEW j \in Hand(l),
           NEW r \in Row, r.status \in Queueing, ~r.cancel, SaveMine(l, j, r)
    PROVE  /\ Hand(l)' = Hand(l) /\ Chaining(l)' = Chaining(l)
           /\ mine'[l][j] = r
           /\ \A k \in Job \ {j} : mine'[l][k] = mine[l][k]
           /\ \A k \in Job : mine'[l][k].status # "absent" =>
                 k \in Hand(l)' /\ ~mine'[l][k].cancel
           /\ mine' \in [Launcher -> [Job -> Row]] /\ row' \in [Job -> Row]
           /\ \A k \in Launcher \ {l} : mine'[k] = mine[k]
<1>1. j \in Job \ Dependency
  BY DEF Hand
<1>2. /\ row' \in [Job -> Row] /\ mine' \in [Launcher -> [Job -> Row]]
      /\ mine'[l][j] = r /\ \A k \in Job \ {j} : mine'[l][k] = mine[l][k]
      /\ \A k \in Launcher \ {l} : mine'[k] = mine[k]
  BY <1>1, SavedMine
<1>3. \A k \in Job : k \in Hand(l)' <=> k \in Hand(l)
  BY <1>1, <1>2 DEF Hand
<1>4. Hand(l)' = Hand(l)
  BY <1>3 DEF Hand
<1> QED
  BY <1>2, <1>4 DEF Chaining, Staged

\* A job in hand is a row that is queued.
LEMMA HandRows ==
    ASSUME LaunchTypeOK, NEW l \in Launcher, Staged(l), NEW j \in Hand(l)
    PROVE  /\ j \in Job \ Dependency /\ j # None /\ mine[l][j] \in Row
           /\ mine[l][j].status \in Queueing /\ ~mine[l][j].cancel
<1>1. j \in Job \ Dependency /\ mine[l][j].status \in Queueing
  BY DEF Hand
<1>2. mine[l][j] \in Row /\ j # None
  BY <1>1, JobAssumption DEF LaunchTypeOK
<1>3. ~mine[l][j].cancel
  BY <1>1 DEF Staged, Queueing
<1> QED
  BY <1>1, <1>2, <1>3 DEF Row, Status

\* The steps that save a job of a client, or link one to another.
LinkStep(l, j, n) ==
    /\ Walks(l) /\ UNCHANGED master
    /\ j \in Chaining(l) /\ n \in Chaining(l) /\ Link(l, j, n)

LEMMA LinkKeeps ==
    ASSUME LaunchTypeOK, NEW l \in Launcher, Staged(l), NEW j, NEW n, LinkStep(l, j, n)
    PROVE  /\ Hand(l)' = Hand(l) /\ Chaining(l)' = Chaining(l)
           /\ mine'[l][j].dep = n /\ mine'[l][j].status = mine[l][j].status
           /\ \A k \in Job \ {j} : mine'[l][k] = mine[l][k]
           /\ \A k \in Job : mine'[l][k].status # "absent" =>
                 k \in Hand(l)' /\ ~mine'[l][k].cancel
           /\ mine' \in [Launcher -> [Job -> Row]] /\ row' \in [Job -> Row]
           /\ \A k \in Launcher \ {l} : mine'[k] = mine[k]
<1>1. j \in Hand(l) /\ n \in Job
  BY DEF LinkStep, Chaining, Hand
<1>2. SaveMine(l, j, [mine[l][j] EXCEPT !.dep = n])
  BY DEF LinkStep, Link
<1> DEFINE r == [mine[l][j] EXCEPT !.dep = n]
<1>3. /\ r \in Row /\ r.status = mine[l][j].status /\ ~r.cancel /\ r.dep = n
      /\ mine[l][j].status \in Queueing /\ j \in Job
  <2>1. j \in Job /\ mine[l][j] \in Row /\ mine[l][j].status \in Queueing
        /\ ~mine[l][j].cancel
    BY <1>1, HandRows
  <2> QED
    BY <1>1, <2>1 DEF Row
<1> HIDE DEF r
<1>4. SaveMine(l, j, r)
  BY <1>2 DEF r
<1> QED
  BY <1>1, <1>3, <1>4, HandStays

\* Where a launcher links two of its jobs it has both.
LEMMA LinkedInHand ==
    ASSUME LaunchTypeOK, NEW l \in Launcher, Staged(l)
    PROVE  /\ AttachCatalog(l) => LinkStep(l, launch[l].backup, launch[l].catalog)
           /\ AttachPrune(l) => LinkStep(l, Pruned(l), launch[l].prune)
                                /\ Pruned(l) \in Chaining(l)
           /\ LaunchAt(l) = "chain" => LastOfClient(l) \in Chaining(l)
           /\ ChainClient(l) /\ Chains(l) =>
                 LinkStep(l, launch[l].previous, LastOfClient(l))
<1> DEFINE p == launch[l].pc
<1>2. ASSUME p \in Creating
      PROVE  /\ launch[l].backup \in Chaining(l)
             /\ launch[l].previous \in Chaining(l) \cup {None}
             /\ HasCatalog(p) => launch[l].catalog \in Chaining(l)
             /\ HasPrune(p) => launch[l].prune \in Chaining(l)
  BY <1>2 DEF Staged, Started
<1>3. AttachCatalog(l) => LinkStep(l, launch[l].backup, launch[l].catalog)
  BY <1>2, AttachCatalogStep DEF LinkStep, LaunchAt, Creating, HasCatalog
<1>4. p = "attachPrune" => Pruned(l) \in Chaining(l)
  BY <1>2 DEF Pruned, Creating, HasCatalog
<1>5. AttachPrune(l) => LinkStep(l, Pruned(l), launch[l].prune)
  BY <1>2, <1>4, AttachPruneStep DEF LinkStep, LaunchAt, Creating, HasPrune
<1>6. p = "chain" => LastOfClient(l) \in Chaining(l)
  BY <1>2 DEF LastOfClient, Creating, HasCatalog, HasPrune
<1>7. ChainClient(l) /\ Chains(l) =>
          LinkStep(l, launch[l].previous, LastOfClient(l))
  BY <1>2, <1>6, ChainClientStep DEF LinkStep, LaunchAt, Creating, Chains
<1> QED
  BY <1>3, <1>4, <1>5, <1>6, <1>7, AttachPruneStep DEF LaunchAt

LEMMA StagedOther ==
    ASSUME NEW l, NEW k, launch'[k] = launch[k], mine'[k] = mine[k], Staged(k)
    PROVE  Staged(k)'
  BY DEF Staged, Hand, Chaining

LEMMA BackupStaged ==
    ASSUME LaunchTypeOK, NEW l \in Launcher, Staged(l), CreateBackup(l)
    PROVE  Staged(l)'
<1>1. PICK j \in Job :
        /\ LaunchAt(l) = "next" /\ Creates(l, j, "pending")
        /\ RepoOf[j] = LaunchRepo
        /\ launch'[l].pc = AfterBackup /\ launch'[l].backup = j
        /\ launch'[l].catalog = None /\ launch'[l].prune = None
        /\ launch'[l].previous = launch[l].previous
        /\ launch'[l].first = IF launch[l].first = None THEN j ELSE launch[l].first
  BY CreateBackupStep
<1>2. /\ Hand(l)' = Hand(l) \cup {j} /\ Chaining(l)' = Chaining(l) \cup {j}
      /\ \A k \in Job : mine'[l][k].status # "absent" =>
                           k \in Hand(l)' /\ ~mine'[l][k].cancel
  BY <1>1, HandGrows DEF Queueing
<1>3. j # None
  BY JobAssumption
<1>4. /\ launch[l].previous \in Chaining(l) \cup {None}
      /\ launch[l].first \in Hand(l) \cup {None}
  BY <1>1 DEF Staged, Started, LaunchAt
<1>5. /\ AfterBackup \in {"catalog", "prune", "chain"}
      /\ AfterBackup = "catalog" <=> CatalogEnabled
      /\ AfterBackup = "prune" => Prunes
      /\ AfterBackup = "chain" => ~Prunes
  BY LaunchAssumption DEF AfterBackup
<1> QED
  BY <1>1, <1>2, <1>3, <1>4, <1>5
     DEF Staged, Started, Creating, HasCatalog, HasPrune

LEMMA CreateCatalogStaged ==
    ASSUME LaunchTypeOK, NEW l \in Launcher, Staged(l), CreateCatalog(l)
    PROVE  Staged(l)'
<1>1. PICK j \in Job :
        /\ LaunchAt(l) = "catalog" /\ Creates(l, j, "waiting")
        /\ RepoOf[j] = LaunchRepo
        /\ launch'[l] = [launch[l] EXCEPT !.pc = "attachCatalog", !.catalog = j]
  BY CreateCatalogStep
<1>2. /\ Hand(l)' = Hand(l) \cup {j} /\ Chaining(l)' = Chaining(l) \cup {j}
      /\ \A k \in Job : mine'[l][k].status # "absent" =>
                           k \in Hand(l)' /\ ~mine'[l][k].cancel
  BY <1>1, HandGrows DEF Queueing
<1>3. j # None
  BY JobAssumption
<1>4. /\ launch'[l].pc = "attachCatalog" /\ launch'[l].catalog = j
      /\ launch'[l].backup = launch[l].backup /\ launch'[l].prune = launch[l].prune
      /\ launch'[l].previous = launch[l].previous /\ launch'[l].first = launch[l].first
  BY <1>1 DEF LaunchTypeOK, Launch
<1> QED
  BY <1>1, <1>2, <1>3, <1>4
     DEF Staged, Started, Creating, HasCatalog, HasPrune, LaunchAt

LEMMA CreatePruneStaged ==
    ASSUME LaunchTypeOK, NEW l \in Launcher, Staged(l), CreatePrune(l)
    PROVE  Staged(l)'
<1>1. PICK j \in Job :
        /\ LaunchAt(l) = "prune" /\ Creates(l, j, "waiting")
        /\ RepoOf[j] = LaunchRepo
        /\ launch'[l] = [launch[l] EXCEPT !.pc = "attachPrune", !.prune = j]
  BY CreatePruneStep
<1>2. /\ Hand(l)' = Hand(l) \cup {j} /\ Chaining(l)' = Chaining(l) \cup {j}
      /\ \A k \in Job : mine'[l][k].status # "absent" =>
                           k \in Hand(l)' /\ ~mine'[l][k].cancel
  BY <1>1, HandGrows DEF Queueing
<1>3. j # None
  BY JobAssumption
<1>4. /\ launch'[l].pc = "attachPrune" /\ launch'[l].prune = j
      /\ launch'[l].backup = launch[l].backup /\ launch'[l].catalog = launch[l].catalog
      /\ launch'[l].previous = launch[l].previous /\ launch'[l].first = launch[l].first
  BY <1>1 DEF LaunchTypeOK, Launch
<1> QED
  BY <1>1, <1>2, <1>3, <1>4
     DEF Staged, Started, Creating, HasCatalog, HasPrune, LaunchAt

LEMMA LinkStaged ==
    ASSUME LaunchTypeOK, NEW l \in Launcher, Staged(l),
           AttachCatalog(l) \/ AttachPrune(l) \/ ChainClient(l)
    PROVE  Staged(l)'
<1> DEFINE Saves == /\ Hand(l)' = Hand(l) /\ Chaining(l)' = Chaining(l)
                   /\ \A k \in Job : mine'[l][k].status # "absent" =>
                         k \in Hand(l)' /\ ~mine'[l][k].cancel
           Same == /\ launch'[l].backup = launch[l].backup
                   /\ launch'[l].catalog = launch[l].catalog
                   /\ launch'[l].prune = launch[l].prune
                   /\ launch'[l].first = launch[l].first
<1>1. CASE AttachCatalog(l)
  <2>1. Saves
    BY <1>1, LinkedInHand, LinkKeeps
  <2>2. LaunchAt(l) = "attachCatalog" /\ launch[l] \in Launch
        /\ launch'[l] = [launch[l] EXCEPT !.pc = IF Prunes THEN "prune" ELSE "chain"]
    BY <1>1, AttachCatalogStep DEF LaunchTypeOK
  <2>3. /\ Same /\ launch'[l].previous = launch[l].previous
        /\ launch'[l].pc = IF Prunes THEN "prune" ELSE "chain"
    BY <2>2 DEF Launch
  <2> QED
    BY <2>1, <2>2, <2>3 DEF Staged, Started, Creating, HasCatalog, HasPrune, LaunchAt
<1>2. CASE AttachPrune(l)
  <2>1. Saves
    BY <1>2, LinkedInHand, LinkKeeps
  <2>2. LaunchAt(l) = "attachPrune" /\ launch[l] \in Launch
        /\ launch'[l] = [launch[l] EXCEPT !.pc = "chain"]
    BY <1>2, AttachPruneStep DEF LaunchTypeOK
  <2>3. /\ Same /\ launch'[l].previous = launch[l].previous
        /\ launch'[l].pc = "chain"
    BY <2>2 DEF Launch
  <2> QED
    BY <2>1, <2>2, <2>3 DEF Staged, Started, Creating, HasCatalog, HasPrune, LaunchAt
<1>3. CASE ChainClient(l)
  <2>1. Saves
    <3>1. CASE ~Chains(l)
      <4>1. mine' = mine
        BY <1>3, <3>1, ChainClientStep
      <4> QED
        BY <4>1 DEF Staged, Hand, Chaining
    <3>2. CASE Chains(l)
      BY <1>3, <3>2, LinkedInHand, LinkKeeps
    <3> QED
      BY <3>1, <3>2
  <2>2. /\ LaunchAt(l) = "chain" /\ Same
        /\ launch'[l].previous = PreviousAfter(l)
        /\ launch'[l].pc \in {"renew", "next"}
    <3>1. PICK v, d : v = launch[l] /\ d = PreviousAfter(l)
      OBVIOUS
    <3>2. /\ LaunchAt(l) = "chain" /\ v \in Launch
          /\ launch'[l] = [v EXCEPT !.pc = IF v.todo = {} THEN "renew" ELSE "next",
                                    !.previous = d]
      BY <1>3, <3>1, ChainClientStep DEF LaunchTypeOK
    <3> QED
      BY <3>1, <3>2 DEF Launch
  <2>3. LastOfClient(l) \in Chaining(l)
    BY <2>2, LinkedInHand
  <2>4. PreviousAfter(l) \in Chaining(l) \cup {None}
    <3>1. launch[l].previous \in Chaining(l) \cup {None}
      BY <2>2 DEF Staged, Started, Creating, LaunchAt
    <3> QED
      BY <2>3, <3>1 DEF PreviousAfter
  <2> QED
    BY <2>1, <2>2, <2>3, <2>4
       DEF Staged, Started, Creating, HasCatalog, HasPrune, LaunchAt
<1> QED
  BY <1>1, <1>2, <1>3

LEMMA RenewKeeps ==
    ASSUME LaunchTypeOK, NEW l \in Launcher, Staged(l), RenewFirst(l)
    PROVE  /\ LaunchAt(l) = "renew" /\ launch[l].first \in Hand(l)
           /\ Hand(l)' = Hand(l) /\ mine'[l][launch[l].first].status = "new"
           /\ mine'[l][launch[l].first].dep = mine[l][launch[l].first].dep
           /\ ~mine'[l][launch[l].first].cancel
           /\ row'[launch[l].first] = mine'[l][launch[l].first]
           /\ \A k \in Job \ {launch[l].first} :
                 mine'[l][k] = mine[l][k] /\ row'[k] = row[k]
           /\ \A k \in Job : mine'[l][k].status # "absent" =>
                 k \in Hand(l)' /\ ~mine'[l][k].cancel
           /\ mine' \in [Launcher -> [Job -> Row]] /\ row' \in [Job -> Row]
           /\ \A k \in Launcher \ {l} : mine'[k] = mine[k]
<1> DEFINE j == launch[l].first
           r == [mine[l][j] EXCEPT !.status = "new"]
<1>1. LaunchAt(l) = "renew" /\ SaveMine(l, j, r)
  BY RenewFirstStep
<1>2. j \in Hand(l) /\ j \in Job
  BY <1>1 DEF Staged, LaunchAt, Hand
<1>3. r \in Row /\ r.status = "new" /\ ~r.cancel /\ r.dep = mine[l][j].dep
  <2>1. mine[l][j] \in Row /\ ~mine[l][j].cancel
    BY <1>2, HandRows
  <2> QED
    BY <2>1 DEF Row, Status
<1> HIDE DEF r
<1>4. /\ Hand(l)' = Hand(l) /\ mine'[l][j] = r
      /\ \A k \in Job \ {j} : mine'[l][k] = mine[l][k]
      /\ \A k \in Job : mine'[l][k].status # "absent" =>
            k \in Hand(l)' /\ ~mine'[l][k].cancel
      /\ mine' \in [Launcher -> [Job -> Row]] /\ row' \in [Job -> Row]
      /\ \A k \in Launcher \ {l} : mine'[k] = mine[k]
  BY <1>1, <1>2, <1>3, HandStays DEF Queueing
<1>5. row'[j] = r /\ \A k \in Job \ {j} : row'[k] = row[k]
  BY <1>1, <1>2, <1>3, SavedMine
<1> QED
  BY <1>1, <1>2, <1>3, <1>4, <1>5

LEMMA OneStaged ==
    ASSUME LaunchTypeOK, NEW l \in Launcher, Staged(l),
           LaunchStep(l) \/ LaunchRaises(l)
    PROVE  Staged(l)'
<1>1. CASE RenewFirst(l)
  <2>0. launch[l] \in Launch /\ launch'[l] = [launch[l] EXCEPT !.pc = "signal"]
    BY <1>1, RenewFirstStep DEF LaunchTypeOK
  <2>1. launch'[l].pc = "signal" /\ launch'[l].first = launch[l].first
    BY <2>0 DEF Launch
  <2> QED
    BY <1>1, <2>1, RenewKeeps DEF Staged, Started, Creating, HasCatalog, HasPrune
<1>2. CASE CopyJob(l) \/ CreateRestoreJob(l)
  <2>1. PICK j \in Job :
          /\ LaunchAt(l) = "copy" /\ Creates(l, j, "new")
          /\ launch'[l] = [launch[l] EXCEPT !.pc = "signal", !.first = j]
    BY <1>2, CopyStep
  <2>2. launch'[l].pc = "signal" /\ launch'[l].first = j
    BY <2>1 DEF LaunchTypeOK, Launch
  <2>3. /\ Hand(l)' = Hand(l) \cup {j}
        /\ \A k \in Job : mine'[l][k].status # "absent" =>
                             k \in Hand(l)' /\ ~mine'[l][k].cancel
    BY <2>1, HandGrows DEF Queueing
  <2> QED
    BY <2>2, <2>3 DEF Staged, Started, Creating, HasCatalog, HasPrune
<1>3. CASE BeginLaunch(l) \/ CheckClient(l) \/ BeginCopy(l)
  <2>0. mine' = mine
    BY <1>3, TestStep
  <2>1. \/ LaunchAt(l) = "idle" /\ launch'[l].pc \in {"check", "next"}
           /\ launch'[l].previous = None /\ launch'[l].first = None
        \/ /\ LaunchAt(l) = "check" /\ launch'[l].pc \in {"idle", "check", "next"}
           /\ launch'[l].pc # "idle" =>
                 /\ launch'[l].previous = launch[l].previous
                 /\ launch'[l].first = launch[l].first
        \/ LaunchAt(l) = "idle" /\ launch'[l].pc = "copy"
           /\ launch'[l].copied \in Job
    BY <1>3, TestStep
  <2>2. /\ launch[l].pc \in {"idle", "check"}
        /\ launch'[l].pc \in {"idle", "check", "next", "copy"}
        /\ launch'[l].pc = "copy" => launch'[l].copied \in Job
    BY <2>1 DEF LaunchAt
  <2>3. Hand(l)' = Hand(l) /\ Chaining(l)' = Chaining(l)
    BY <2>0 DEF Hand, Chaining
  <2>4. Hand(l) = {}
    BY <2>2 DEF Staged
  <2>6. \A j \in Job : mine'[l][j].status = "absent"
    BY <2>0, <2>4 DEF Staged
  <2>5. launch'[l].pc \in {"check", "next"} =>
          /\ launch'[l].previous \in Chaining(l) \cup {None}
          /\ launch'[l].first \in Hand(l) \cup {None}
    BY <2>1, <2>2 DEF Staged, Started, LaunchAt
  <2> QED
    BY <2>2, <2>3, <2>4, <2>5, <2>6 DEF Staged, Started, Creating, HasCatalog, HasPrune
<1>4. CASE SignalFirst(l) \/ LaunchRaises(l)
  <2>1. launch'[l].pc = "idle" /\ \A j \in Job : mine'[l][j] = NoRow
    BY <1>4, EndStep
  <2>2. Hand(l)' = {}
    BY <2>1 DEF Hand, NoRow, Queueing
  <2> QED
    BY <2>1, <2>2 DEF Staged, Started, Creating, HasCatalog, HasPrune, NoRow
<1> QED
  BY <1>1, <1>2, <1>3, <1>4, BackupStaged, CreateCatalogStaged, CreatePruneStaged,
     LinkStaged DEF LaunchStep, LaunchRound

-----------------------------------------------------------------------------
(* What a launcher does to the table, as long as the rows it has in hand   *)
(* are as it has saved them.                                               *)

InHand(l) ==
    \A j \in Hand(l) : /\ row[j].status = mine[l][j].status
                       /\ row[j].dep = mine[l][j].dep

\* A row is added, or one that nothing has begun is saved; at most it now holds
\* up another one of the launch.
Touched(l, j) ==
    /\ row[j].status \in Queueing \cup {"absent"} /\ row'[j].status \in Queueing
    /\ row'[j].cancel => row[j].cancel
    /\ \/ row'[j].dep = None
       \/ row'[j].dep = row[j].dep /\ row[j].status \in Queueing
       \/ j \in Chaining(l) /\ row'[j].dep \in Chaining(l)
Written(l) ==
    /\ Walks(l)
    /\ row' \in [Job -> Row] /\ mine' \in [Launcher -> [Job -> Row]]
    /\ master' \in [Job -> Job \cup {None}]
    /\ \A k \in Launcher \ {l} : mine'[k] = mine[k]
    /\ LaunchAt(l) \in {"idle", "check"} => row' = row
    /\ InHand(l) => /\ InHand(l)'
                    /\ \A j \in Job : row'[j] = row[j] \/ Touched(l, j)

LEMMA CreatesWritten ==
    ASSUME LaunchTypeOK, NEW l \in Launcher, Staged(l), NEW s \in Queueing,
           NEW j \in Job, Creates(l, j, s), LaunchAt(l) \notin {"idle", "check"},
           NEW m \in Job \cup {None},
           master' = master \/ master' = [master EXCEPT ![j] = m]
    PROVE  Written(l)
<1>1. /\ Hand(l)' = Hand(l) \cup {j} /\ mine'[l][j] = NewRow(s)
      /\ \A k \in Job \ {j} : mine'[l][k] = mine[l][k]
      /\ row' \in [Job -> Row] /\ mine' \in [Launcher -> [Job -> Row]]
      /\ \A k \in Launcher \ {l} : mine'[k] = mine[k]
  BY HandGrows
<1>2. /\ s \in Status /\ NewRow(s) \in Row /\ NewRow(s).status = s /\ ~NewRow(s).cancel
      /\ NewRow(s).dep = None
  BY NewRows DEF Queueing, Status, NewRow
<1>3. /\ row'[j] = NewRow(s) /\ \A k \in Job \ {j} : row'[k] = row[k]
      /\ row[j].status = "absent"
  BY <1>2, SavedMine DEF Creates
<1>4. master' \in [Job -> Job \cup {None}]
  BY DEF LaunchTypeOK
<1>5. InHand(l) => InHand(l)'
  BY <1>1, <1>3 DEF InHand, Hand
<1>6. \A k \in Job : row'[k] = row[k] \/ Touched(l, k)
  BY <1>2, <1>3 DEF Touched
<1> QED
  BY <1>1, <1>4, <1>5, <1>6 DEF Written, Creates

\* A job in hand is saved again.
LEMMA SavesWritten ==
    ASSUME LaunchTypeOK, NEW l \in Launcher, Staged(l), NEW j \in Hand(l),
           NEW r \in Row, r.status \in Queueing, ~r.cancel, SaveMine(l, j, r),
           \/ r.dep = mine[l][j].dep
           \/ j \in Chaining(l) /\ r.dep \in Chaining(l),
           Walks(l), UNCHANGED master
    PROVE  Written(l)
<1>1. /\ Hand(l)' = Hand(l) /\ mine'[l][j] = r
      /\ \A k \in Job \ {j} : mine'[l][k] = mine[l][k]
      /\ row' \in [Job -> Row] /\ mine' \in [Launcher -> [Job -> Row]]
      /\ \A k \in Launcher \ {l} : mine'[k] = mine[k]
  BY HandStays
<1>2. j \in Job /\ mine[l][j].status \in Queueing
  BY DEF Hand
<1>3. row'[j] = r /\ \A k \in Job \ {j} : row'[k] = row[k]
  BY <1>2, SavedMine
<1>4. LaunchAt(l) \notin {"idle", "check"}
  BY DEF Staged, LaunchAt
<1>5. InHand(l) => InHand(l)'
  BY <1>1, <1>3 DEF InHand, Hand
<1>6. InHand(l) => \A k \in Job : row'[k] = row[k] \/ Touched(l, k)
  BY <1>2, <1>3 DEF Touched, InHand
<1>7. master' \in [Job -> Job \cup {None}]
  BY DEF LaunchTypeOK
<1> QED
  BY <1>1, <1>4, <1>5, <1>6, <1>7 DEF Written

LEMMA LinkWritten ==
    ASSUME LaunchTypeOK, NEW l \in Launcher, Staged(l), NEW j, NEW n, LinkStep(l, j, n)
    PROVE  Written(l)
<1>1. j \in Hand(l) /\ n \in Job
  BY DEF LinkStep, Chaining, Hand
<1> DEFINE r == [mine[l][j] EXCEPT !.dep = n]
<1>2. mine[l][j] \in Row /\ mine[l][j].status \in Queueing /\ ~mine[l][j].cancel
  BY <1>1, HandRows
<1>3. r \in Row /\ r.status \in Queueing /\ ~r.cancel /\ r.dep = n
  BY <1>1, <1>2 DEF Row
<1>4. /\ SaveMine(l, j, r) /\ Walks(l) /\ UNCHANGED master
      /\ j \in Chaining(l) /\ n \in Chaining(l)
  BY DEF LinkStep, Link
<1> HIDE DEF r
<1> QED
  BY <1>1, <1>3, <1>4, SavesWritten

\* A step that saves nothing.
LEMMA NothingWritten ==
    ASSUME LaunchTypeOK, NEW l \in Launcher, Walks(l), UNCHANGED <<row, mine, master>>
    PROVE  Written(l)
  BY DEF Written, LaunchTypeOK, TypeOK, InHand, Hand

\* A launch is over: nothing is left in hand.
LEMMA EndWritten ==
    ASSUME LaunchTypeOK, NEW l \in Launcher, Staged(l),
           SignalFirst(l) \/ LaunchRaises(l)
    PROVE  Written(l)
<1>1. /\ Walks(l) /\ UNCHANGED master
      /\ \A j \in Job : mine'[l][j] = NoRow
      /\ \A k \in Launcher \ {l} : mine'[k] = mine[k]
      /\ mine' \in [Launcher -> [Job -> Row]]
      /\ \/ LaunchAt(l) = "signal" /\ SetStatus(launch[l].first, "pending")
         \/ row' = row
  BY EndStep
<1>2. InHand(l)'
  BY <1>1 DEF InHand, Hand, NoRow, Queueing
<1>3. master' \in [Job -> Job \cup {None}]
  BY <1>1 DEF LaunchTypeOK
<1>4. CASE row' = row
  BY <1>1, <1>2, <1>3, <1>4 DEF Written, LaunchTypeOK, TypeOK
<1>5. CASE LaunchAt(l) = "signal" /\ SetStatus(launch[l].first, "pending")
  <2> DEFINE f == launch[l].first
  <2>1. f \in Hand(l) /\ f \in Job
    BY <1>5 DEF Staged, LaunchAt, Hand
  <2>2. row' = [row EXCEPT ![f] = [row[f] EXCEPT !.status = "pending"]]
    BY <1>5 DEF SetStatus
  <2>3. row[f] \in Row /\ row \in [Job -> Row]
    BY <2>1 DEF LaunchTypeOK, TypeOK
  <2>4. /\ [row[f] EXCEPT !.status = "pending"] \in Row
        /\ [row[f] EXCEPT !.status = "pending"].status = "pending"
        /\ [row[f] EXCEPT !.status = "pending"].cancel = row[f].cancel
        /\ [row[f] EXCEPT !.status = "pending"].dep = row[f].dep
    BY <2>3 DEF Row, Status
  <2>5. /\ row' \in [Job -> Row] /\ row'[f].status = "pending"
        /\ row'[f].cancel = row[f].cancel /\ row'[f].dep = row[f].dep
        /\ \A k \in Job \ {f} : row'[k] = row[k]
    BY <2>1, <2>2, <2>3, <2>4
  <2>6. InHand(l) => row[f].status \in Queueing
    BY <2>1 DEF InHand, Hand
  <2> HIDE DEF f
  <2>7. InHand(l) => \A k \in Job : row'[k] = row[k] \/ Touched(l, k)
    BY <2>5, <2>6 DEF Touched, Queueing
  <2> QED
    BY <1>1, <1>2, <1>3, <1>5, <2>5, <2>7 DEF Written
<1> QED
  BY <1>1, <1>4, <1>5

LEMMA LaunchWritten ==
    ASSUME LaunchTypeOK, NEW l \in Launcher, Staged(l),
           LaunchStep(l) \/ LaunchRaises(l)
    PROVE  Written(l)
<1>0. /\ launch[l] \in Launch /\ \A j \in Job : master[j] \in Job \cup {None}
      /\ launch[l].backup \in Job \cup {None} /\ Pruned(l) \in Job \cup {None}
      /\ launch[l].copied \in Job \cup {None}
  BY DEF LaunchTypeOK, Launch, Pruned
<1>1. CASE CreateBackup(l)
  <2>1. PICK j \in Job : LaunchAt(l) = "next" /\ Creates(l, j, "pending")
                           /\ UNCHANGED master
    BY <1>1, CreateBackupStep
  <2> QED
    BY <2>1, CreatesWritten DEF Queueing
<1>2. CASE CreateCatalog(l)
  <2>1. PICK j \in Job : LaunchAt(l) = "catalog" /\ Creates(l, j, "waiting")
                           /\ master' = [master EXCEPT ![j] = launch[l].backup]
    BY <1>2, CreateCatalogStep
  <2> QED
    BY <1>0, <2>1, CreatesWritten DEF Queueing
<1>3. CASE CreatePrune(l)
  <2>1. PICK j \in Job : LaunchAt(l) = "prune" /\ Creates(l, j, "waiting")
                           /\ master' = [master EXCEPT ![j] = Pruned(l)]
    BY <1>3, CreatePruneStep
  <2> QED
    BY <1>0, <2>1, CreatesWritten DEF Queueing
<1>4. CASE AttachCatalog(l) \/ AttachPrune(l)
  BY <1>4, LinkedInHand, LinkWritten
<1>5. CASE ChainClient(l)
  <2>1. CASE ~Chains(l)
    BY <1>5, <2>1, ChainClientStep, NothingWritten
  <2>2. CASE Chains(l)
    BY <1>5, <2>2, LinkedInHand, LinkWritten
  <2> QED
    BY <2>1, <2>2
<1>6. CASE RenewFirst(l)
  <2> DEFINE f == launch[l].first
             r == [mine[l][f] EXCEPT !.status = "new"]
  <2>1. /\ Walks(l) /\ UNCHANGED master /\ SaveMine(l, f, r)
        /\ LaunchAt(l) = "renew"
    BY <1>6, RenewFirstStep
  <2>2. f \in Hand(l)
    BY <2>1 DEF Staged, LaunchAt
  <2>3. mine[l][f] \in Row /\ ~mine[l][f].cancel
    BY <2>2, HandRows
  <2>4. r \in Row /\ r.status \in Queueing /\ ~r.cancel /\ r.dep = mine[l][f].dep
    BY <2>3 DEF Row, Status, Queueing
  <2> HIDE DEF f, r
  <2> QED
    BY <2>1, <2>2, <2>4, SavesWritten
<1>7. CASE CopyJob(l) \/ CreateRestoreJob(l)
  <2>1. PICK j \in Job : /\ LaunchAt(l) = "copy" /\ Creates(l, j, "new")
                         /\ \/ UNCHANGED master
                            \/ master' = [master EXCEPT ![j] = master[launch[l].copied]]
    BY <1>7, CopyStep
  <2>2. master' = master
        \/ \E m \in Job \cup {None} : master' = [master EXCEPT ![j] = m]
    <3>1. launch[l].copied \in Job
      BY <2>1 DEF Staged, LaunchAt
    <3> QED
      BY <1>0, <2>1, <3>1
  <2> QED
    BY <2>1, <2>2, CreatesWritten DEF Queueing
<1>8. CASE BeginLaunch(l) \/ CheckClient(l) \/ BeginCopy(l)
  BY <1>8, TestStep, NothingWritten
<1> QED
  BY <1>1, <1>2, <1>3, <1>4, <1>5, <1>6, <1>7, <1>8, EndWritten
     DEF LaunchStep, LaunchRound

-----------------------------------------------------------------------------
(* Types, and where launchers are, as an invariant.                        *)

\* What is recorded when nothing has gone wrong yet.
LEMMA NotRaced ==
    ASSUME LaunchTypeOK, Record
    PROVE  /\ raced' \in BOOLEAN
           /\ ~raced' => ~raced /\ ~Overlap'
           /\ ~raced' => \A l \in Launcher : HalfDone(l) => LaunchAt(l)' # "idle"
  BY DEF Record, LaunchTypeOK

LEMMA LauncherTyped ==
    ASSUME Typed, NEW l \in Launcher, LaunchStep(l) \/ LaunchRaises(l),
           failed' = failed \/ LaunchRaises(l), Record
    PROVE  Typed'
<1> USE DEF Typed
<1>1. Staged(l) /\ Written(l) /\ Staged(l)'
  BY LaunchWritten, OneStaged DEF Stages
<1>2. Stages'
  BY <1>1, StagedOther DEF Stages, Written, Walks
<1>3. PassShape'
  BY <1>1 DEF PassShape, Written, Walks, pass
<1>4. TypeOK'
  BY <1>1 DEF LaunchTypeOK, TypeOK, Written, Walks, pass
<1>5. failed' \subseteq Job
  BY DEF LaunchRaises, LaunchTypeOK, Launch
<1>6. raced' \in BOOLEAN
  BY NotRaced
<1> QED
  BY <1>1, <1>2, <1>3, <1>4, <1>5, <1>6 DEF LaunchTypeOK, Written, Walks

LEMMA TypedStep ==
    ASSUME Typed, [LaunchNext]_launchVars
    PROVE  Typed'
<1> USE DEF Typed
<1>1. CASE Apart(Next)
  <2>1. TypeOK' /\ PassShape' /\ raced' \in BOOLEAN
    BY <1>1, TypeStep, NotRaced DEF Apart, LaunchTypeOK
  <2>2. Stages'
    BY <1>1, StagedOther DEF Apart, Stages
  <2> QED
    BY <1>1, <2>1, <2>2 DEF Apart, LaunchTypeOK
<1>2. CASE UNCHANGED launchVars
  <2>1. UNCHANGED vars /\ UNCHANGED <<launch, mine, master, raced, failed>>
    BY <1>2 DEF launchVars, launching
  <2>2. TypeOK' /\ PassShape'
    BY <2>1, TypeStep DEF LaunchTypeOK
  <2>3. Stages'
    BY <2>1, StagedOther DEF Stages
  <2> QED
    BY <2>1, <2>2, <2>3 DEF LaunchTypeOK
<1>3. ASSUME NEW l \in Launcher, LaunchStep(l) /\ UNCHANGED failed /\ Record
      PROVE  Typed'
  BY <1>3, LauncherTyped
<1>4. ASSUME NEW l \in Launcher, LaunchRaises(l) /\ Record
      PROVE  Typed'
  BY <1>4, LauncherTyped
<1> QED
  BY <1>1, <1>2, <1>3, <1>4 DEF LaunchNext

LEMMA TypedInvariant == LaunchSpec => []Typed
<1>1. LaunchInit => Typed
  <2> SUFFICES ASSUME LaunchInit PROVE Typed
    OBVIOUS
  <2>1. TypeOK /\ PassShape
    BY InitType DEF LaunchInit
  <2>2. NoLaunch \in Launch /\ NoLaunch.pc = "idle"
    BY DEF NoLaunch, Launch, LaunchPc
  <2>3. NoRow \in Row /\ NoRow.status = "absent"
    BY NullRows DEF NoRow
  <2>4. LaunchTypeOK
    BY <2>1, <2>2, <2>3 DEF LaunchInit, LaunchTypeOK
  <2>5. \A l \in Launcher : Hand(l) = {}
    BY <2>3 DEF LaunchInit, Hand, Queueing
  <2>6. Stages
    BY <2>2, <2>3, <2>5 DEF LaunchInit, Stages, Staged, Started, Creating,
       HasCatalog, HasPrune
  <2> QED
    BY <2>1, <2>4, <2>6 DEF Typed
<1>2. Typed /\ [LaunchNext]_launchVars => Typed'
  BY TypedStep
<1> QED
  BY <1>1, <1>2, PTL DEF LaunchSpec

-----------------------------------------------------------------------------
(* A job is not started twice.                                             *)

\* The rows a launcher saves hold no repository and no client, and no pass or
\* message is about them.
LEMMA TouchedCalm ==
    ASSUME Known, UNCHANGED <<pass, deliv, api>>, row' \in [Job -> Row],
           \A s \in Scheduler : pc[s] = "idle", NEW l \in Launcher,
           \A j \in Job : row'[j] = row[j] \/ Touched(l, j)
    PROVE  CalmInv'
<1> USE DEF Known
<1>0. UNCHANGED <<lock, pc, todo, obj, dirty, deps, left, sends, cleared>>
  BY DEF pass
<1>1. \A s \in Scheduler : dirty[s] = {} /\ sends[s] = {}
  BY DEF PassShape, Inside, CalmInv, Sent
<1>2. Messages'
  <2>1. ASSUME NEW d \in Job \X Slot, Alive(d)
        PROVE  row'[d[1]] = row[d[1]] /\ Recorded(d) /\ Checked(d)
    <3>1. Recorded(d) /\ Checked(d) /\ deliv[d] \in Delivery /\ d[1] \in Job
      BY <2>1 DEF CalmInv, Messages, TypeOK
    <3>2. row[d[1]].status \notin Queueing \cup {"absent"}
      BY <2>1, <3>1 DEF Recorded, Alive, Delivery, DeliveryPc, Queueing
    <3> QED
      BY <3>1, <3>2 DEF Touched
  <2> QED
    BY <2>1 DEF CalmInv, Messages, Alive, Recorded, Checked
<1>3. Uncanceled'
  BY <1>0 DEF CalmInv, Uncanceled, Touched, TypeOK, Row
<1>4. Current' /\ Sent'
  BY <1>0, <1>1 DEF Current, Sent, Inside
<1>5. Exclusive'
  <2>1. \A s \in Scheduler, j \in Job : View(s)[j] = row[j] /\ View(s)'[j] = row'[j]
    BY <1>0, <1>1 DEF View
  <2>2. \A j \in Job : Busy(row'[j]) => Busy(row[j])
    BY DEF Touched, Queueing, Busy
  <2> QED
    BY <2>1, <2>2 DEF CalmInv, Exclusive, Conflict
<1> QED
  BY <1>2, <1>3, <1>4, <1>5 DEF CalmInv

CalmLaunch ==
    ~raced => /\ ~Overlap /\ CalmInv
              /\ \A l \in Launcher : InHand(l)

\* Only the launcher that writes has rows in hand, and then no pass is under way.
LEMMA OneWriter ==
    ASSUME Typed, ~Overlap, NEW l \in Launcher, l \in Writing
    PROVE  /\ \A s \in Scheduler : pc[s] = "idle"
           /\ \A k \in Launcher \ {l} : Hand(k) = {} /\ k \notin Writing
<1>1. \A s \in Scheduler : pc[s] = "idle"
  BY DEF Overlap
<1>2. \A k \in Launcher \ {l} : k \notin Writing
  BY DEF Overlap, Writing
<1>3. \A k \in Launcher : k \notin Writing => Hand(k) = {}
  BY DEF Writing, LaunchAt, Typed, Stages, Staged
<1> QED
  BY <1>1, <1>2, <1>3

\* While a launcher writes, only workers and users do anything else.
LEMMA ApartFromPasses ==
    ASSUME Typed, ~Overlap, ~Overlap', Writing # {}, Apart(Next)
    PROVE  \/ \E d \in Job \X Slot :
                WorkerStep(d) \/ ReportReady(d) \/ WorkerCrash(d) \/ Redeliver(d)
           \/ UserStep
<1>1. PICK l \in Launcher : l \in Writing
  BY DEF Writing
<1>2. \A s \in Scheduler : pc[s] = "idle"
  BY <1>1, OneWriter
<1>3. Writing' # {}
  BY <1>1 DEF Apart, Writing, LaunchAt
<1>4. \A s \in Scheduler : pc'[s] = "idle"
  BY <1>3 DEF Overlap
<1>5. ASSUME NEW s \in Scheduler, PassStep(s) \/ SchedulerCrash(s)
      PROVE  FALSE
  <2>1. BeginPass(s)
    BY <1>2, <1>5 DEF PassStep, SchedulerCrash, ProcessWaiting, ProcessPending,
       GenerateDependencies, ProcessDependency, ProcessTask, ReleaseLock, Commit, SendTask
  <2> QED
    BY <1>4, <2>1 DEF BeginPass, Typed, LaunchTypeOK, TypeOK
<1> QED
  BY <1>5 DEF Apart, Next

LEMMA ApartCalm ==
    ASSUME Calm, Typed, ~Overlap, CalmInv, \A l \in Launcher : InHand(l),
           Apart(Next), ~Overlap'
    PROVE  CalmInv' /\ \A l \in Launcher : InHand(l)'
<1>0. Known
  BY DEF Known, Typed, LaunchTypeOK
<1>1. CalmInv'
  BY <1>0, CalmStep DEF Known, Apart
<1>2. CASE Writing = {}
  <2>1. \A l \in Launcher : Hand(l) = {}
    BY <1>2 DEF Writing, LaunchAt, Typed, Stages, Staged
  <2>2. \A l \in Launcher : Hand(l)' = {}
    BY <2>1 DEF Apart, Hand
  <2> QED
    BY <1>1, <2>2 DEF InHand
<1>3. CASE Writing # {}
  <2>1. \A k \in Job : /\ row'[k].dep = row[k].dep
                       /\ row[k].status \in Queueing => row'[k].status = row[k].status
    BY <1>0, <1>3, ApartFromPasses, RowsCalm DEF Queueing
  <2>2. \A l \in Launcher : Hand(l)' = Hand(l) /\ mine' = mine
    BY DEF Apart, Hand
  <2>3. ASSUME NEW l \in Launcher, NEW j \in Hand(l)'
        PROVE  row'[j].status = mine'[l][j].status /\ row'[j].dep = mine'[l][j].dep
    <3>1. j \in Job /\ j \in Hand(l) /\ mine[l][j].status \in Queueing
      BY <2>2, <2>3 DEF Hand
    <3> QED
      BY <2>1, <2>2, <3>1 DEF InHand
  <2> QED
    BY <1>1, <2>3 DEF InHand
<1> QED
  BY <1>2, <1>3

LEMMA LauncherCalm ==
    ASSUME Calm, Typed, ~Overlap, CalmInv, \A l \in Launcher : InHand(l),
           NEW l \in Launcher, LaunchStep(l) \/ LaunchRaises(l)
    PROVE  /\ CalmInv' /\ \A k \in Launcher : InHand(k)'
           /\ UNCHANGED <<pass, deliv, api>>
           /\ \A j \in Job : row'[j] = row[j] \/ Touched(l, j)
<1>0. Known
  BY DEF Known, Typed, LaunchTypeOK
<1>1. Written(l)
  BY LaunchWritten DEF Typed, Stages
<1>2. /\ UNCHANGED <<pass, deliv, api>> /\ row' \in [Job -> Row]
      /\ InHand(l)' /\ \A j \in Job : row'[j] = row[j] \/ Touched(l, j)
  BY <1>1 DEF Written, Walks
<1>3. CASE row' = row
  <2>1. CalmInv'
    BY <1>0, <1>2, <1>3, CancelFlagCalm DEF Known, CalmInv, Uncanceled
  <2>2. ASSUME NEW k \in Launcher \ {l}
        PROVE  InHand(k)'
    BY <1>1, <1>3 DEF InHand, Hand, Written
  <2> QED
    BY <1>2, <2>1, <2>2
<1>4. CASE row' # row
  <2>1. l \in Writing
    BY <1>1, <1>4 DEF Written, Writing, LaunchAt
  <2>2. CalmInv'
    BY <1>0, <1>2, <2>1, OneWriter, TouchedCalm
  <2>3. ASSUME NEW k \in Launcher \ {l}
        PROVE  InHand(k)'
    <3>1. Hand(k) = {} /\ mine'[k] = mine[k]
      BY <1>1, <2>1, OneWriter DEF Written
    <3> QED
      BY <3>1 DEF InHand, Hand
  <2> QED
    BY <1>2, <2>2, <2>3
<1> QED
  BY <1>3, <1>4

LEMMA CalmLaunchStep ==
    ASSUME Calm, Typed, CalmLaunch, [LaunchNext]_launchVars
    PROVE  CalmLaunch'
<1> SUFFICES ASSUME ~raced'
             PROVE  /\ ~Overlap' /\ CalmInv'
                    /\ \A l \in Launcher : InHand(l)'
  BY DEF CalmLaunch
<1>1. CASE UNCHANGED launchVars
  <2>0. UNCHANGED <<row, ready, toUpdate, pass, deliv, api, launch, mine, master, raced>>
    BY <1>1 DEF launchVars, launching, vars
  <2>1. ~Overlap /\ CalmInv /\ \A l \in Launcher : InHand(l)
    BY <2>0 DEF CalmLaunch
  <2>2. Known /\ UNCHANGED vars
    BY <2>0, <2>1 DEF Known, Typed, LaunchTypeOK, vars
  <2>3. CalmInv'
    BY <2>2, CalmStep DEF Known
  <2>4. ~Overlap'
    BY <2>0, <2>1 DEF Overlap, Writing, LaunchAt, pass
  <2>5. \A l \in Launcher : InHand(l)'
    BY <2>0, <2>1 DEF InHand, Hand
  <2> QED
    BY <2>3, <2>4, <2>5
<1>2. CASE LaunchNext
  <2>1. ~raced /\ ~Overlap'
    BY <1>2, NotRaced DEF LaunchNext, Apart, Typed
  <2>2. ~Overlap /\ CalmInv /\ \A l \in Launcher : InHand(l)
    BY <2>1 DEF CalmLaunch
  <2> QED
    BY <1>2, <2>1, <2>2, ApartCalm, LauncherCalm DEF LaunchNext
<1> QED
  BY <1>1, <1>2

LEMMA CalmLaunchInvariant ==
    ASSUME Calm
    PROVE  LaunchSpec => [](Typed /\ CalmLaunch)
<1>1. LaunchInit => CalmLaunch
  <2> SUFFICES ASSUME LaunchInit PROVE CalmLaunch
    OBVIOUS
  <2>1. CalmInv
    BY CalmInit DEF LaunchInit
  <2>2. \A l \in Launcher : Hand(l) = {} /\ l \notin Writing
    BY DEF LaunchInit, Hand, NoRow, Queueing, Writing, LaunchAt, NoLaunch
  <2> QED
    BY <2>1, <2>2 DEF CalmLaunch, Overlap, Writing, InHand
<1>2. Typed /\ CalmLaunch /\ [LaunchNext]_launchVars => CalmLaunch'
  BY CalmLaunchStep
<1> QED
  BY <1>1, <1>2, TypedInvariant, PTL DEF LaunchSpec

\* Under Calm, and as long as launches, relaunches and restores meet no pass and
\* no other launch and none of them fails half way, no two workers run
\* conflicting jobs, and none a job that another has: what is saved from objects
\* in memory is never saved over a row that was started meanwhile.
THEOREM AloneWhenLaunched ==
    ASSUME Calm
    PROVE  LaunchSpec => []LaunchedAlone
<1>1. Typed /\ CalmLaunch => LaunchedAlone
  BY CalmExcludes DEF CalmLaunch, LaunchedAlone, Known, Typed, LaunchTypeOK
<1> QED
  BY <1>1, CalmLaunchInvariant, PTL

-----------------------------------------------------------------------------
(***************************************************************************)
(* The order of a launch.  A catalog or prune job has the job it is made   *)
(* for as master_job from the moment it is saved, but only the save after  *)
(* that makes it wait for it: in between, Building says that a launcher is *)
(* about to.                                                               *)
(***************************************************************************)
Builds(l, m, j) ==
    \/ LaunchAt(l) = "attachCatalog" /\ m = launch[l].backup /\ j = launch[l].catalog
    \/ LaunchAt(l) = "attachPrune" /\ m = Pruned(l) /\ j = launch[l].prune
Building(m, j) == \E l \in Launcher : Builds(l, m, j)

\* m is over, or j has not begun and waits for it.
Follows(m, j) ==
    \/ row[m].status \in Finished
    \/ /\ row[j].status \in {"pending", "waiting"}
       /\ row[m].dep = j \/ Building(m, j)
OrderedAt(j) ==
    master[j] # None =>
        /\ master[j] \in Job \ Dependency
        /\ row[j].status # "absent" /\ row[master[j]].status # "absent"
        /\ Follows(master[j], j)
Ordered == \A j \in Job : OrderedAt(j)

\* The jobs of a launcher that nothing waits for yet.
Ends(l) ==
    LET r == launch[l] IN
    CASE r.pc = "catalog" -> {r.backup}
      [] r.pc = "attachCatalog" -> {r.backup, r.catalog}
      [] r.pc = "prune" -> {Pruned(l)}
      [] r.pc = "attachPrune" -> {Pruned(l), r.prune}
      [] r.pc = "chain" -> {LastOfClient(l)}
      [] OTHER -> {}
\* It links those, and no other; what it links has no order yet to lose.
Loose(l) ==
    LET r == launch[l] IN
    /\ \A j \in Ends(l) : mine[l][j].dep = None
    /\ r.pc \in {"next"} \cup Creating /\ r.previous # None
          => mine[l][r.previous].dep = None
    /\ r.pc \in Creating /\ r.previous # None
          => r.previous \notin {r.backup, r.catalog, r.prune}
    /\ r.pc = "attachCatalog" => r.backup # r.catalog
    /\ r.pc = "attachPrune" => Pruned(l) # r.prune
    /\ r.pc \in {"next", "renew"} \cup Creating /\ r.first # None
          => master[r.first] = None
    /\ r.pc = "copy" /\ master[r.copied] # None
          => row[master[r.copied]].status \in Finished

OrderedLaunch ==
    ~raced => /\ FirstStart /\ DepInv /\ Ordered
              /\ \A l \in Launcher : Loose(l)

-----------------------------------------------------------------------------
(* Passes, workers and users keep that order.                              *)

\* The commit of a pass starts a job only when the one it was made for is over.
LEMMA PassOrdered ==
    ASSUME Waits, FirstStart, Ordered, NEW s \in Scheduler,
           PassStep(s) \/ SchedulerCrash(s), UNCHANGED <<launch, master>>,
           \A m, j \in Job : ~Building(m, j)
    PROVE  Ordered'
<1> USE DEF Waits, Known
<1>1. CASE row' = row
  BY <1>1 DEF Ordered, OrderedAt, Follows, Building, Builds, LaunchAt, Pruned
<1>2. CASE Commit(s)
  <2>1. \A k \in Job : row'[k] = View(s)[k]
    BY <1>2 DEF Commit
  <2> SUFFICES ASSUME NEW j \in Job, master[j] # None
               PROVE  OrderedAt(j)'
    BY DEF Ordered, OrderedAt
  <2> DEFINE m == master[j]
  <2>2. /\ m \in Job /\ m \notin Dependency
        /\ row[j].status # "absent" /\ row[m].status # "absent" /\ Follows(m, j)
    BY DEF Ordered, OrderedAt
  <2>3. TypeOf[m] # "check"
    BY <2>2 DEF Chained
  <2>4. ASSUME NEW k \in Job, k \in dirty[s]
        PROVE  row'[k] = obj[s][k] /\ row'[k].status \in {"pending", "starting"}
    BY <2>1, <2>4 DEF View, CalmInv, Current
  <2>5. \A k \in Job : k \notin dirty[s] => row'[k] = row[k]
    BY <2>1 DEF View
  <2>6. row'[j].status # "absent" /\ row'[m].status # "absent"
    BY <2>2, <2>4, <2>5
  <2>7. Follows(m, j)'
    <3>1. CASE row[m].status \in Finished
      <4>1. m \notin dirty[s]
        BY <2>2, <2>3, <3>1 DEF FirstStart, Finished
      <4> QED
        BY <2>2, <2>5, <3>1, <4>1 DEF Follows
    <3>2. CASE row[m].status \notin Finished
      <4>1. row[j].status \in {"pending", "waiting"} /\ row[m].dep = j
        BY <2>2, <3>2 DEF Follows
      <4>2. row'[m].dep = j
        <5>1. m \in dirty[s] => obj[s][m].dep = row[m].dep
          BY <2>2 DEF DepInv, Copied
        <5> QED
          BY <2>2, <2>4, <2>5, <4>1, <5>1
      <4>3. CASE row'[j].status \in {"pending", "waiting"}
        BY <4>2, <4>3 DEF Follows
      <4>4. CASE row'[j].status = "starting"
        <5>1. View(s)[m].status \notin Live
          BY <2>1, <2>2, <4>2, <4>4 DEF DepInv, Kept, Busy
        <5>2. row'[m] \in Row /\ row'[m].status \notin Live
          BY <2>1, <2>2, <5>1, ViewType
        <5>3. row'[m].status \in Finished
          BY <2>6, <5>2 DEF Row, Status, Live, ActiveStates, Finished
        <5> QED
          BY <5>3 DEF Follows
      <4> QED
        BY <2>4, <2>5, <4>1, <4>3, <4>4
    <3> QED
      BY <3>1, <3>2
  <2> QED
    BY <2>2, <2>6, <2>7 DEF OrderedAt
<1> QED
  BY <1>1, <1>2 DEF PassStep, SchedulerCrash, BeginPass, ProcessWaiting,
     ProcessPending, GenerateDependencies, ProcessDependency, ProcessTask,
     ReleaseLock, SendTask, Others

\* Workers and users leave the rows that have not begun, and those that are over,
\* as they are.
LEMMA OutsideOrdered ==
    ASSUME Known, Ordered, UNCHANGED <<launch, master>>,
           \/ \E d \in Job \X Slot :
                WorkerStep(d) \/ ReportReady(d) \/ WorkerCrash(d) \/ Redeliver(d)
           \/ UserStep
    PROVE  Ordered'
<1> SUFFICES ASSUME NEW j \in Job, master[j] # None
             PROVE  OrderedAt(j)'
  BY DEF Ordered, OrderedAt
<1> DEFINE m == master[j]
<1>1. /\ m \in Job /\ m \notin Dependency
      /\ row[j].status # "absent" /\ row[m].status # "absent" /\ Follows(m, j)
  BY DEF Ordered, OrderedAt
<1>2. /\ row'[j].status # "absent" /\ row'[m].status # "absent"
      /\ row[m].status \in Finished => row'[m].status \in Finished
      /\ row'[m].dep = row[m].dep
      /\ row[j].status \in {"pending", "waiting"} => row'[j].status = row[j].status
  BY <1>1, RowsCalm
<1>3. Building(m, j)' <=> Building(m, j)
  BY DEF Building, Builds, LaunchAt, Pruned
<1>4. Follows(m, j)'
  BY <1>1, <1>2, <1>3 DEF Follows
<1> QED
  BY <1>1, <1>2, <1>4 DEF OrderedAt

\* What is known of launches that nothing has disturbed.
Launched ==
    /\ Chained /\ Typed /\ ~Overlap
    /\ CalmInv /\ \A l \in Launcher : InHand(l)
    /\ FirstStart /\ DepInv /\ Ordered
    /\ \A l \in Launcher : Loose(l)

LEMMA LaunchedWaits ==
    ASSUME Launched
    PROVE  Waits /\ Understood /\ Known /\ Calm
  BY DEF Launched, Chained, Typed, LaunchTypeOK, Waits, Known, Understood

LEMMA ApartOrdered ==
    ASSUME Launched, Apart(Next), ~Overlap'
    PROVE  /\ FirstStart' /\ DepInv' /\ Ordered'
           /\ \A l \in Launcher : Loose(l)'
<1>0. Waits /\ Understood /\ Known /\ [Next]_vars /\ UNCHANGED <<launch, mine, master>>
  BY LaunchedWaits DEF Apart
<1>1. FirstStart' /\ DepInv'
  BY <1>0, FirstStartStep, WaitsStep
<1> DEFINE Out == \/ \E d \in Job \X Slot : WorkerStep(d) \/ ReportReady(d)
                                               \/ WorkerCrash(d) \/ Redeliver(d)
                  \/ UserStep
<1>2. Out => Ordered'
  BY <1>0, OutsideOrdered DEF Launched
<1>3. Writing # {} => Out
  BY ApartFromPasses DEF Launched
<1>4. Ordered'
  <2>1. ASSUME NEW s \in Scheduler, PassStep(s) \/ SchedulerCrash(s), Writing = {}
        PROVE  Ordered'
    <3>1. \A m, j \in Job : ~Building(m, j)
      BY <2>1 DEF Building, Builds, Writing
    <3> QED
      BY <1>0, <2>1, <3>1, PassOrdered DEF Launched
  <2> QED
    BY <1>2, <1>3, <2>1 DEF Apart, Next
<1>5. ASSUME NEW l \in Launcher
      PROVE  Loose(l)'
  <2>1. Loose(l)
    BY DEF Launched
  <2>2. Ends(l)' = Ends(l)
    BY <1>0 DEF Ends, Pruned, LastOfClient
  <2>3. launch[l].pc = "copy" /\ master[launch[l].copied] # None =>
          row'[master[launch[l].copied]].status \in Finished
    <3> SUFFICES ASSUME launch[l].pc = "copy", master[launch[l].copied] # None
                 PROVE  row'[master[launch[l].copied]].status \in Finished
      OBVIOUS
    <3>1. launch[l].copied \in Job
      BY DEF Launched, Typed, Stages, Staged
    <3>2. master[launch[l].copied] \in Job
      BY <3>1 DEF Launched, Ordered, OrderedAt
    <3>3. Out
      BY <1>3 DEF Writing, LaunchAt
    <3>4. row[master[launch[l].copied]].status \in Finished
      BY <2>1 DEF Loose
    <3> QED
      BY <1>0, <3>2, <3>3, <3>4, RowsCalm
  <2> QED
    BY <1>0, <2>1, <2>2, <2>3 DEF Loose, Pruned
<1> QED
  BY <1>1, <1>4, <1>5

-----------------------------------------------------------------------------
(* Launchers keep it.                                                      *)

\* What a launcher saves holds nothing up that has begun.
LEMMA TouchedWaits ==
    ASSUME Launched, NEW l \in Launcher, l \in Writing, Written(l)
    PROVE  FirstStart' /\ DepInv'
<1> USE DEF Launched
<1>0. \A s \in Scheduler : pc[s] = "idle" /\ dirty[s] = {}
  BY OneWriter DEF Typed, PassShape, Inside
<1>1. /\ UNCHANGED <<lock, pc, todo, obj, dirty, deps, left, sends, cleared>>
      /\ row' \in [Job -> Row] /\ \A j \in Job : row'[j] = row[j] \/ Touched(l, j)
  BY DEF Written, Walks, pass
<1>2. \A s \in Scheduler, j \in Job : View(s)[j] = row[j] /\ View(s)'[j] = row'[j]
  BY <1>0, <1>1 DEF View
<1>3. \A j \in Chaining(l) : /\ j \in Job \ Dependency /\ RepoOf[j] = LaunchRepo
                             /\ PolicyRepo[j] = LaunchRepo
                             /\ row[j].status \in Queueing
  <2> SUFFICES ASSUME NEW j \in Chaining(l)
               PROVE  /\ j \in Job \ Dependency /\ RepoOf[j] = LaunchRepo
                      /\ PolicyRepo[j] = LaunchRepo
                      /\ row[j].status \in Queueing
    OBVIOUS
  <2>1. j \in Job \ Dependency /\ RepoOf[j] = LaunchRepo /\ row[j].status \in Queueing
    BY DEF Chaining, Hand, InHand
  <2>2. LaunchRepo # None
    BY LaunchAssumption, JobAssumption
  <2> QED
    BY <2>1, <2>2 DEF Chained, Calm
<1>4. Links'
  <2>1. ASSUME NEW x \in Job
        PROVE  Linked(x, row'[x])
    <3>1. Linked(x, row[x])
      BY DEF DepInv, Links
    <3>2. CASE row'[x].dep \in {None, row[x].dep}
      BY <3>1, <3>2 DEF Linked
    <3>3. CASE x \in Chaining(l) /\ row'[x].dep \in Chaining(l)
      BY <1>3, <3>3 DEF Linked
    <3> QED
      BY <1>1, <3>2, <3>3 DEF Touched
  <2> QED
    BY <1>0, <1>1, <2>1 DEF Links
<1>5. FirstStart' /\ Copied' /\ Unmarked' /\ Awaited'
  BY <1>0, <1>1 DEF FirstStart, Copied, Unmarked, Awaited, Inside
<1>6. ASSUME NEW x \in Job, NEW y \in Job, row'[x].dep = y, Busy(row'[y])
      PROVE  row'[x].status \notin Live
  <2>1. Busy(row[y])
    BY <1>1, <1>6 DEF Touched, Queueing, Busy
  <2>2. row[x].dep = y => row[x].status \notin Live
    <3>1. PICK s \in Scheduler : TRUE
      BY DEF Chained, Calm
    <3> QED
      BY <1>2, <2>1, <3>1 DEF DepInv, Kept
  <2>3. CASE Touched(l, x) /\ row'[x] # row[x]
    <3>1. y # None
      BY JobAssumption
    <3>2. y \notin Chaining(l)
      BY <1>3, <2>1 DEF Queueing, Busy
    <3>3. row[x].dep = y /\ row[x].status \in Queueing
      BY <1>6, <2>3, <3>1, <3>2 DEF Touched
    <3> QED
      BY <2>2, <3>3 DEF Queueing, Live, ActiveStates
  <2> QED
    BY <1>1, <1>6, <2>2, <2>3
<1>7. Kept'
  BY <1>2, <1>6 DEF Kept
<1> QED
  BY <1>4, <1>5, <1>7 DEF DepInv

\* Only the launcher that writes links jobs.
LEMMA OnlyBuilder ==
    ASSUME Launched, NEW l \in Launcher, l \in Writing, Walks(l)
    PROVE  \A m, j : /\ Building(m, j) <=> Builds(l, m, j)
                     /\ Building(m, j)' <=> Builds(l, m, j)'
<1>1. \A k \in Launcher \ {l} : k \notin Writing /\ launch'[k] = launch[k]
  BY OneWriter DEF Launched, Walks
<1>2. \A k \in Launcher \ {l} : LaunchAt(k) \in {"idle", "check"}
                                 /\ LaunchAt(k)' \in {"idle", "check"}
  BY <1>1 DEF Writing, LaunchAt
<1>3. \A k \in Launcher \ {l} : \A m, j : ~Builds(k, m, j) /\ ~Builds(k, m, j)'
  BY <1>2 DEF Builds
<1> QED
  BY <1>3 DEF Building

\* A pair that was ordered and is not touched, or only further linked, still is.
LEMMA PairKept ==
    ASSUME Launched, NEW l \in Launcher, l \in Writing, Written(l),
           NEW j \in Job, master'[j] = master[j],
           row[j].status \in {"pending", "waiting"}
              => row'[j].status \in {"pending", "waiting"},
           NEW m, m = master[j],
           row[m].dep = j \/ Builds(l, m, j) => row'[m].dep = j \/ Builds(l, m, j)'
    PROVE  OrderedAt(j)'
<1> SUFFICES ASSUME m # None
             PROVE  OrderedAt(j)'
  BY DEF OrderedAt
<1>1. /\ m \in Job \ Dependency
      /\ row[j].status # "absent" /\ row[m].status # "absent" /\ Follows(m, j)
  BY DEF Launched, Ordered, OrderedAt
<1>2. \A k \in Job : row'[k] = row[k] \/ Touched(l, k)
  BY DEF Written, Launched
<1>3. row'[j].status # "absent" /\ row'[m].status # "absent"
  BY <1>1, <1>2 DEF Touched, Queueing
<1>4. /\ Building(m, j) <=> Builds(l, m, j)
      /\ Building(m, j)' <=> Builds(l, m, j)'
  BY OnlyBuilder DEF Written
<1>5. row[m].status \in Finished => row'[m] = row[m]
  BY <1>1, <1>2 DEF Touched, Queueing, Finished
<1>6. Follows(m, j)'
  BY <1>1, <1>4, <1>5 DEF Follows
<1> QED
  BY <1>1, <1>3, <1>6 DEF OrderedAt

\* A new job is no job's master, and has none.
LEMMA NewIsLoose ==
    ASSUME Launched, NEW n \in Job, row[n].status = "absent"
    PROVE  master[n] = None /\ \A j \in Job : master[j] # n
<1>1. n # None
  BY JobAssumption
<1> QED
  BY <1>1 DEF Launched, Ordered, OrderedAt

LEMMA CreatesOrdered ==
    ASSUME Launched, NEW l \in Launcher, NEW s \in Queueing, NEW n \in Job,
           Creates(l, n, s), Written(l),
           LaunchAt(l) \notin {"idle", "check", "attachCatalog", "attachPrune"},
           \A j \in Job \ {n} : master'[j] = master[j],
           master'[n] # None => OrderedAt(n)'
    PROVE  FirstStart' /\ DepInv' /\ Ordered'
<1>0. l \in Writing
  BY DEF Writing
<1>1. FirstStart' /\ DepInv'
  BY <1>0, TouchedWaits
<1>2. /\ \A k \in Job \ {n} : row'[k] = row[k]
      /\ row[n].status = "absent"
  <2>1. NewRow(s) \in Row
    BY NewRows DEF Queueing, Status
  <2> QED
    BY <2>1, SavedMine DEF Creates, Launched, Typed
<1>3. OrderedAt(n)'
  BY DEF OrderedAt
<1>4. ASSUME NEW j \in Job \ {n}
      PROVE  OrderedAt(j)'
  <2>1. CASE master[j] = None
    BY <1>4, <2>1 DEF OrderedAt
  <2>2. CASE master[j] # None
    <3>1. master[j] \in Job /\ master[j] # n
      BY <1>2, <1>4, <2>2, NewIsLoose DEF Launched, Ordered, OrderedAt
    <3>2. row'[j] = row[j] /\ row'[master[j]] = row[master[j]]
      BY <1>2, <1>4, <3>1
    <3>3. \A m : ~Builds(l, m, j)
      BY DEF Builds
    <3> QED
      BY <1>0, <1>4, <3>2, <3>3, PairKept
  <2> QED
    BY <2>1, <2>2
<1> QED
  BY <1>1, <1>3, <1>4 DEF Ordered

\* A job in hand is a row, and has its type and its master.
LEMMA HandKnown ==
    ASSUME Launched, NEW l \in Launcher, NEW j \in Hand(l)
    PROVE  /\ j \in Job \ Dependency /\ j # None
           /\ row[j].status \in Queueing /\ row[j].status \notin Finished
           /\ row[j].status # "absent" /\ row[j].dep = mine[l][j].dep
<1>1. j \in Job \ Dependency /\ row[j].status \in Queueing /\ row[j].dep = mine[l][j].dep
  BY DEF Launched, InHand, Hand
<1> QED
  BY <1>1, JobAssumption DEF Queueing, Finished

LEMMA BackupOrdered ==
    ASSUME Launched, NEW l \in Launcher, CreateBackup(l)
    PROVE  FirstStart' /\ DepInv' /\ Ordered' /\ Loose(l)'
<1>0. LaunchTypeOK /\ Staged(l) /\ Loose(l) /\ Written(l)
  <2>1. LaunchTypeOK /\ Staged(l) /\ Loose(l)
    BY DEF Launched, Typed, Stages
  <2> QED
    BY <2>1, LaunchWritten DEF LaunchStep, LaunchRound
<1>1. PICK n \in Job :
        /\ LaunchAt(l) = "next" /\ Creates(l, n, "pending")
        /\ RepoOf[n] = LaunchRepo
        /\ launch'[l].pc = AfterBackup /\ launch'[l].backup = n
        /\ launch'[l].catalog = None /\ launch'[l].prune = None
        /\ launch'[l].previous = launch[l].previous
        /\ launch'[l].first = IF launch[l].first = None THEN n ELSE launch[l].first
        /\ UNCHANGED master
  BY <1>0, CreateBackupStep
<1>2. master[n] = None
  BY <1>1, NewIsLoose DEF Creates
<1>3. FirstStart' /\ DepInv' /\ Ordered'
  BY <1>0, <1>1, <1>2, CreatesOrdered DEF Queueing
<1>4. /\ mine'[l][n] = NewRow("pending") /\ NewRow("pending").dep = None
      /\ \A k \in Job \ {n} : mine'[l][k] = mine[l][k]
  BY <1>0, <1>1, HandGrows DEF Queueing, NewRow
<1>5. launch[l].previous # None =>
         /\ launch[l].previous \in Job /\ launch[l].previous # n
         /\ mine[l][launch[l].previous].dep = None
  <2> SUFFICES ASSUME launch[l].previous # None
               PROVE  /\ launch[l].previous \in Job /\ launch[l].previous # n
                      /\ mine[l][launch[l].previous].dep = None
    OBVIOUS
  <2>1. launch[l].previous \in Hand(l)
    BY <1>0, <1>1 DEF Staged, Started, LaunchAt, Chaining
  <2>2. launch[l].previous \in Job /\ launch[l].previous # n
    BY <1>1, <2>1, HandKnown DEF Creates
  <2> QED
    BY <1>0, <1>1, <2>2 DEF Loose, LaunchAt
<1>6. launch[l].first # None => master[launch[l].first] = None
  BY <1>0, <1>1 DEF Loose, LaunchAt
<1>7. AfterBackup \in {"catalog", "prune", "chain"}
  BY DEF AfterBackup
<1>8. Ends(l)' \subseteq {n}
  <2>1. CASE AfterBackup = "catalog"
    BY <1>1, <2>1 DEF Ends
  <2>2. CASE AfterBackup = "prune"
    <3>1. ~CatalogEnabled
      BY <2>2 DEF AfterBackup
    <3> QED
      BY <1>1, <2>2, <3>1 DEF Ends, Pruned
  <2>3. CASE AfterBackup = "chain"
    <3>1. ~CatalogEnabled /\ ~Prunes
      BY <2>3 DEF AfterBackup
    <3> QED
      BY <1>1, <2>3, <3>1 DEF Ends, LastOfClient
  <2> QED
    BY <1>7, <2>1, <2>2, <2>3
<1>9. n # None
  BY JobAssumption
<1> QED
  BY <1>1, <1>2, <1>3, <1>4, <1>5, <1>6, <1>7, <1>8, <1>9 DEF Loose, Creating

LEMMA CatalogOrdered ==
    ASSUME Launched, NEW l \in Launcher, CreateCatalog(l)
    PROVE  FirstStart' /\ DepInv' /\ Ordered' /\ Loose(l)'
<1>0. LaunchTypeOK /\ Staged(l) /\ Loose(l) /\ Written(l)
  <2>1. LaunchTypeOK /\ Staged(l) /\ Loose(l)
    BY DEF Launched, Typed, Stages
  <2> QED
    BY <2>1, LaunchWritten DEF LaunchStep, LaunchRound
<1>1. PICK n \in Job :
        /\ LaunchAt(l) = "catalog" /\ Creates(l, n, "waiting")
        /\ launch'[l] = [launch[l] EXCEPT !.pc = "attachCatalog", !.catalog = n]
        /\ master' = [master EXCEPT ![n] = launch[l].backup]
  BY <1>0, CreateCatalogStep
<1>b. PICK b : b = launch[l].backup
  OBVIOUS
<1>2. b \in Hand(l) /\ Hand(l) \subseteq Job
  BY <1>0, <1>1, <1>b DEF Staged, Creating, Chaining, LaunchAt, Hand
<1>3. \A j \in Hand(l) : j # n
  BY <1>1, HandKnown DEF Creates
<1>4. /\ launch'[l].pc = "attachCatalog" /\ launch'[l].catalog = n
      /\ launch'[l].backup = b /\ launch'[l].prune = launch[l].prune
      /\ launch'[l].previous = launch[l].previous /\ launch'[l].first = launch[l].first
  BY <1>0, <1>1, <1>b DEF LaunchTypeOK, Launch
<1>5. /\ mine'[l][n] = NewRow("waiting") /\ NewRow("waiting").dep = None
      /\ NewRow("waiting").status = "waiting"
      /\ \A k \in Job \ {n} : mine'[l][k] = mine[l][k]
  BY <1>0, <1>1, HandGrows DEF Queueing, NewRow
<1>6. /\ row'[n] = NewRow("waiting") /\ \A k \in Job \ {n} : row'[k] = row[k]
  <2>1. NewRow("waiting") \in Row
    BY NewRows DEF Status
  <2> QED
    BY <1>0, <1>1, <2>1, SavedMine DEF Creates
<1>7. /\ master'[n] = b /\ \A k \in Job \ {n} : master'[k] = master[k]
  BY <1>0, <1>1, <1>b DEF LaunchTypeOK
<1>8. OrderedAt(n)'
  <2>1. /\ b \in Job \ Dependency /\ row[b].status # "absent" /\ b # n
    BY <1>2, <1>3, HandKnown
  <2>2. Builds(l, b, n)'
    BY <1>4 DEF Builds, LaunchAt
  <2>3. row'[n].status = "waiting"
    BY <1>5, <1>6
  <2>4. Follows(b, n)'
    BY <2>2, <2>3 DEF Follows, Building
  <2>5. row'[n].status # "absent" /\ row'[b].status # "absent"
    BY <1>6, <2>1, <2>3
  <2> QED
    BY <1>7, <2>1, <2>4, <2>5 DEF OrderedAt
<1>9. FirstStart' /\ DepInv' /\ Ordered'
  BY <1>0, <1>1, <1>7, <1>8, CreatesOrdered DEF Queueing
<1>10. \A j \in Ends(l)' : mine'[l][j].dep = None
  <2>1. mine[l][b].dep = None
    BY <1>0, <1>1, <1>b DEF Loose, Ends, LaunchAt
  <2>2. Ends(l)' = {b, n}
    BY <1>4 DEF Ends
  <2> QED
    BY <1>2, <1>3, <1>5, <2>1, <2>2
<1>11. launch[l].previous # None =>
         /\ launch[l].previous \in Hand(l) /\ launch[l].previous \notin {b, launch[l].prune}
         /\ mine[l][launch[l].previous].dep = None
  BY <1>0, <1>1, <1>b DEF Loose, Creating, LaunchAt, Staged, Started, Chaining
<1>12. launch[l].first # None =>
         launch[l].first \in Hand(l) /\ master[launch[l].first] = None
  BY <1>0, <1>1 DEF Loose, Creating, LaunchAt, Staged, Started
<1> QED
  BY <1>2, <1>3, <1>4, <1>5, <1>7, <1>9, <1>10, <1>11, <1>12 DEF Loose, Creating

LEMMA PruneOrdered ==
    ASSUME Launched, NEW l \in Launcher, CreatePrune(l)
    PROVE  FirstStart' /\ DepInv' /\ Ordered' /\ Loose(l)'
<1>0. LaunchTypeOK /\ Staged(l) /\ Loose(l) /\ Written(l)
  <2>1. LaunchTypeOK /\ Staged(l) /\ Loose(l)
    BY DEF Launched, Typed, Stages
  <2> QED
    BY <2>1, LaunchWritten DEF LaunchStep, LaunchRound
<1>1. PICK n \in Job :
        /\ LaunchAt(l) = "prune" /\ Creates(l, n, "waiting")
        /\ launch'[l] = [launch[l] EXCEPT !.pc = "attachPrune", !.prune = n]
        /\ master' = [master EXCEPT ![n] = Pruned(l)]
  BY <1>0, CreatePruneStep
<1>b. PICK b : b = Pruned(l)
  OBVIOUS
<1>2. b \in Hand(l) /\ Hand(l) \subseteq Job
  BY <1>0, <1>1, <1>b
     DEF Staged, Creating, HasCatalog, Chaining, LaunchAt, Hand, Pruned
<1>3. \A j \in Hand(l) : j # n
  BY <1>1, HandKnown DEF Creates
<1>4. /\ launch'[l].pc = "attachPrune" /\ launch'[l].prune = n
      /\ launch'[l].backup = launch[l].backup /\ launch'[l].catalog = launch[l].catalog
      /\ launch'[l].previous = launch[l].previous /\ launch'[l].first = launch[l].first
  BY <1>0, <1>1 DEF LaunchTypeOK, Launch
<1>p. Pruned(l)' = b
  BY <1>b, <1>4 DEF Pruned
<1>5. /\ mine'[l][n] = NewRow("waiting") /\ NewRow("waiting").dep = None
      /\ NewRow("waiting").status = "waiting"
      /\ \A k \in Job \ {n} : mine'[l][k] = mine[l][k]
  BY <1>0, <1>1, HandGrows DEF Queueing, NewRow
<1>6. /\ row'[n] = NewRow("waiting") /\ \A k \in Job \ {n} : row'[k] = row[k]
  <2>1. NewRow("waiting") \in Row
    BY NewRows DEF Status
  <2> QED
    BY <1>0, <1>1, <2>1, SavedMine DEF Creates
<1>7. /\ master'[n] = b /\ \A k \in Job \ {n} : master'[k] = master[k]
  BY <1>0, <1>1, <1>b DEF LaunchTypeOK
<1>8. OrderedAt(n)'
  <2>1. /\ b \in Job \ Dependency /\ row[b].status # "absent" /\ b # n
    BY <1>2, <1>3, HandKnown
  <2>2. Builds(l, b, n)'
    BY <1>4, <1>p DEF Builds, LaunchAt
  <2>3. row'[n].status = "waiting"
    BY <1>5, <1>6
  <2>4. Follows(b, n)'
    BY <2>2, <2>3 DEF Follows, Building
  <2>5. row'[n].status # "absent" /\ row'[b].status # "absent"
    BY <1>6, <2>1, <2>3
  <2> QED
    BY <1>7, <2>1, <2>4, <2>5 DEF OrderedAt
<1>9. FirstStart' /\ DepInv' /\ Ordered'
  BY <1>0, <1>1, <1>7, <1>8, CreatesOrdered DEF Queueing
<1>10. \A j \in Ends(l)' : mine'[l][j].dep = None
  <2>1. mine[l][b].dep = None
    BY <1>0, <1>1, <1>b DEF Loose, Ends, LaunchAt
  <2>2. Ends(l)' = {b, n}
    BY <1>4, <1>p DEF Ends
  <2> QED
    BY <1>2, <1>3, <1>5, <2>1, <2>2
<1>11. launch[l].previous # None =>
         /\ launch[l].previous \in Hand(l)
         /\ launch[l].previous \notin {launch[l].backup, launch[l].catalog}
         /\ mine[l][launch[l].previous].dep = None
  BY <1>0, <1>1 DEF Loose, Creating, LaunchAt, Staged, Started, Chaining
<1>12. launch[l].first # None =>
         launch[l].first \in Hand(l) /\ master[launch[l].first] = None
  BY <1>0, <1>1 DEF Loose, Creating, LaunchAt, Staged, Started
<1> QED
  BY <1>2, <1>3, <1>4, <1>p, <1>5, <1>7, <1>9, <1>10, <1>11, <1>12 DEF Loose, Creating

LEMMA LinkOrdered ==
    ASSUME Launched, NEW l \in Launcher, Written(l), NEW j, NEW n, LinkStep(l, j, n),
           mine[l][j].dep = None, \A m, x : Builds(l, m, x) => m = j /\ x = n
    PROVE  FirstStart' /\ DepInv' /\ Ordered'
<1>0. /\ LaunchTypeOK /\ Staged(l) /\ j \in Hand(l) /\ n \in Hand(l)
      /\ UNCHANGED master
  BY DEF Launched, Typed, Stages, LinkStep, Chaining
<1>1. l \in Writing
  BY <1>0 DEF Staged, Writing, LaunchAt
<1>2. /\ j \in Job /\ row[j].dep = None /\ row[j].status = mine[l][j].status
  BY <1>0, HandKnown DEF Launched, InHand
<1>3. /\ row'[j].dep = n /\ row'[j].status = row[j].status
      /\ \A k \in Job \ {j} : row'[k] = row[k]
  <2> DEFINE r == [mine[l][j] EXCEPT !.dep = n]
  <2>1. mine[l][j] \in Row /\ n \in Job
    BY <1>0, HandRows
  <2>2. r \in Row /\ r.dep = n /\ r.status = mine[l][j].status
    BY <2>1 DEF Row
  <2>3. SaveMine(l, j, r)
    BY DEF LinkStep, Link
  <2> HIDE DEF r
  <2> QED
    BY <1>0, <1>2, <2>2, <2>3, SavedMine
<1>4. ASSUME NEW x \in Job
      PROVE  OrderedAt(x)'
  <2>1. CASE master[x] = None
    BY <1>0, <2>1 DEF OrderedAt
  <2>2. CASE master[x] # None
    <3>m. PICK m : m = master[x]
      OBVIOUS
    <3>1. m \in Job /\ x # None
      BY <2>2, <3>m, JobAssumption DEF Launched, Ordered, OrderedAt
    <3>2. row[m].dep = x \/ Builds(l, m, x) => row'[m].dep = x
      BY <1>2, <1>3, <3>1
    <3>3. row[x].status \in {"pending", "waiting"}
             => row'[x].status \in {"pending", "waiting"}
      BY <1>3
    <3> QED
      BY <1>0, <1>1, <3>m, <3>2, <3>3, PairKept
  <2> QED
    BY <2>1, <2>2
<1> QED
  BY <1>1, <1>4, TouchedWaits DEF Ordered

LEMMA AttachCatalogOrdered ==
    ASSUME Launched, NEW l \in Launcher, AttachCatalog(l)
    PROVE  FirstStart' /\ DepInv' /\ Ordered' /\ Loose(l)'
<1>0. LaunchTypeOK /\ Staged(l) /\ Loose(l) /\ Written(l)
  <2>1. LaunchTypeOK /\ Staged(l) /\ Loose(l)
    BY DEF Launched, Typed, Stages
  <2> QED
    BY <2>1, LaunchWritten DEF LaunchStep, LaunchRound
<1>1. /\ LaunchAt(l) = "attachCatalog" /\ launch[l] \in Launch /\ UNCHANGED master
      /\ LinkStep(l, launch[l].backup, launch[l].catalog)
      /\ launch'[l] = [launch[l] EXCEPT !.pc = IF Prunes THEN "prune" ELSE "chain"]
  BY <1>0, AttachCatalogStep, LinkedInHand DEF LaunchTypeOK
<1>2. PICK b, c : b = launch[l].backup /\ c = launch[l].catalog
  OBVIOUS
<1>3. LinkStep(l, b, c) /\ b # c /\ mine[l][b].dep = None /\ mine[l][c].dep = None
  BY <1>0, <1>1, <1>2 DEF Loose, Ends, LaunchAt
<1>4. FirstStart' /\ DepInv' /\ Ordered'
  <2>1. \A m, x : Builds(l, m, x) => m = b /\ x = c
    BY <1>1, <1>2 DEF Builds
  <2> QED
    BY <1>0, <1>3, <2>1, LinkOrdered
<1>5. /\ \A k \in Job \ {b} : mine'[l][k] = mine[l][k]
      /\ c \in Job
  BY <1>0, <1>3, LinkKeeps DEF LinkStep, Chaining, Hand
<1>6. /\ launch'[l].pc = IF Prunes THEN "prune" ELSE "chain"
      /\ launch'[l].backup = b /\ launch'[l].catalog = c
      /\ launch'[l].prune = launch[l].prune
      /\ launch'[l].previous = launch[l].previous /\ launch'[l].first = launch[l].first
  BY <1>1, <1>2 DEF Launch
<1>7. Ends(l)' \subseteq {c}
  <2>0. CatalogEnabled
    BY <1>0, <1>1 DEF Staged, LaunchAt
  <2>1. CASE Prunes
    BY <1>6, <2>0, <2>1 DEF Ends, Pruned
  <2>2. CASE ~Prunes
    BY <1>6, <2>0, <2>2 DEF Ends, LastOfClient
  <2> QED
    BY <2>1, <2>2
<1>8. launch[l].previous # None =>
         /\ launch[l].previous \in Job
         /\ launch[l].previous \notin {b, c, launch[l].prune}
         /\ mine[l][launch[l].previous].dep = None
  BY <1>0, <1>1, <1>2 DEF Loose, Creating, LaunchAt, Launch
<1>9. launch[l].first # None => master[launch[l].first] = None
  BY <1>0, <1>1 DEF Loose, Creating, LaunchAt
<1>10. launch'[l].pc \in {"prune", "chain"}
  BY <1>6
<1> QED
  BY <1>1, <1>3, <1>4, <1>5, <1>6, <1>7, <1>8, <1>9, <1>10 DEF Loose, Creating

LEMMA AttachPruneOrdered ==
    ASSUME Launched, NEW l \in Launcher, AttachPrune(l)
    PROVE  FirstStart' /\ DepInv' /\ Ordered' /\ Loose(l)'
<1>0. LaunchTypeOK /\ Staged(l) /\ Loose(l) /\ Written(l)
  <2>1. LaunchTypeOK /\ Staged(l) /\ Loose(l)
    BY DEF Launched, Typed, Stages
  <2> QED
    BY <2>1, LaunchWritten DEF LaunchStep, LaunchRound
<1>1. /\ LaunchAt(l) = "attachPrune" /\ launch[l] \in Launch /\ UNCHANGED master
      /\ LinkStep(l, Pruned(l), launch[l].prune)
      /\ launch'[l] = [launch[l] EXCEPT !.pc = "chain"]
  BY <1>0, AttachPruneStep, LinkedInHand DEF LaunchTypeOK
<1>2. PICK b, c : b = Pruned(l) /\ c = launch[l].prune
  OBVIOUS
<1>3. LinkStep(l, b, c) /\ b # c /\ mine[l][b].dep = None /\ mine[l][c].dep = None
  BY <1>0, <1>1, <1>2 DEF Loose, Ends, LaunchAt
<1>4. FirstStart' /\ DepInv' /\ Ordered'
  <2>1. \A m, x : Builds(l, m, x) => m = b /\ x = c
    BY <1>1, <1>2 DEF Builds
  <2> QED
    BY <1>0, <1>3, <2>1, LinkOrdered
<1>5. /\ \A k \in Job \ {b} : mine'[l][k] = mine[l][k]
      /\ c \in Job
  BY <1>0, <1>3, LinkKeeps DEF LinkStep, Chaining, Hand
<1>6. /\ launch'[l].pc = "chain" /\ launch'[l].prune = c
      /\ launch'[l].backup = launch[l].backup /\ launch'[l].catalog = launch[l].catalog
      /\ launch'[l].previous = launch[l].previous /\ launch'[l].first = launch[l].first
  BY <1>1, <1>2 DEF Launch
<1>7. Ends(l)' \subseteq {c}
  <2>0. Prunes
    BY <1>0, <1>1 DEF Staged, LaunchAt
  <2> QED
    BY <1>6, <2>0 DEF Ends, LastOfClient
<1>8. launch[l].previous # None =>
         /\ launch[l].previous \in Job /\ launch[l].previous # b
         /\ launch[l].previous \notin {launch[l].backup, launch[l].catalog, c}
         /\ mine[l][launch[l].previous].dep = None
  BY <1>0, <1>1, <1>2 DEF Loose, Creating, LaunchAt, Launch, Pruned
<1>9. launch[l].first # None => master[launch[l].first] = None
  BY <1>0, <1>1 DEF Loose, Creating, LaunchAt
<1> QED
  BY <1>1, <1>3, <1>4, <1>5, <1>6, <1>7, <1>8, <1>9 DEF Loose, Creating

LEMMA ChainOrdered ==
    ASSUME Launched, NEW l \in Launcher, ChainClient(l)
    PROVE  FirstStart' /\ DepInv' /\ Ordered' /\ Loose(l)'
<1>0. LaunchTypeOK /\ Staged(l) /\ Loose(l) /\ Written(l)
  <2>1. LaunchTypeOK /\ Staged(l) /\ Loose(l)
    BY DEF Launched, Typed, Stages
  <2> QED
    BY <2>1, LaunchWritten DEF LaunchStep, LaunchRound
<1>1. /\ LaunchAt(l) = "chain" /\ launch[l] \in Launch /\ UNCHANGED master
      /\ \/ ~Chains(l) /\ UNCHANGED <<row, mine>>
         \/ Chains(l) /\ LinkStep(l, launch[l].previous, LastOfClient(l))
      /\ launch'[l] = [launch[l] EXCEPT
                         !.pc = IF launch[l].todo = {} THEN "renew" ELSE "next",
                         !.previous = PreviousAfter(l)]
  BY <1>0, ChainClientStep, LinkedInHand DEF LaunchTypeOK
<1>2. PICK b, c : b = launch[l].previous /\ c = LastOfClient(l)
  OBVIOUS
<1>3. /\ mine[l][c].dep = None /\ c \in Job
      /\ b # None => b # c /\ mine[l][b].dep = None
  <2>1. c \in {launch[l].backup, launch[l].catalog, launch[l].prune}
    BY <1>2 DEF LastOfClient
  <2>2. c \in Chaining(l)
    BY <1>0, <1>1, <1>2, LinkedInHand
  <2>3. b # None => b # c /\ mine[l][b].dep = None
    BY <1>0, <1>1, <1>2, <2>1 DEF Loose, Creating, LaunchAt
  <2>4. mine[l][c].dep = None
    BY <1>0, <1>1, <1>2 DEF Loose, Ends, LaunchAt
  <2> QED
    BY <2>2, <2>3, <2>4 DEF Chaining, Hand
<1>4. \A m, x : ~Builds(l, m, x)
  BY <1>1 DEF Builds
<1>5. FirstStart' /\ DepInv' /\ Ordered'
  <2>1. CASE ~Chains(l)
    <3>1. row' = row /\ l \in Writing
      BY <1>1, <2>1 DEF Writing
    <3>2. ASSUME NEW x \in Job
          PROVE  OrderedAt(x)'
      BY <1>0, <1>1, <1>4, <3>1, PairKept
    <3> QED
      BY <1>0, <3>1, <3>2, TouchedWaits DEF Ordered
  <2>2. CASE Chains(l)
    BY <1>0, <1>1, <1>2, <1>3, <1>4, <2>2, LinkOrdered DEF Chains
  <2> QED
    BY <2>1, <2>2
<1>p. PICK d : d = launch'[l].previous
  OBVIOUS
<1>6. d # None => mine'[l][d].dep = None
  <2>1. CASE ~Chains(l)
    <3>1. mine' = mine /\ d \in {b, c}
      BY <1>1, <1>2, <1>p, <2>1 DEF Launch, PreviousAfter
    <3> QED
      BY <1>3, <3>1
  <2>2. CASE Chains(l)
    <3>1. \A k \in Job \ {b} : mine'[l][k] = mine[l][k]
      BY <1>0, <1>1, <1>2, <2>2, LinkKeeps
    <3>2. d = c /\ b # None
      BY <1>1, <1>2, <1>p, <2>2 DEF Launch, Chains, PreviousAfter
    <3> QED
      BY <1>3, <3>1, <3>2
  <2> QED
    BY <2>1, <2>2
<1>7. /\ launch'[l].pc \in {"renew", "next"} /\ launch'[l].previous = d
      /\ launch'[l].first = launch[l].first
  BY <1>1, <1>p DEF Launch
<1>8. launch[l].first # None => master[launch[l].first] = None
  BY <1>0, <1>1 DEF Loose, Creating, LaunchAt
<1>9. Ends(l)' = {}
  BY <1>7 DEF Ends
<1> QED
  BY <1>1, <1>5, <1>6, <1>7, <1>8, <1>9 DEF Loose, Creating

\* Steps that change one row that has not begun, or none, and link nothing.
LEMMA StatusOrdered ==
    ASSUME Launched, NEW l \in Launcher, l \in Writing, Written(l), UNCHANGED master,
           LaunchAt(l) \notin {"attachCatalog", "attachPrune"},
           \A k \in Job : row'[k].dep = row[k].dep,
           NEW f \in Job, \A k \in Job \ {f} : row'[k] = row[k],
           master[f] = None \/ row'[f].status \in {row[f].status, "pending"}
    PROVE  FirstStart' /\ DepInv' /\ Ordered'
<1>1. ASSUME NEW x \in Job
      PROVE  OrderedAt(x)'
  <2>1. CASE master[x] = None
    BY <2>1 DEF OrderedAt
  <2>2. CASE master[x] # None
    <3>m. PICK m : m = master[x]
      OBVIOUS
    <3>1. m \in Job
      BY <2>2, <3>m DEF Launched, Ordered, OrderedAt
    <3>2. ~Builds(l, m, x)
      BY DEF Builds
    <3>3. row[x].status \in {"pending", "waiting"}
             => row'[x].status \in {"pending", "waiting"}
      BY <2>2
    <3>4. row[m].dep = x \/ Builds(l, m, x) => row'[m].dep = x \/ Builds(l, m, x)'
      BY <3>1, <3>2
    <3> QED
      BY <3>m, <3>3, <3>4, PairKept
  <2> QED
    BY <2>1, <2>2
<1> QED
  BY <1>1, TouchedWaits DEF Ordered

LEMMA RenewOrdered ==
    ASSUME Launched, NEW l \in Launcher, RenewFirst(l)
    PROVE  FirstStart' /\ DepInv' /\ Ordered' /\ Loose(l)'
<1>0. LaunchTypeOK /\ Staged(l) /\ Loose(l) /\ Written(l)
  <2>1. LaunchTypeOK /\ Staged(l) /\ Loose(l)
    BY DEF Launched, Typed, Stages
  <2> QED
    BY <2>1, LaunchWritten DEF LaunchStep, LaunchRound
<1>1. PICK f : f = launch[l].first
  OBVIOUS
<1>2. /\ LaunchAt(l) = "renew" /\ f \in Hand(l) /\ f \in Job
      /\ mine'[l][f].dep = mine[l][f].dep /\ row'[f] = mine'[l][f]
      /\ \A k \in Job \ {f} : row'[k] = row[k]
  BY <1>0, <1>1, RenewKeeps DEF Hand
<1>3. \A k \in Job : row'[k].dep = row[k].dep
  BY <1>2, HandKnown
<1>4. master[f] = None
  BY <1>0, <1>1, <1>2, HandKnown DEF Loose, LaunchAt
<1>5. UNCHANGED master /\ launch[l] \in Launch
      /\ launch'[l] = [launch[l] EXCEPT !.pc = "signal"]
  BY <1>0, RenewFirstStep DEF LaunchTypeOK
<1>6. launch'[l].pc = "signal"
  BY <1>5 DEF Launch
<1>7. FirstStart' /\ DepInv' /\ Ordered'
  BY <1>0, <1>2, <1>3, <1>4, <1>5, StatusOrdered DEF Writing
<1> QED
  BY <1>6, <1>7 DEF Loose, Creating, Ends

LEMMA EndOrdered ==
    ASSUME Launched, NEW l \in Launcher, SignalFirst(l) \/ LaunchRaises(l), ~HalfDone(l)
    PROVE  FirstStart' /\ DepInv' /\ Ordered' /\ Loose(l)'
<1>0. LaunchTypeOK /\ Staged(l) /\ Written(l)
  <2>1. LaunchTypeOK /\ Staged(l)
    BY DEF Launched, Typed, Stages
  <2> QED
    BY <2>1, LaunchWritten DEF LaunchStep, LaunchRound
<1>1. /\ UNCHANGED master /\ launch'[l].pc = "idle" /\ l \in Writing
      /\ LaunchAt(l) \notin {"attachCatalog", "attachPrune"}
      /\ \/ LaunchAt(l) = "signal" /\ SetStatus(launch[l].first, "pending")
         \/ row' = row
  BY <1>0, EndStep DEF HalfDone, Writing
<1>2. FirstStart' /\ DepInv' /\ Ordered'
  <2>1. CASE row' = row
    <3>1. ASSUME NEW x \in Job
          PROVE  OrderedAt(x)'
      <4>1. \A m : ~Builds(l, m, x)
        BY <1>1 DEF Builds
      <4> QED
        BY <1>0, <1>1, <2>1, <4>1, PairKept
    <3> QED
      BY <1>0, <1>1, <3>1, TouchedWaits DEF Ordered
  <2>2. CASE LaunchAt(l) = "signal" /\ SetStatus(launch[l].first, "pending")
    <3>1. PICK f : f = launch[l].first
      OBVIOUS
    <3>2. f \in Job /\ row[f] \in Row /\ row' = [row EXCEPT ![f].status = "pending"]
      BY <1>0, <2>2, <3>1 DEF Staged, LaunchAt, Hand, LaunchTypeOK, TypeOK, SetStatus
    <3>3. /\ row'[f].status = "pending" /\ row'[f].dep = row[f].dep
          /\ \A k \in Job \ {f} : row'[k] = row[k]
      BY <1>0, <3>2 DEF LaunchTypeOK, TypeOK, Row
    <3> QED
      BY <1>0, <1>1, <3>2, <3>3, StatusOrdered
  <2> QED
    BY <1>1, <2>1, <2>2
<1> QED
  BY <1>1, <1>2 DEF Loose, Creating, Ends

LEMMA CopyOrdered ==
    ASSUME Launched, NEW l \in Launcher, CopyJob(l) \/ CreateRestoreJob(l)
    PROVE  FirstStart' /\ DepInv' /\ Ordered' /\ Loose(l)'
<1>0. LaunchTypeOK /\ Staged(l) /\ Loose(l) /\ Written(l)
  <2>1. LaunchTypeOK /\ Staged(l) /\ Loose(l)
    BY DEF Launched, Typed, Stages
  <2> QED
    BY <2>1, LaunchWritten DEF LaunchStep, LaunchRound
<1>1. PICK n \in Job :
        /\ LaunchAt(l) = "copy" /\ Creates(l, n, "new")
        /\ launch'[l] = [launch[l] EXCEPT !.pc = "signal", !.first = n]
        /\ \/ UNCHANGED master
           \/ master' = [master EXCEPT ![n] = master[launch[l].copied]]
  BY <1>0, CopyStep
<1>2. PICK m : m = master[launch[l].copied]
  OBVIOUS
<1>3. launch[l].copied \in Job /\ launch[l] \in Launch
  BY <1>0, <1>1 DEF Staged, LaunchAt, LaunchTypeOK
<1>4. m # None => /\ m \in Job \ Dependency /\ row[m].status \in Finished
                  /\ row[m].status # "absent"
  BY <1>0, <1>1, <1>2, <1>3 DEF Launched, Ordered, OrderedAt, Loose, LaunchAt
<1>5. /\ row[n].status = "absent" /\ master[n] = None
      /\ \A k \in Job \ {n} : row'[k] = row[k] /\ master'[k] = master[k]
      /\ row'[n].status = "new"
      /\ master'[n] \in {None, m}
  <2>1. row[n].status = "absent" /\ master[n] = None
    BY <1>1, NewIsLoose DEF Creates
  <2>2. NewRow("new") \in Row /\ NewRow("new").status = "new"
    BY NewRows DEF Status, NewRow
  <2>3. row'[n] = NewRow("new") /\ \A k \in Job \ {n} : row'[k] = row[k]
    BY <1>0, <1>1, <2>2, SavedMine DEF Creates
  <2>4. master'[n] \in {None, m} /\ \A k \in Job \ {n} : master'[k] = master[k]
    BY <1>0, <1>1, <1>2, <2>1 DEF LaunchTypeOK
  <2> QED
    BY <2>1, <2>2, <2>3, <2>4
<1>6. master'[n] # None => OrderedAt(n)'
  <2> SUFFICES ASSUME master'[n] # None
               PROVE  OrderedAt(n)'
    OBVIOUS
  <2>1. master'[n] = m /\ m # None
    BY <1>5
  <2>2. m # n /\ row'[m] = row[m]
    BY <1>4, <1>5, <2>1
  <2>3. Follows(m, n)'
    BY <1>4, <2>1, <2>2 DEF Follows
  <2> QED
    BY <1>4, <1>5, <2>1, <2>2, <2>3 DEF OrderedAt
<1>7. FirstStart' /\ DepInv' /\ Ordered'
  BY <1>0, <1>1, <1>5, <1>6, CreatesOrdered DEF Queueing
<1>8. launch'[l].pc = "signal"
  BY <1>1, <1>3 DEF Launch
<1> QED
  BY <1>7, <1>8 DEF Loose, Creating, Ends

\* A job that is launched again has no job of its client under way, so that the one
\* it was made for is over.
LEMMA TestOrdered ==
    ASSUME Launched, NEW l \in Launcher, BeginLaunch(l) \/ CheckClient(l) \/ BeginCopy(l)
    PROVE  FirstStart' /\ DepInv' /\ Ordered' /\ Loose(l)'
<1>0. LaunchTypeOK /\ Staged(l)
  BY DEF Launched, Typed, Stages
<1>1. /\ Walks(l) /\ UNCHANGED <<row, mine, master>>
      /\ \/ LaunchAt(l) = "idle" /\ launch'[l].pc \in {"check", "next"}
            /\ launch'[l].previous = None /\ launch'[l].first = None
         \/ /\ LaunchAt(l) = "check" /\ launch'[l].pc \in {"idle", "check", "next"}
            /\ launch'[l].pc # "idle" =>
                  /\ launch'[l].previous = launch[l].previous
                  /\ launch'[l].first = launch[l].first
         \/ LaunchAt(l) = "idle" /\ launch'[l].pc = "copy"
            /\ launch'[l].copied \in Job
            /\ row[launch'[l].copied].status # "absent"
            /\ ~Conflicting(ClientOf[launch'[l].copied], Repo \cup {None})
  BY <1>0, TestStep
<1>2. UNCHANGED <<row, pass, deliv, api>>
  BY <1>1 DEF Walks
<1>3. FirstStart' /\ DepInv'
  <2>1. FirstStart'
    BY <1>2 DEF Launched, FirstStart, pass
  <2>2. Waits
    BY LaunchedWaits
  <2> QED
    BY <1>2, <2>1, <2>2, OutsideWaits
<1>4. Ordered'
  <2>1. ASSUME NEW m, NEW j, Building(m, j)
        PROVE  Building(m, j)'
    <3>1. PICK k \in Launcher : Builds(k, m, j)
      BY <2>1 DEF Building
    <3>2. k # l
      BY <1>1, <3>1 DEF Builds
    <3>3. launch'[k] = launch[k]
      BY <1>1, <3>2 DEF Walks
    <3>4. Builds(k, m, j)'
      BY <3>1, <3>3 DEF Builds, LaunchAt, Pruned
    <3> QED
      BY <3>4 DEF Building
  <2>2. ASSUME NEW j \in Job
        PROVE  OrderedAt(j)'
    <3>1. PICK m : m = master[j]
      OBVIOUS
    <3>2. Follows(m, j) => Follows(m, j)'
      BY <1>1, <2>1 DEF Follows
    <3> QED
      BY <1>1, <3>1, <3>2 DEF Launched, Ordered, OrderedAt
  <2> QED
    BY <2>2 DEF Ordered
<1>5. Loose(l)'
  <2>1. CASE launch'[l].pc \in {"idle", "check"}
    BY <2>1 DEF Loose, Creating, Ends
  <2>2. CASE launch'[l].pc = "next"
    <3>1. launch'[l].previous = None /\ launch'[l].first = None
      <4>1. LaunchAt(l) = "check" => launch[l].previous = None /\ launch[l].first = None
        BY <1>0 DEF Staged, Started, Chaining, LaunchAt
      <4> QED
        BY <1>1, <2>2, <4>1
    <3> QED
      BY <2>2, <3>1 DEF Loose, Creating, Ends
  <2>3. CASE launch'[l].pc = "copy"
    <3>1. PICK o : o = launch'[l].copied
      OBVIOUS
    <3>2. /\ o \in Job /\ ~Conflicting(ClientOf[o], Repo \cup {None})
      BY <1>1, <2>3, <3>1
    <3>3. row[o].status \notin {"pending", "waiting"}
      BY <3>2, JobAssumption DEF Conflicting, Active
    <3>4. master[o] # None => row[master[o]].status \in Finished
      BY <3>2, <3>3 DEF Launched, Ordered, OrderedAt, Follows
    <3> QED
      BY <1>1, <2>3, <3>1, <3>4 DEF Loose, Creating, Ends
  <2> QED
    BY <1>1, <2>1, <2>2, <2>3
<1> QED
  BY <1>3, <1>4, <1>5

LEMMA LauncherOrdered ==
    ASSUME Launched, NEW l \in Launcher, LaunchStep(l) \/ LaunchRaises(l),
           HalfDone(l) => LaunchAt(l)' # "idle"
    PROVE  /\ FirstStart' /\ DepInv' /\ Ordered'
           /\ \A k \in Launcher : Loose(k)'
<1>0. LaunchTypeOK /\ Staged(l) /\ Written(l)
  <2>1. LaunchTypeOK /\ Staged(l)
    BY DEF Launched, Typed, Stages
  <2> QED
    BY <2>1, LaunchWritten
<1>1. FirstStart' /\ DepInv' /\ Ordered' /\ Loose(l)'
  <2>1. CASE SignalFirst(l) \/ LaunchRaises(l)
    <3>1. ~HalfDone(l)
      BY <1>0, <2>1, EndStep DEF LaunchAt
    <3> QED
      BY <2>1, <3>1, EndOrdered
  <2> QED
    BY <2>1, BackupOrdered, CatalogOrdered, PruneOrdered, AttachCatalogOrdered,
       AttachPruneOrdered, ChainOrdered, RenewOrdered, CopyOrdered, TestOrdered
       DEF LaunchStep, LaunchRound
<1>2. ASSUME NEW k \in Launcher \ {l}
      PROVE  Loose(k)'
  <2>1. launch'[k] = launch[k] /\ mine'[k] = mine[k] /\ Loose(k)
    BY <1>0 DEF Written, Walks, Launched
  <2>2. CASE l \in Writing
    <3>1. launch'[k].pc \in {"idle", "check"}
      BY <2>1, <2>2, OneWriter DEF Launched, Writing, LaunchAt
    <3> QED
      BY <3>1 DEF Loose, Creating, Ends
  <2>3. CASE l \notin Writing
    <3>1. LaunchAt(l) \in {"idle", "check"}
      BY <2>3 DEF Writing
    <3>2. BeginLaunch(l) \/ CheckClient(l) \/ BeginCopy(l)
      BY <3>1 DEF LaunchStep, LaunchRound, LaunchRaises, CreateBackup, CreateCatalog,
         AttachCatalog, CreatePrune, AttachPrune, ChainClient, RenewFirst, SignalFirst,
         CopyJob, CreateRestoreJob, HalfDone, LaunchAt
    <3>3. UNCHANGED <<row, master>>
      BY <1>0, <3>2, TestStep
    <3>4. Ends(k)' = Ends(k) /\ Pruned(k)' = Pruned(k)
      BY <2>1 DEF Ends, Pruned, LastOfClient
    <3> QED
      BY <2>1, <3>3, <3>4 DEF Loose
  <2> QED
    BY <2>2, <2>3
<1> QED
  BY <1>1, <1>2

LEMMA OrderedLaunchStep ==
    ASSUME Chained, Typed, CalmLaunch, OrderedLaunch, [LaunchNext]_launchVars
    PROVE  OrderedLaunch'
<1> SUFFICES ASSUME ~raced'
             PROVE  /\ FirstStart' /\ DepInv' /\ Ordered'
                    /\ \A l \in Launcher : Loose(l)'
  BY DEF OrderedLaunch
<1>1. CASE UNCHANGED launchVars
  <2>0. UNCHANGED <<row, pass, deliv, api, launch, mine, master, raced>>
    BY <1>1 DEF launchVars, launching, vars
  <2>1. Launched
    BY <2>0 DEF Launched, CalmLaunch, OrderedLaunch
  <2>2. FirstStart' /\ DepInv'
    <3>1. FirstStart'
      BY <2>0, <2>1 DEF Launched, FirstStart, pass
    <3>2. Waits
      BY <2>1, LaunchedWaits
    <3> QED
      BY <2>0, <3>1, <3>2, OutsideWaits
  <2>3. Ordered'
    BY <2>0, <2>1 DEF Launched, Ordered, OrderedAt, Follows, Building, Builds,
       LaunchAt, Pruned
  <2>4. ASSUME NEW l \in Launcher
        PROVE  Loose(l)'
    <3>1. Ends(l)' = Ends(l) /\ Pruned(l)' = Pruned(l)
      BY <2>0 DEF Ends, Pruned, LastOfClient
    <3> QED
      BY <2>0, <2>1, <3>1 DEF Launched, Loose
  <2> QED
    BY <2>2, <2>3, <2>4
<1>2. CASE LaunchNext
  <2>1. /\ ~raced /\ ~Overlap'
        /\ \A l \in Launcher : HalfDone(l) => LaunchAt(l)' # "idle"
    BY <1>2, NotRaced DEF LaunchNext, Apart, Typed
  <2>2. Launched
    BY <2>1 DEF Launched, CalmLaunch, OrderedLaunch
  <2> QED
    BY <1>2, <2>1, <2>2, ApartOrdered, LauncherOrdered DEF LaunchNext
<1> QED
  BY <1>1, <1>2

LEMMA OrderedLaunchInvariant ==
    ASSUME Chained
    PROVE  LaunchSpec => [](Typed /\ CalmLaunch /\ OrderedLaunch)
<1>0. Calm
  BY DEF Chained
<1>1. LaunchInit => OrderedLaunch
  <2> SUFFICES ASSUME LaunchInit PROVE OrderedLaunch
    OBVIOUS
  <2>1. FirstStart /\ DepInv
    BY <1>0, WaitsInit DEF LaunchInit
  <2>2. Ordered
    BY DEF LaunchInit, Ordered, OrderedAt
  <2>3. \A l \in Launcher : Loose(l)
    BY DEF LaunchInit, NoLaunch, Loose, Creating, Ends
  <2> QED
    BY <2>1, <2>2, <2>3 DEF OrderedLaunch
<1>2. Typed /\ CalmLaunch /\ OrderedLaunch /\ [LaunchNext]_launchVars => OrderedLaunch'
  BY OrderedLaunchStep
<1> QED
  BY <1>0, <1>1, <1>2, CalmLaunchInvariant, PTL DEF LaunchSpec

\* Under Chained, and with the same proviso, a catalog or prune job starts after
\* the job it was made for is over, and so does one that is launched again: a row
\* whose dependency create_job has not saved yet is never seen by a pass.
THEOREM MastersComeFirst ==
    ASSUME Chained
    PROVE  LaunchSpec => []MasterFirst
<1>1. Typed /\ OrderedLaunch => MasterFirst
  BY DEF OrderedLaunch, MasterFirst, Ordered, OrderedAt, Follows, Busy
<1> QED
  BY <1>1, OrderedLaunchInvariant, PTL
=============================================================================
