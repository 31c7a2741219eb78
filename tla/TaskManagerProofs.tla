------------------------- MODULE TaskManagerProofs -------------------------
(***************************************************************************)
(* What TLAPS proves of TaskManager, for every job table: types, row locks *)
(* and finished jobs without a hypothesis, busy jobs under Attended,       *)
(* exclusion, the refinement and the order of jobs under Calm and Chained, *)
(* and preparations first under SingleChains.                              *)
(***************************************************************************)
EXTENDS TaskManagerRuns, TLAPS, WellFoundedInduction

-----------------------------------------------------------------------------
(* The operators that choose.                                              *)

\* The first of some jobs is one of them: timestamps are well ordered.
LEMMA FirstIsMember ==
    ASSUME NEW S \in SUBSET Job, S # {}
    PROVE  First(S) \in S
<1>1. S \subseteq Nat
  BY JobAssumption
<1>2. \E a \in S : \A b \in S : ~(<<b, a>> \in OpToRel(<, Nat))
  BY <1>1, NatLessThanWellFounded, WFMin
<1>3. PICK a \in S : \A b \in S : ~(<<b, a>> \in OpToRel(<, Nat))
  BY <1>2
<1>4. \A b \in S : a <= b
  <2> SUFFICES ASSUME NEW b \in S PROVE a <= b
    OBVIOUS
  <2>1. ~(b < a)
    BY <1>1, <1>3 DEF OpToRel
  <2> QED
    BY <1>1, <2>1
<1> QED
  BY <1>4 DEF First

\* So is the first of the jobs that a pass has still to look at.
LEMMA FirstTodo ==
    ASSUME TypeOK, NEW s \in Scheduler, todo[s] # {}
    PROVE  First(todo[s]) \in todo[s] /\ First(todo[s]) \in Job
<1>1. todo[s] \in SUBSET Job
  BY DEF TypeOK
<1> QED
  BY <1>1, FirstIsMember

\* The next dependency is one of those that are left.
LEMMA NextDependencyIsMember ==
    ASSUME NEW D \in SUBSET Job, D # {}
    PROVE  NextDependency(D) \in D
  BY DEF NextDependency

-----------------------------------------------------------------------------
(* Types.                                                                  *)

LEMMA StatusUpdate ==
    ASSUME NEW r \in Row, NEW s \in Status
    PROVE  [r EXCEPT !.status = s] \in Row
  BY DEF Row

LEMMA NullRows ==
    /\ NoRow \in Row
    /\ \A j \in Job : PrepRow(j) \in Row
    /\ NoRequest \in Request
    /\ NoDelivery \in Delivery
  BY DEF NoRow, PrepRow, Row, Status, NoRequest, Request, NoDelivery, Delivery,
         DeliveryPc

\* What a pass sees is a job table.
LEMMA ViewType ==
    ASSUME TypeOK, NEW s \in Scheduler
    PROVE  View(s) \in [Job -> Row]
  BY DEF TypeOK, View

\* The types of what belongs to a pass.
PassTypeOK ==
    /\ lock \in Scheduler \cup {None}
    /\ pc \in [Scheduler -> PassPc]
    /\ todo \in [Scheduler -> SUBSET Job]
    /\ obj \in [Scheduler -> [Job -> Row]]
    /\ dirty \in [Scheduler -> SUBSET Job]
    /\ deps \in [Scheduler -> SUBSET Job]
    /\ left \in [Scheduler -> SUBSET Job]
    /\ sends \in [Scheduler -> SUBSET Sending]
    /\ cleared \in [Scheduler -> SUBSET Client]

LEMMA RollbackType ==
    ASSUME PassTypeOK, NEW s \in Scheduler, Rollback(s)
    PROVE  PassTypeOK'
  BY NullRows DEF PassTypeOK, Rollback, PassPc

LEMMA SaveType ==
    ASSUME TypeOK, NEW s \in Scheduler, NEW j \in Job, NEW r \in Row, Save(s, j, r)
    PROVE  /\ obj' \in [Scheduler -> [Job -> Row]]
           /\ dirty' \in [Scheduler -> SUBSET Job]
  BY DEF TypeOK, Save

LEMMA StartTaskType ==
    ASSUME TypeOK, NEW s \in Scheduler, NEW j \in Job, NEW r \in Row,
           NEW F \in SUBSET Job, StartTask(s, j, r, F)
    PROVE  /\ obj' \in [Scheduler -> [Job -> Row]]
           /\ dirty' \in [Scheduler -> SUBSET Job]
           /\ sends' \in [Scheduler -> SUBSET Sending]
<1>1. "starting" \in Status
  BY DEF Status
<1>2. [r EXCEPT !.status = "starting"] \in Row
  BY <1>1, StatusUpdate
<1>3. [job |-> j, fail |-> F] \in Sending
  BY DEF Sending
<1> QED
  BY <1>2, <1>3, SaveType DEF StartTask, TypeOK

\* A job's dependencies are preparations.
LEMMA DependenciesAreChecks ==
    ASSUME TypeOK, NEW s \in Scheduler, NEW j \in Job,
           NEW D \in DependencyChoices(s, j)
    PROVE  D \in SUBSET {k \in Job : TypeOf[k] = "check"}
<1> DEFINE Check == {k \in Job : TypeOf[k] = "check"}
<1>1. /\ FreeRepositoryPreps(View(s), j) \in SUBSET Check
      /\ FreeClientPreps(View(s), j) \in SUBSET Check
  BY JobAssumption DEF FreeRepositoryPreps, FreeClientPreps, FreePreps
<1>2. /\ LatestRepositoryCreation(View(s), j) \in SUBSET Check
      /\ LatestClientPreparation(View(s), j) \in SUBSET Check
      /\ LatestHypervisorPreparation(View(s), j) \in SUBSET Check
  BY DEF LatestRepositoryCreation, LatestClientPreparation,
         LatestHypervisorPreparation, Latest, Checks
<1>3. ASSUME NEW L \in SUBSET Check, NEW F \in SUBSET Check, NEW b,
             NEW E \in Prepare(View(s), L, b, F)
      PROVE  E \in SUBSET Check
  <2>1. CASE L = {}
    BY <1>3, <2>1 DEF Prepare
  <2>2. CASE L # {}
    <3>1. PICK k \in L : E \in IF View(s)[k].status \in Queued THEN {{k}}
                              ELSE IF b THEN {{}} ELSE {{p} : p \in F}
      BY <1>3, <2>2 DEF Prepare
    <3> QED
      BY <1>3, <3>1
  <2> QED
    BY <2>1, <2>2
<1>4. RepositoryDependencies(View(s), j) \in SUBSET (SUBSET Check)
  BY <1>1, <1>2, <1>3 DEF RepositoryDependencies
<1>5. ClientDependencies(s, View(s), j) \in SUBSET (SUBSET Check)
  <2>1. \A p \in FreeClientPreps(View(s), j) : {p} \in SUBSET Check
    BY <1>1
  <2>2. Prepare(View(s), LatestClientPreparation(View(s), j),
                ClientOf[j] \in ready, FreeClientPreps(View(s), j))
          \in SUBSET (SUBSET Check)
    BY <1>1, <1>2, <1>3
  <2>3. HypervisorDependencies(View(s), j) \in SUBSET (SUBSET Check)
    <3>1. FreeHypervisorPreps(View(s), j) \in SUBSET Check
      BY <1>1 DEF FreeHypervisorPreps
    <3> QED
      BY <1>1, <1>2, <1>3, <3>1, ZenonT(20) DEF HypervisorDependencies
  <2>4. CASE ClientOf[j] = None
    BY <2>4 DEF ClientDependencies
  <2>5. CASE ClientOf[j] # None /\ HypervisorOf[j] # None
    BY <2>3, <2>5 DEF ClientDependencies
  <2>6. CASE ClientOf[j] # None /\ HypervisorOf[j] = None
    BY <2>1, <2>2, <2>6 DEF ClientDependencies
  <2> QED
    BY <2>4, <2>5, <2>6
<1> QED
  BY <1>4, <1>5 DEF DependencyChoices

\* What a message and its error callback name are jobs.
LEMMA SentJobs ==
    ASSUME TypeOK, NEW s \in Scheduler, NEW m \in sends[s]
    PROVE  m.job \in Job /\ m.fail \in SUBSET Job
  BY DEF TypeOK, Sending

(***************************************************************************)
(* TypeOK is not inductive: the error callback of a dependency names the   *)
(* task being visited, so there must be one.  PassShape says where in a    *)
(* pass there is, who holds the lock, and until when rows are saved and    *)
(* not committed.                                                          *)
(***************************************************************************)
Inside == {"waiting", "pending", "deps"}
PassShape ==
    \A s \in Scheduler :
        /\ pc[s] \in Inside <=> lock = s
        /\ pc[s] = "deps" => todo[s] # {}
        /\ dirty[s] # {} => pc[s] \in Inside \cup {"commit"}

\* Every step of a scheduler keeps the types.
LEMMA PassStepType ==
    ASSUME TypeOK, PassShape, NEW s \in Scheduler, PassStep(s) \/ SchedulerCrash(s)
    PROVE  TypeOK'
<1> USE DEF Others
<1>0. PassTypeOK
  BY DEF TypeOK, PassTypeOK
<1>r. ASSUME Rollback(s), UNCHANGED Others
      PROVE  TypeOK'
  BY <1>0, <1>r, RollbackType DEF TypeOK, PassTypeOK
<1>1. CASE BeginPass(s)
  BY <1>1, NullRows DEF TypeOK, BeginPass, PassPc
<1>2. CASE ProcessWaiting(s)
  <2> DEFINE j == First(todo[s])
  <2>1. j \in Job
    BY <1>2, FirstTodo DEF ProcessWaiting
  <2>2. [obj[s][j] EXCEPT !.status = "pending"] \in Row
    <3>1. obj[s][j] \in Row
      BY <2>1 DEF TypeOK
    <3>2. "pending" \in Status
      BY DEF Status
    <3> QED
      BY <3>1, <3>2, StatusUpdate
  <2>3. UNCHANGED Others
    BY <1>2 DEF ProcessWaiting
  <2>4. CASE Rollback(s)
    BY <2>3, <2>4, <1>r
  <2>5. CASE ~Rollback(s)
    <3>1. /\ Save(s, j, [obj[s][j] EXCEPT !.status = "pending"])
             \/ UNCHANGED <<obj, dirty>>
          /\ todo' = [todo EXCEPT ![s] = @ \ {j}]
          /\ UNCHANGED <<lock, pc, deps, left, sends, cleared>>
      BY <1>2, <2>5 DEF ProcessWaiting
    <3>2. /\ obj' \in [Scheduler -> [Job -> Row]]
          /\ dirty' \in [Scheduler -> SUBSET Job]
      BY <2>1, <2>2, <3>1, SaveType DEF TypeOK
    <3> QED
      BY <2>3, <3>1, <3>2 DEF TypeOK
  <2> QED
    BY <2>4, <2>5
<1>3. CASE ProcessPending(s)
  <2>1. UNCHANGED Others
    BY <1>3 DEF ProcessPending
  <2>2. CASE Rollback(s)
    BY <2>1, <2>2, <1>r
  <2>3. CASE ~Rollback(s)
    <3>1. PICK T \in SUBSET Job : todo' = [todo EXCEPT ![s] = T]
      BY <1>3, <2>3 DEF ProcessPending
    <3>2. todo' \in [Scheduler -> SUBSET Job]
      BY <3>1 DEF TypeOK
    <3>3. /\ pc' = [pc EXCEPT ![s] = "pending"]
          /\ UNCHANGED <<lock, obj, dirty, deps, left, sends, cleared>>
      BY <1>3, <2>3 DEF ProcessPending
    <3> QED
      BY <2>1, <3>2, <3>3 DEF TypeOK, PassPc
  <2> QED
    BY <2>2, <2>3
<1>4. CASE GenerateDependencies(s)
  <2> DEFINE j == First(todo[s])
             new(D) == {p \in D : View(s)[p].status = "absent"}
  <2>1. j \in Job
    BY <1>4, FirstTodo DEF GenerateDependencies
  <2>2. CASE DependencyChoices(s, j) = {}
    BY <1>4, <2>2 DEF GenerateDependencies, TypeOK
  <2>3. CASE DependencyChoices(s, j) # {}
    <3>1. PICK D \in DependencyChoices(s, j) :
            /\ deps' = [deps EXCEPT ![s] = D]
            /\ left' = [left EXCEPT ![s] = D]
            /\ obj' = [obj EXCEPT ![s] = [k \in Job |->
                          IF k \in new(D) THEN PrepRow(j)
                          ELSE IF k \in D THEN View(s)[k] ELSE @[k]]]
            /\ dirty' = [dirty EXCEPT ![s] = @ \cup new(D)]
            /\ cleared' = IF HasDependencies(j) /\ MustUpdate(s, j)
                          THEN [cleared EXCEPT ![s] = @ \cup {ClientOf[j]}]
                          ELSE cleared
            /\ pc' = [pc EXCEPT ![s] = "deps"]
            /\ UNCHANGED todo
      BY <1>4, <2>3 DEF GenerateDependencies
    <3>2. D \in SUBSET Job
      BY <2>1, DependenciesAreChecks
    <3>3. cleared' \in [Scheduler -> SUBSET Client]
      BY <3>1, TaskManagerAssumption DEF TypeOK, MustUpdate
    <3>4. obj' \in [Scheduler -> [Job -> Row]]
      BY <2>1, <3>1, NullRows, ViewType DEF TypeOK
    <3>5. dirty' \in [Scheduler -> SUBSET Job]
      BY <3>1, <3>2 DEF TypeOK
    <3>6. UNCHANGED <<lock, sends, Others>>
      BY <1>4 DEF GenerateDependencies
    <3> QED
      BY <3>1, <3>2, <3>3, <3>4, <3>5, <3>6 DEF TypeOK, PassPc
  <2> QED
    BY <2>2, <2>3
<1>5. CASE ProcessDependency(s)
  <2> DEFINE d == NextDependency(left[s])
             j == First(todo[s])
  <2>1. d \in Job
    BY <1>5, NextDependencyIsMember DEF ProcessDependency, TypeOK
  <2>2. UNCHANGED Others
    BY <1>5 DEF ProcessDependency
  <2>3. CASE Rollback(s)
    BY <2>2, <2>3, <1>r
  <2>4. CASE ~Rollback(s)
    <3>1. /\ \/ UNCHANGED <<obj, dirty, sends>>
             \/ StartTask(s, d, obj[s][d], deps[s] \cup {d, j})
          /\ left' = [left EXCEPT ![s] = @ \ {d}]
          /\ UNCHANGED <<lock, pc, todo, deps, cleared>>
      BY <1>5, <2>4 DEF ProcessDependency
    <3>2. todo[s] # {}
      BY <1>5 DEF ProcessDependency, PassShape
    <3>3. j \in Job
      BY <3>2, FirstTodo
    <3>4. deps[s] \cup {d, j} \in SUBSET Job /\ obj[s][d] \in Row
      BY <2>1, <3>3 DEF TypeOK
    <3>5. /\ obj' \in [Scheduler -> [Job -> Row]]
          /\ dirty' \in [Scheduler -> SUBSET Job]
          /\ sends' \in [Scheduler -> SUBSET Sending]
      BY <2>1, <3>1, <3>4, StartTaskType DEF TypeOK
    <3> QED
      BY <2>2, <3>1, <3>5 DEF TypeOK
  <2> QED
    BY <2>3, <2>4
<1>6. CASE ProcessTask(s)
  <2> DEFINE j == First(todo[s])
  <2>1. UNCHANGED Others
    BY <1>6 DEF ProcessTask
  <2>2. CASE Rollback(s)
    BY <2>1, <2>2, <1>r
  <2>3. CASE ~Rollback(s)
    <3>1. PICK T \in {{}, todo[s] \ {j}} :
          /\ \/ UNCHANGED <<obj, dirty, sends>>
             \/ StartTask(s, j, obj[s][j], {j})
          /\ todo' = [todo EXCEPT ![s] = T]
          /\ pc' = [pc EXCEPT ![s] = "pending"]
          /\ deps' = [deps EXCEPT ![s] = {}]
          /\ UNCHANGED <<lock, left, cleared>>
      BY <1>6, <2>3 DEF ProcessTask
    <3>2. todo[s] # {}
      BY <1>6 DEF ProcessTask, PassShape
    <3>3. j \in Job /\ obj[s][j] \in Row
      BY <3>2, FirstTodo DEF TypeOK
    <3>4. /\ obj' \in [Scheduler -> [Job -> Row]]
          /\ dirty' \in [Scheduler -> SUBSET Job]
          /\ sends' \in [Scheduler -> SUBSET Sending]
      BY <3>1, <3>3, StartTaskType DEF TypeOK
    <3> QED
      BY <2>1, <3>1, <3>4 DEF TypeOK, PassPc
  <2> QED
    BY <2>2, <2>3
<1>7. CASE ReleaseLock(s)
  BY <1>7 DEF ReleaseLock, TypeOK, PassPc
<1>8. CASE Commit(s)
  BY <1>8, NullRows, ViewType DEF Commit, TypeOK, PassPc
<1>9. CASE SendTask(s)
  <2>1. PICK m \in sends[s] : \E n \in FreeSlots(m.job) :
          /\ deliv' = [deliv EXCEPT ![<<m.job, n>>] =
                          [pc |-> "queued", fail |-> m.fail, result |-> "absent"]]
          /\ sends' = [sends EXCEPT ![s] = @ \ {m}]
          /\ pc' = [pc EXCEPT ![s] = IF sends[s] = {m} THEN "idle" ELSE "send"]
    BY <1>9 DEF SendTask
  <2>2. m \in Sending
    BY DEF TypeOK
  <2>3. [pc |-> "queued", fail |-> m.fail, result |-> "absent"] \in Delivery
    BY <2>2 DEF Sending, Delivery, DeliveryPc, Status
  <2>4. deliv' \in [Job \X Slot -> Delivery]
    BY <2>1, <2>3 DEF TypeOK
  <2> QED
    BY <1>9, <2>1, <2>4 DEF SendTask, TypeOK, PassPc
<1>10. CASE SchedulerCrash(s)
  BY <1>10, <1>r DEF SchedulerCrash
<1> QED
  BY <1>1, <1>2, <1>3, <1>4, <1>5, <1>6, <1>7, <1>8, <1>9, <1>10 DEF PassStep

LEMMA WorkerType ==
    ASSUME TypeOK, NEW d \in Job \X Slot,
           WorkerStep(d) \/ ReportReady(d) \/ WorkerCrash(d) \/ Redeliver(d)
    PROVE  TypeOK'
<1> USE DEF Unscheduled, pass
<1>0. d[1] \in Job
  OBVIOUS
<1>s. ASSUME NEW j \in Job, NEW st \in Status, SetStatus(j, st)
      PROVE  row' \in [Job -> Row]
  <2>1. [row[j] EXCEPT !.status = st] \in Row
    BY StatusUpdate DEF TypeOK
  <2>2. row' = [row EXCEPT ![j] = [row[j] EXCEPT !.status = st]]
    BY <1>s DEF SetStatus, TypeOK
  <2> QED
    BY <2>1, <2>2 DEF TypeOK
<1>a. ASSUME NEW p \in DeliveryPc, Advance(d, p)
      PROVE  deliv' \in [Job \X Slot -> Delivery]
  BY <1>a DEF Advance, TypeOK, Delivery
<1>b. {"running", "canceled", "failed"} \subseteq Status
  BY DEF Status
<1>c. {"canceling", "started", "failing", "borg"} \subseteq DeliveryPc
  BY DEF DeliveryPc
<1>1. CASE PickUp(d)
  BY <1>0, <1>1, <1>a, <1>b, <1>c, <1>s DEF PickUp, TypeOK
<1>2. CASE StopCanceled(d)
  BY <1>0, <1>2, <1>a, <1>b, <1>c, <1>s DEF StopCanceled, TypeOK
<1>3. CASE BuildArgs(d)
  BY <1>0, <1>3, <1>a, <1>c DEF BuildArgs, TypeOK
<1>4. CASE RunBorg(d)
  <2>1. PICK r \in RunOutcome[TypeOf[d[1]]] :
          deliv' = [deliv EXCEPT ![d].pc = "finishing",
                        ![d].result = IF row[d[1]].cancel THEN "canceled" ELSE r]
    BY <1>4 DEF RunBorg
  <2>2. r \in Status
    BY <1>0, <2>1, JobAssumption, TaskManagerAssumption DEF Status
  <2>3. (IF row[d[1]].cancel THEN "canceled" ELSE r) \in Status
    BY <1>b, <2>2
  <2>4. \A x \in Delivery, st \in Status :
          [x EXCEPT !.pc = "finishing", !.result = st] \in Delivery
    BY DEF Delivery, DeliveryPc
  <2>5. \E x \in Delivery : deliv' = [deliv EXCEPT ![d] = x]
    BY <2>1, <2>3, <2>4 DEF TypeOK
  <2>6. deliv' \in [Job \X Slot -> Delivery]
    BY <2>5 DEF TypeOK
  <2> QED
    BY <1>4, <2>6 DEF RunBorg, TypeOK
<1>5. CASE SaveResult(d)
  <2>1. deliv[d].result \in Status
    BY DEF TypeOK, Delivery
  <2>2. row' \in [Job -> Row]
    BY <1>0, <1>5, <1>s, <2>1 DEF SaveResult
  <2>3. deliv' \in [Job \X Slot -> Delivery]
    BY <1>5, <1>a, <1>c, NullRows DEF SaveResult, TypeOK
  <2> QED
    BY <1>5, <2>2, <2>3 DEF SaveResult, TypeOK
<1>6. CASE HandleWorkError(d)
  <2>1. PICK k \in deliv[d].fail :
          /\ IF Fails(d, k) THEN SetStatus(k, "failed") ELSE UNCHANGED row
          /\ deliv' = [deliv EXCEPT ![d] =
                          IF deliv[d].fail = {k} THEN NoDelivery
                          ELSE [deliv[d] EXCEPT !.fail = deliv[d].fail \ {k}]]
    BY <1>6 DEF HandleWorkError
  <2>2. k \in Job
    BY DEF TypeOK, Delivery
  <2>3. row' \in [Job -> Row]
    BY <1>b, <1>s, <2>1, <2>2 DEF TypeOK
  <2>4. \A x \in Delivery : [x EXCEPT !.fail = @ \ {k}] \in Delivery
    BY DEF Delivery
  <2>5. \E x \in Delivery : deliv' = [deliv EXCEPT ![d] = x]
    <3>1. deliv[d] \in Delivery
      BY DEF TypeOK
    <3>2. CASE deliv[d].fail = {k}
      BY <2>1, <3>2, NullRows
    <3>3. CASE deliv[d].fail # {k}
      <4> DEFINE y == [deliv[d] EXCEPT !.fail = @ \ {k}]
      <4>1. y \in Delivery
        BY <2>4, <3>1
      <4>2. deliv' = [deliv EXCEPT ![d] = y]
        BY <2>1, <3>3
      <4> QED
        BY <4>1, <4>2
    <3> QED
      BY <3>2, <3>3
  <2>6. deliv' \in [Job \X Slot -> Delivery]
    BY <2>5 DEF TypeOK
  <2> QED
    BY <1>6, <2>3, <2>6 DEF HandleWorkError, TypeOK
<1>7. CASE ReportReady(d)
  <2>1. Reported(d[1]) \subseteq Readiness
    <3>1. CASE HypervisorOf[d[1]] = None
      <4>1. /\ RepoOf[d[1]] \in Repo \cup {None}
            /\ ClientOf[d[1]] \in Client \cup {None}
        BY <1>0, JobAssumption
      <4> QED
        BY <3>1, <4>1 DEF Reported, Readiness
    <3>2. CASE HypervisorOf[d[1]] # None
      <4>1. /\ HypervisorOf[d[1]] \in Hypervisor
            /\ ClientOf[d[1]] \in Client
        BY <1>0, <3>2, JobAssumption
      <4> QED
        BY <3>2, <4>1 DEF Reported, Readiness
    <3> QED
      BY <3>1, <3>2
  <2>2. ready' \subseteq Readiness
    BY <1>7, <2>1 DEF ReportReady, TypeOK
  <2> QED
    BY <1>7, <2>2 DEF ReportReady, TypeOK
<1>8. CASE WorkerCrash(d)
  BY <1>8, NullRows DEF WorkerCrash, TypeOK
<1>9. CASE Redeliver(d)
  <2>1. PICK n \in FreeSlots(d[1]) : deliv' = [deliv EXCEPT ![<<d[1], n>>] = deliv[d]]
    BY <1>9 DEF Redeliver
  <2>2. deliv[d] \in Delivery
    BY DEF TypeOK
  <2> QED
    BY <1>9, <2>1, <2>2 DEF Redeliver, TypeOK
<1> QED
  BY <1>1, <1>2, <1>3, <1>4, <1>5, <1>6, <1>7, <1>8, <1>9 DEF WorkerStep

LEMMA UserType ==
    ASSUME TypeOK, UserStep
    PROVE  TypeOK'
<1> USE DEF pass
<1>1. ASSUME NEW op \in {"cancel", "start", "clean"}, NEW j \in Job, ReadJob(op, j)
      PROVE  TypeOK'
  BY <1>1 DEF ReadJob, TypeOK, Request
<1>2. ASSUME NEW j \in Job, JobCancel(j) \/ JobStart(j) \/ CleanOrphanJob(j)
      PROVE  TypeOK'
  BY <1>1, <1>2 DEF JobCancel, JobStart, CleanOrphanJob
<1>3. ASSUME NEW c \in Client, MarkAsToUpdate(c)
      PROVE  TypeOK'
  BY <1>3 DEF MarkAsToUpdate, TypeOK
<1>4. CASE Cancel
  <2>1. ASSUME NEW r \in Row, NEW seen \in Row
        PROVE  CancelFields(r, seen) \in Row
    BY <2>1 DEF CancelFields, Row, Status
  <2>2. row[api.job] \in Row \/ api.job \notin Job
    BY DEF TypeOK
  <2>3. row' \in [Job -> Row]
    BY <1>4, <2>1, <2>2 DEF Cancel, TypeOK, Request
  <2> QED
    BY <1>4, <2>3, NullRows DEF Cancel, TypeOK
<1>5. CASE SignalStart
  <2>1. \A r \in Row : [r EXCEPT !.status = "pending"] \in Row
    BY DEF Row, Status
  <2>2. row' \in [Job -> Row]
    BY <1>5, <2>1 DEF SignalStart, SetStatus, TypeOK
  <2> QED
    BY <1>5, <2>2, NullRows DEF SignalStart, TypeOK
<1>6. CASE SaveOrphan
  <2>1. [api.seen EXCEPT !.status = "error"] \in Row
    BY DEF TypeOK, Request, Row, Status
  <2>2. row' \in [Job -> Row]
    BY <1>6, <2>1 DEF SaveOrphan, TypeOK
  <2> QED
    BY <1>6, <2>2, NullRows DEF SaveOrphan, TypeOK
<1> QED
  BY <1>2, <1>3, <1>4, <1>5, <1>6 DEF UserStep

LEMMA InitType == Init => TypeOK /\ PassShape
<1> SUFFICES ASSUME Init PROVE TypeOK /\ PassShape
  OBVIOUS
<1>1. row \in [Job -> Row] /\ ready \subseteq Readiness
  BY TaskManagerAssumption DEF Init
<1>2. toUpdate \subseteq Client
  BY TaskManagerAssumption DEF Init
<1>3. TypeOK
  BY <1>1, <1>2, NullRows DEF Init, TypeOK, PassPc
<1>4. PassShape
  BY TaskManagerAssumption DEF Init, PassShape, Inside
<1> QED
  BY <1>3, <1>4

\* Where the schedulers are in their passes: one action at a time.
LEMMA ShapeStep ==
    ASSUME TypeOK, PassShape, [Next]_vars
    PROVE  PassShape'
<1> USE DEF Inside
<1>u. ASSUME UNCHANGED <<pc, lock, todo, dirty>>
      PROVE  PassShape'
  BY <1>u DEF PassShape
<1>r. ASSUME NEW s \in Scheduler, Rollback(s)
      PROVE  PassShape'
  BY <1>r, TaskManagerAssumption DEF Rollback, PassShape, TypeOK
<1>1. ASSUME NEW s \in Scheduler, BeginPass(s)
      PROVE  PassShape'
  BY <1>1, TaskManagerAssumption DEF BeginPass, LockIsFree, PassShape, TypeOK
<1>2. ASSUME NEW s \in Scheduler, ProcessWaiting(s), ~Rollback(s)
      PROVE  PassShape'
  <2>1. /\ pc[s] = "waiting"
        /\ UNCHANGED <<lock, pc>>
        /\ \A t \in Scheduler \ {s} : dirty'[t] = dirty[t] /\ todo'[t] = todo[t]
    BY <1>2 DEF ProcessWaiting, Save, TypeOK
  <2> QED
    BY <2>1 DEF PassShape
<1>3. ASSUME NEW s \in Scheduler, ProcessPending(s), ~Rollback(s)
      PROVE  PassShape'
  <2>1. /\ pc[s] = "waiting"
        /\ UNCHANGED <<lock, dirty>>
        /\ pc' = [pc EXCEPT ![s] = "pending"]
        /\ \A t \in Scheduler \ {s} : todo'[t] = todo[t]
    BY <1>3 DEF ProcessPending, TypeOK
  <2> QED
    BY <2>1 DEF PassShape, TypeOK
<1>4. ASSUME NEW s \in Scheduler, GenerateDependencies(s)
      PROVE  PassShape'
  <2>1. /\ pc[s] = "pending"
        /\ UNCHANGED lock
        /\ \/ UNCHANGED pc
           \/ pc' = [pc EXCEPT ![s] = "deps"] /\ todo[s] # {} /\ UNCHANGED todo
        /\ \A t \in Scheduler \ {s} : dirty'[t] = dirty[t] /\ todo'[t] = todo[t]
    BY <1>4 DEF GenerateDependencies, TypeOK
  <2> QED
    BY <2>1 DEF PassShape, TypeOK
<1>5. ASSUME NEW s \in Scheduler, ProcessDependency(s), ~Rollback(s)
      PROVE  PassShape'
  <2>1. /\ pc[s] = "deps"
        /\ UNCHANGED <<lock, pc, todo>>
        /\ \A t \in Scheduler \ {s} : dirty'[t] = dirty[t]
    BY <1>5 DEF ProcessDependency, StartTask, Save, TypeOK
  <2> QED
    BY <2>1 DEF PassShape
<1>6. ASSUME NEW s \in Scheduler, ProcessTask(s), ~Rollback(s)
      PROVE  PassShape'
  <2>1. /\ pc[s] = "deps"
        /\ pc' = [pc EXCEPT ![s] = "pending"]
        /\ UNCHANGED lock
        /\ \A t \in Scheduler \ {s} : dirty'[t] = dirty[t] /\ todo'[t] = todo[t]
    BY <1>6 DEF ProcessTask, StartTask, Save, TypeOK
  <2> QED
    BY <2>1 DEF PassShape, TypeOK
<1>7. ASSUME NEW s \in Scheduler, ReleaseLock(s)
      PROVE  PassShape'
  BY <1>7, TaskManagerAssumption DEF ReleaseLock, PassShape, TypeOK
<1>8. ASSUME NEW s \in Scheduler, Commit(s)
      PROVE  PassShape'
  BY <1>8 DEF Commit, PassShape, TypeOK
<1>9. ASSUME NEW s \in Scheduler, SendTask(s)
      PROVE  PassShape'
  <2>1. /\ pc[s] = "send"
        /\ UNCHANGED <<lock, todo, dirty>>
        /\ \E p \in {"idle", "send"} : pc' = [pc EXCEPT ![s] = p]
    BY <1>9 DEF SendTask
  <2> QED
    BY <2>1 DEF PassShape, TypeOK
<1>10. ASSUME NEW s \in Scheduler, PassStep(s) \/ SchedulerCrash(s)
       PROVE  PassShape'
  BY <1>r, <1>1, <1>2, <1>3, <1>4, <1>5, <1>6, <1>7, <1>8, <1>9, <1>10
     DEF PassStep, SchedulerCrash
<1>11. ASSUME NEW d \in Job \X Slot,
              WorkerStep(d) \/ ReportReady(d) \/ WorkerCrash(d) \/ Redeliver(d)
       PROVE  UNCHANGED pass
  BY <1>11 DEF WorkerStep, PickUp, StopCanceled, BuildArgs, RunBorg, SaveResult,
     HandleWorkError, ReportReady, WorkerCrash, Redeliver, Unscheduled
<1>12. ASSUME UserStep
       PROVE  UNCHANGED pass
  BY <1>12 DEF UserStep, JobCancel, JobStart, CleanOrphanJob, ReadJob, Cancel,
     SignalStart, SaveOrphan, MarkAsToUpdate
<1> QED
  BY <1>u, <1>10, <1>11, <1>12 DEF Next, vars, pass

\* Types and the shape of passes are an inductive invariant.
LEMMA TypeStep ==
    TypeOK /\ PassShape /\ [Next]_vars => TypeOK' /\ PassShape'
<1> SUFFICES ASSUME TypeOK, PassShape, [Next]_vars
             PROVE  TypeOK' /\ PassShape'
  OBVIOUS
<1>1. ASSUME UNCHANGED vars
      PROVE  TypeOK'
  BY <1>1 DEF vars, pass, TypeOK
<1>2. ASSUME Next
      PROVE  TypeOK'
  BY <1>2, PassStepType, WorkerType, UserType DEF Next
<1> QED
  BY <1>1, <1>2, ShapeStep

LEMMA ShapeInvariant == Spec => [](TypeOK /\ PassShape)
  BY InitType, TypeStep, PTL DEF Spec

\* Every variable keeps its type, however passes, workers, requests and
\* failures interleave.
THEOREM TypeCorrect == Spec => []TypeOK
  BY ShapeInvariant, PTL

\* No two transactions of passes wait for each other's rows (task_manager.py
\* releases its lock before it commits), for any number of schedulers.
THEOREM NoDeadlockOfRows == Spec => []NoRowDeadlock
<1>1. TypeOK /\ PassShape => NoRowDeadlock
  BY TaskManagerAssumption DEF TypeOK, PassShape, Inside, NoRowDeadlock
<1> QED
  BY <1>1, ShapeInvariant, PTL

-----------------------------------------------------------------------------
(***************************************************************************)
(* Older copies of rows.  Saved: what a pass has saved and not committed   *)
(* are jobs it has put back to pending, new preparations, and the jobs it  *)
(* has started, each with its message.  Seen: what a request has read lets *)
(* it do what it is about to do.                                           *)
(***************************************************************************)
Saved ==
    \A s \in Scheduler : \A j \in dirty[s] :
        \/ obj[s][j].status = "pending"
        \/ obj[s][j].status = "starting" /\ j \in Marked(s)
Seen ==
    /\ api.op = "cancel" => <<api.job, api.seen.status>> \in CancelFrom
    /\ api.op = "start" => api.seen.status \in {"new", "starting", "waiting"}
    /\ api.op = "clean" => api.seen.status = "running"

\* A step of one scheduler leaves what the others hold alone.
LEMMA OtherPasses ==
    ASSUME TypeOK, NEW s \in Scheduler, PassStep(s) \/ SchedulerCrash(s),
           NEW t \in Scheduler \ {s}
    PROVE  /\ pc'[t] = pc[t] /\ obj'[t] = obj[t] /\ dirty'[t] = dirty[t]
           /\ sends'[t] = sends[t] /\ Marked(t)' = Marked(t)
<1> USE DEF TypeOK
<1>r. ASSUME Rollback(s)
      PROVE  /\ pc'[t] = pc[t] /\ obj'[t] = obj[t] /\ dirty'[t] = dirty[t]
             /\ sends'[t] = sends[t]
  BY <1>r DEF Rollback
<1>1. CASE BeginPass(s)
  BY <1>1 DEF BeginPass, Marked
<1>2. CASE ProcessWaiting(s)
  BY <1>r, <1>2 DEF ProcessWaiting, Save, Marked
<1>3. CASE ProcessPending(s)
  BY <1>r, <1>3 DEF ProcessPending, Marked
<1>4. CASE GenerateDependencies(s)
  BY <1>4 DEF GenerateDependencies, Marked
<1>5. CASE ProcessDependency(s)
  BY <1>r, <1>5 DEF ProcessDependency, StartTask, Save, Marked
<1>6. CASE ProcessTask(s)
  BY <1>r, <1>6 DEF ProcessTask, StartTask, Save, Marked
<1>7. CASE ReleaseLock(s)
  BY <1>7 DEF ReleaseLock, Marked
<1>8. CASE Commit(s)
  BY <1>8 DEF Commit, Marked
<1>9. CASE SendTask(s)
  BY <1>9 DEF SendTask, Marked
<1>10. CASE SchedulerCrash(s)
  BY <1>r, <1>10 DEF SchedulerCrash, Marked
<1> QED
  BY <1>1, <1>2, <1>3, <1>4, <1>5, <1>6, <1>7, <1>8, <1>9, <1>10 DEF PassStep

\* Workers and requests leave the passes alone.
LEMMA PassesUnchanged ==
    ASSUME \/ \E d \in Job \X Slot :
                WorkerStep(d) \/ ReportReady(d) \/ WorkerCrash(d) \/ Redeliver(d)
           \/ UserStep
    PROVE  UNCHANGED pass
<1>1. ASSUME NEW d \in Job \X Slot,
             WorkerStep(d) \/ ReportReady(d) \/ WorkerCrash(d) \/ Redeliver(d)
      PROVE  UNCHANGED pass
  BY <1>1 DEF WorkerStep, PickUp, StopCanceled, BuildArgs, RunBorg, SaveResult,
     HandleWorkError, ReportReady, WorkerCrash, Redeliver, Unscheduled
<1>2. ASSUME UserStep
      PROVE  UNCHANGED pass
  BY <1>2 DEF UserStep, JobCancel, JobStart, CleanOrphanJob, ReadJob, Cancel,
     SignalStart, SaveOrphan, MarkAsToUpdate
<1> QED
  BY <1>1, <1>2

\* Starting a job saves it and leaves its message.
LEMMA StartTaskSaved ==
    ASSUME TypeOK, Saved, NEW s \in Scheduler, NEW j \in Job, NEW F \in SUBSET Job,
           StartTask(s, j, obj[s][j], F), NEW k \in dirty'[s]
    PROVE  \/ obj'[s][k].status = "pending"
           \/ obj'[s][k].status = "starting" /\ k \in Marked(s)'
<1> DEFINE r == [obj[s][j] EXCEPT !.status = "starting"]
<1>1. r.status = "starting"
  BY DEF TypeOK, Row
<1>2. /\ dirty'[s] = dirty[s] \cup {j}
      /\ obj'[s] = [obj[s] EXCEPT ![j] = r]
      /\ sends'[s] = sends[s] \cup {[job |-> j, fail |-> F]}
  BY DEF StartTask, Save, TypeOK
<1>3. Marked(s) \cup {j} \subseteq Marked(s)'
  <2>1. [job |-> j, fail |-> F].job = j
    OBVIOUS
  <2> QED
    BY <1>2, <2>1, Zenon DEF Marked
<1>4. CASE k = j
  BY <1>1, <1>2, <1>3, <1>4 DEF TypeOK
<1>5. CASE k # j
  <2>1. k \in dirty[s] /\ k \in Job
    BY <1>2, <1>5 DEF TypeOK
  <2>2. obj'[s][k] = obj[s][k]
    BY <1>2, <1>5, <2>1 DEF TypeOK
  <2> QED
    BY <1>3, <2>1, <2>2 DEF Saved
<1> QED
  BY <1>4, <1>5

\* Every step keeps Saved.
LEMMA SavedStep ==
    ASSUME TypeOK, PassShape, Saved, [Next]_vars
    PROVE  Saved'
<1> DEFINE Good(s, k) == \/ obj[s][k].status = "pending"
                         \/ obj[s][k].status = "starting" /\ k \in Marked(s)
<1>u. ASSUME UNCHANGED pass
      PROVE  Saved'
  BY <1>u DEF pass, Saved, Marked
<1>1. ASSUME NEW s \in Scheduler, PassStep(s) \/ SchedulerCrash(s),
             NEW k \in dirty'[s]
      PROVE  Good(s, k)'
  <2>0. k \in dirty[s] => k \in Job /\ Good(s, k)
    BY DEF Saved, TypeOK
  <2>r. ASSUME Rollback(s)
        PROVE  FALSE
    BY <1>1, <2>r DEF Rollback, TypeOK
  <2>1. CASE BeginPass(s)
    BY <1>1, <2>1 DEF BeginPass, PassShape, Inside
  <2>2. CASE ProcessWaiting(s)
    <3> DEFINE j == First(todo[s])
               r == [obj[s][j] EXCEPT !.status = "pending"]
    <3>1. j \in Job
      BY <2>2, FirstTodo DEF ProcessWaiting
    <3>2. r.status = "pending"
      BY <3>1 DEF TypeOK, Row
    <3>3. UNCHANGED sends
      BY <2>r, <2>2 DEF ProcessWaiting
    <3>4. CASE UNCHANGED <<obj, dirty>>
      BY <1>1, <2>0, <3>3, <3>4 DEF Marked
    <3>5. CASE /\ obj' = [obj EXCEPT ![s][j] = r]
               /\ dirty' = [dirty EXCEPT ![s] = @ \cup {j}]
      <4>1. CASE k = j
        BY <3>1, <3>2, <3>5, <4>1 DEF TypeOK
      <4>2. CASE k # j
        BY <1>1, <2>0, <3>3, <3>5, <4>2 DEF TypeOK, Marked
      <4> QED
        BY <4>1, <4>2
    <3> QED
      BY <2>r, <2>2, <3>4, <3>5 DEF ProcessWaiting, Save
  <2>3. CASE ProcessPending(s)
    BY <1>1, <2>0, <2>r, <2>3 DEF ProcessPending, Marked
  <2>4. CASE GenerateDependencies(s)
    <3> DEFINE j == First(todo[s])
               new(D) == {p \in D : View(s)[p].status = "absent"}
    <3>1. UNCHANGED sends
      BY <2>4 DEF GenerateDependencies
    <3>2. CASE UNCHANGED <<obj, dirty>>
      BY <1>1, <2>0, <3>1, <3>2 DEF Marked
    <3>3. CASE \E D \in DependencyChoices(s, j) :
                 /\ obj' = [obj EXCEPT ![s] = [x \in Job |->
                               IF x \in new(D) THEN PrepRow(j)
                               ELSE IF x \in D THEN View(s)[x] ELSE @[x]]]
                 /\ dirty' = [dirty EXCEPT ![s] = @ \cup new(D)]
      <4>1. PICK D \in DependencyChoices(s, j) :
                 /\ obj' = [obj EXCEPT ![s] = [x \in Job |->
                               IF x \in new(D) THEN PrepRow(j)
                               ELSE IF x \in D THEN View(s)[x] ELSE @[x]]]
                 /\ dirty' = [dirty EXCEPT ![s] = @ \cup new(D)]
        BY <3>3
      <4>2. j \in Job
        BY <2>4, FirstTodo DEF GenerateDependencies
      <4>3. D \in SUBSET Job
        BY <4>2, DependenciesAreChecks
      <4>4. k \in Job /\ dirty'[s] = dirty[s] \cup new(D)
        BY <1>1, <4>1, <4>3 DEF TypeOK
      <4>5. obj'[s][k] = IF k \in new(D) THEN PrepRow(j)
                         ELSE IF k \in D THEN View(s)[k] ELSE obj[s][k]
        BY <4>1, <4>4 DEF TypeOK
      <4>6. CASE k \in new(D)
        BY <4>5, <4>6 DEF PrepRow
      <4>7. CASE k \notin new(D)
        <5>1. k \in dirty[s]
          BY <1>1, <4>4, <4>7
        <5>2. obj'[s][k] = obj[s][k]
          BY <4>4, <4>5, <4>7, <5>1 DEF View
        <5> QED
          BY <2>0, <3>1, <5>1, <5>2 DEF Marked
      <4> QED
        BY <4>6, <4>7
    <3> QED
      BY <2>4, <3>2, <3>3 DEF GenerateDependencies
  <2>5. CASE ProcessDependency(s)
    <3> DEFINE d == NextDependency(left[s])
               j == First(todo[s])
    <3>0. left[s] # {} /\ left[s] \in SUBSET Job /\ todo[s] # {}
      BY <2>5 DEF ProcessDependency, PassShape, TypeOK
    <3>1. d \in Job /\ j \in Job
      BY <3>0, NextDependencyIsMember, FirstTodo
    <3>2. deps[s] \cup {d, j} \in SUBSET Job
      BY <3>1 DEF TypeOK
    <3>3. CASE StartTask(s, d, obj[s][d], deps[s] \cup {d, j})
      BY <1>1, <3>1, <3>2, <3>3, StartTaskSaved
    <3>4. CASE UNCHANGED <<obj, dirty, sends>>
      BY <1>1, <2>0, <3>4 DEF Marked
    <3> QED
      BY <2>r, <2>5, <3>3, <3>4 DEF ProcessDependency
  <2>6. CASE ProcessTask(s)
    <3> DEFINE j == First(todo[s])
    <3>1. j \in Job /\ {j} \in SUBSET Job
      BY <2>6, FirstTodo DEF ProcessTask, PassShape
    <3>2. CASE StartTask(s, j, obj[s][j], {j})
      BY <1>1, <3>1, <3>2, StartTaskSaved
    <3>3. CASE UNCHANGED <<obj, dirty, sends>>
      BY <1>1, <2>0, <3>3 DEF Marked
    <3> QED
      BY <2>r, <2>6, <3>2, <3>3 DEF ProcessTask
  <2>7. CASE ReleaseLock(s)
    BY <1>1, <2>0, <2>7 DEF ReleaseLock, Marked
  <2>8. CASE Commit(s)
    BY <1>1, <2>8 DEF Commit, TypeOK
  <2>9. CASE SendTask(s)
    BY <1>1, <2>9 DEF SendTask, PassShape, Inside
  <2>10. CASE SchedulerCrash(s)
    BY <2>r, <2>10 DEF SchedulerCrash
  <2> QED
    BY <1>1, <2>1, <2>2, <2>3, <2>4, <2>5, <2>6, <2>7, <2>8, <2>9, <2>10 DEF PassStep
<1>2. ASSUME NEW s \in Scheduler, PassStep(s) \/ SchedulerCrash(s)
      PROVE  Saved'
  <2>1. ASSUME NEW t \in Scheduler \ {s}, NEW k \in dirty'[t]
        PROVE  Good(t, k)'
    BY <1>2, <2>1, OtherPasses DEF Saved
  <2> QED
    BY <1>1, <1>2, <2>1 DEF Saved
<1> QED
  BY <1>u, <1>2, PassesUnchanged DEF Next, vars

\* Every step keeps Seen.
LEMMA SeenStep ==
    ASSUME TypeOK, Seen, [Next]_vars
    PROVE  Seen'
<1>u. ASSUME UNCHANGED api
      PROVE  Seen'
  BY <1>u DEF Seen
<1>1. ASSUME NEW s \in Scheduler, PassStep(s) \/ SchedulerCrash(s)
      PROVE  UNCHANGED api
  BY <1>1 DEF PassStep, SchedulerCrash, BeginPass, ProcessWaiting, ProcessPending,
     GenerateDependencies, ProcessDependency, ProcessTask, ReleaseLock, Commit,
     SendTask, Others
<1>2. ASSUME NEW d \in Job \X Slot,
             WorkerStep(d) \/ ReportReady(d) \/ WorkerCrash(d) \/ Redeliver(d)
      PROVE  UNCHANGED api
  BY <1>2 DEF WorkerStep, PickUp, StopCanceled, BuildArgs, RunBorg, SaveResult,
     HandleWorkError, ReportReady, WorkerCrash, Redeliver, Unscheduled
<1>3. ASSUME UserStep
      PROVE  Seen'
  <2>1. ASSUME NEW j \in Job, JobCancel(j)
        PROVE  Seen'
    BY <2>1 DEF JobCancel, ReadJob, Seen
  <2>2. ASSUME NEW j \in Job, JobStart(j)
        PROVE  Seen'
    BY <2>2 DEF JobStart, CanStart, ReadJob, Seen
  <2>3. ASSUME NEW j \in Job, CleanOrphanJob(j)
        PROVE  Seen'
    BY <2>3 DEF CleanOrphanJob, Orphaned, ReadJob, Seen
  <2>4. CASE Cancel \/ SignalStart \/ SaveOrphan
    BY <2>4 DEF Cancel, SignalStart, SaveOrphan, NoRequest, Seen
  <2>5. ASSUME NEW c \in Client, MarkAsToUpdate(c)
        PROVE  Seen'
    BY <1>u, <2>5 DEF MarkAsToUpdate
  <2> QED
    BY <1>3, <2>1, <2>2, <2>3, <2>4, <2>5 DEF UserStep
<1> QED
  BY <1>u, <1>1, <1>2, <1>3 DEF Next, vars

LEMMA CopiesInvariant == Spec => [](TypeOK /\ PassShape /\ Saved /\ Seen)
<1>1. Init => Saved /\ Seen
  BY DEF Init, Saved, Seen, NoRequest
<1>2. TypeOK /\ PassShape /\ Saved /\ Seen /\ [Next]_vars => Saved' /\ Seen'
  BY SavedStep, SeenStep
<1> QED
  BY <1>1, <1>2, ShapeInvariant, PTL DEF Spec
\* What a step of a worker writes to a row belongs to a message for that job, or
\* to an error callback that names it.
LEMMA WorkerWrites ==
    ASSUME TypeOK, NEW d \in Job \X Slot,
           WorkerStep(d) \/ ReportReady(d) \/ WorkerCrash(d) \/ Redeliver(d),
           NEW j \in Job, deliv[d].pc # "none" => d[1] # j /\ j \notin deliv[d].fail
    PROVE  row'[j] = row[j]
<1>s. ASSUME NEW k, NEW st, SetStatus(k, st), k # j
      PROVE  row'[j] = row[j]
  BY <1>s DEF SetStatus, TypeOK
<1>1. CASE PickUp(d)
  BY <1>s, <1>1 DEF PickUp
<1>2. CASE StopCanceled(d)
  BY <1>s, <1>2 DEF StopCanceled
<1>3. CASE SaveResult(d)
  BY <1>s, <1>3 DEF SaveResult
<1>4. CASE HandleWorkError(d)
  BY <1>s, <1>4 DEF HandleWorkError
<1>5. CASE BuildArgs(d) \/ RunBorg(d) \/ ReportReady(d) \/ WorkerCrash(d) \/ Redeliver(d)
  BY <1>5 DEF BuildArgs, RunBorg, ReportReady, WorkerCrash, Redeliver
<1> QED
  BY <1>1, <1>2, <1>3, <1>4, <1>5 DEF WorkerStep

\* However passes, workers, callbacks, requests, commands and failures interleave:
\* only an older copy of the row, a message for the job or an error callback that
\* names it changes the status of a finished job.
THEOREM FinishedIsFinal == Spec => FinishedStaysFinished
<1> DEFINE Keep == \A j \in Job : row[j].status \in Finished /\ Quiet(j)
                       => row'[j].status = row[j].status
<1>1. TypeOK /\ PassShape /\ Saved /\ Seen /\ [Next]_vars => Keep
  <2> SUFFICES ASSUME TypeOK, Saved, Seen, [Next]_vars,
                      NEW j \in Job, row[j].status \in Finished, Quiet(j)
               PROVE  row'[j] = row[j]
    OBVIOUS
  <2>1. ASSUME NEW s \in Scheduler, PassStep(s) \/ SchedulerCrash(s)
        PROVE  row'[j] = row[j]
    <3>1. CASE Commit(s)
      <4>1. j \notin dirty[s]
        BY DEF Quiet, Saved, Finished
      <4> QED
        BY <3>1, <4>1 DEF Commit, View
    <3>2. CASE ~Commit(s)
      BY <2>1, <3>2 DEF PassStep, SchedulerCrash, BeginPass, ProcessWaiting,
         ProcessPending, GenerateDependencies, ProcessDependency, ProcessTask,
         ReleaseLock, SendTask, Others
    <3> QED
      BY <3>1, <3>2
  <2>2. ASSUME NEW d \in Job \X Slot,
               WorkerStep(d) \/ ReportReady(d) \/ WorkerCrash(d) \/ Redeliver(d)
        PROVE  row'[j] = row[j]
    BY <2>2, WorkerWrites DEF Quiet
  <2>3. CASE UserStep
    <3>1. api.op # "none" /\ api.op \in {"cancel", "start", "clean"} => api.job # j
      BY TaskManagerAssumption DEF Quiet, Seen, Finished, ActiveStates
    <3>2. ASSUME NEW k \in Job, JobCancel(k) \/ JobStart(k) \/ CleanOrphanJob(k)
          PROVE  row'[j] = row[j]
      BY <3>2 DEF JobCancel, JobStart, CleanOrphanJob, ReadJob
    <3>3. CASE Cancel
      BY <3>1, <3>3 DEF Cancel, TypeOK
    <3>4. CASE SignalStart \/ SaveOrphan
      BY <3>1, <3>4 DEF SignalStart, SaveOrphan, SetStatus, TypeOK
    <3>5. ASSUME NEW c \in Client, MarkAsToUpdate(c)
          PROVE  row'[j] = row[j]
      BY <3>5 DEF MarkAsToUpdate
    <3> QED
      BY <2>3, <3>2, <3>3, <3>4, <3>5 DEF UserStep
  <2>4. CASE UNCHANGED vars
    BY <2>4 DEF vars
  <2> QED
    BY <2>1, <2>2, <2>3, <2>4 DEF Next
<1> QED
  BY <1>1, CopiesInvariant, PTL DEF Spec, FinishedStaysFinished
-----------------------------------------------------------------------------
(***************************************************************************)
(* A busy job is handled, for overlapping passes, requests, commands and   *)
(* messages delivered again.  Attended: nobody dies between the steps of   *)
(* what he has begun, and users do not cancel a running job of a type      *)
(* whose build_args may raise: handle_work_error leaves the row of a       *)
(* canceled job as it is, which then stays running.                        *)
(***************************************************************************)
BuildMayRaise(j) == "raise" \in BuildOutcome[TypeOf[j]]
Attended ==
    /\ Faults \subseteq {"broker"}
    /\ \A j \in Job : <<j, "running">> \in CancelFrom => ~BuildMayRaise(j)
    /\ \A o \in Origins : \A j \in Job : ~Busy(o.row[j])

\* A message whose task will set the row of its job to something else.
Holds(d) ==
    \/ deliv[d].pc \in {"queued", "canceling", "borg", "finishing"}
    \/ deliv[d].pc = "started" /\ (BuildMayRaise(d[1]) => ~row[d[1]].cancel)
    \/ /\ deliv[d].pc = "failing" /\ BuildMayRaise(d[1])
       /\ ~row[d[1]].cancel /\ d[1] \in deliv[d].fail
Held(j) ==
    \/ \E s \in Scheduler : pc[s] = "send" /\ j \in Marked(s)
    \/ \E n \in Slot : Holds(<<j, n>>)
BusyIsHeld == \A j \in Job : Busy(row[j]) => Held(j)

\* An error callback names the job of its message until it has seen to it, and
\* a result ends the job.
OwnMessage ==
    /\ \A s \in Scheduler : \A m \in sends[s] : m.job \in m.fail
    /\ \A d \in Job \X Slot :
          /\ deliv[d].pc \notin {"none", "failing"} => d[1] \in deliv[d].fail
          /\ deliv[d].pc = "finishing" => deliv[d].result \in Finished

LEMMA OwnMessageStep ==
    ASSUME TypeOK, PassShape, OwnMessage, [Next]_vars
    PROVE  OwnMessage'
<1> DEFINE OwnSends == \A s \in Scheduler : \A m \in sends[s] : m.job \in m.fail
           Own(e) == /\ deliv[e].pc \notin {"none", "failing"} => e[1] \in deliv[e].fail
                     /\ deliv[e].pc = "finishing" => deliv[e].result \in Finished
<1>0. OwnSends /\ \A e \in Job \X Slot : Own(e)
  BY DEF OwnMessage
<1>d. ASSUME UNCHANGED deliv
      PROVE  \A e \in Job \X Slot : Own(e)'
  BY <1>0, <1>d
<1>1. ASSUME NEW s \in Scheduler, PassStep(s) \/ SchedulerCrash(s)
      PROVE  OwnMessage'
  <2>o. \A t \in Scheduler \ {s} : sends'[t] = sends[t]
    BY <1>1, OtherPasses
  <2>s. ASSUME NEW j \in Job, NEW r, NEW F, j \in F, StartTask(s, j, r, F)
        PROVE  \A m \in sends'[s] : m.job \in m.fail
    BY <1>0, <2>s DEF StartTask, TypeOK
  <2>1. CASE SendTask(s)
    <3>1. PICK m \in sends[s] : \E n \in FreeSlots(m.job) :
            /\ deliv' = [deliv EXCEPT ![<<m.job, n>>] =
                            [pc |-> "queued", fail |-> m.fail, result |-> "absent"]]
            /\ sends' = [sends EXCEPT ![s] = @ \ {m}]
      BY <2>1 DEF SendTask
    <3>2. PICK n \in FreeSlots(m.job) :
            deliv' = [deliv EXCEPT ![<<m.job, n>>] =
                            [pc |-> "queued", fail |-> m.fail, result |-> "absent"]]
      BY <3>1
    <3>3. m.job \in m.fail
      BY <1>0
    <3>4. ASSUME NEW e \in Job \X Slot
          PROVE  Own(e)'
      <4>1. CASE e = <<m.job, n>>
        <5>1. deliv'[e] = [pc |-> "queued", fail |-> m.fail, result |-> "absent"]
          BY <3>2, <4>1 DEF TypeOK
        <5>2. e[1] = m.job
          BY <4>1
        <5> QED
          BY <3>3, <5>1, <5>2
      <4>2. CASE e # <<m.job, n>>
        <5>1. deliv'[e] = deliv[e]
          BY <3>2, <4>2 DEF TypeOK
        <5> QED
          BY <1>0, <5>1
      <4> QED
        BY <4>1, <4>2
    <3>5. OwnSends'
      BY <1>0, <3>1 DEF TypeOK
    <3> QED
      BY <3>4, <3>5 DEF OwnMessage
  <2>2. CASE ~SendTask(s)
    <3>1. UNCHANGED deliv
      BY <1>1, <2>2 DEF PassStep, SchedulerCrash, BeginPass, ProcessWaiting,
         ProcessPending, GenerateDependencies, ProcessDependency, ProcessTask,
         ReleaseLock, Commit, Others
    <3>2. sends'[s] = sends[s] \/ sends'[s] = {} \/ ProcessDependency(s) \/ ProcessTask(s)
      BY <1>1, <2>2 DEF PassStep, SchedulerCrash, BeginPass, ProcessWaiting,
         ProcessPending, GenerateDependencies, ReleaseLock, Commit, Rollback, TypeOK
    <3>3. ASSUME ProcessDependency(s)
          PROVE  \A m \in sends'[s] : m.job \in m.fail
      <4> DEFINE d == NextDependency(left[s])
                 j == First(todo[s])
      <4>1. d \in Job
        BY <3>3, NextDependencyIsMember DEF ProcessDependency, TypeOK
      <4>2. \/ Rollback(s) \/ UNCHANGED sends
            \/ StartTask(s, d, obj[s][d], deps[s] \cup {d, j})
        BY <3>3 DEF ProcessDependency
      <4> QED
        BY <1>0, <2>s, <4>1, <4>2 DEF Rollback, TypeOK
    <3>4. ASSUME ProcessTask(s)
          PROVE  \A m \in sends'[s] : m.job \in m.fail
      <4> DEFINE j == First(todo[s])
      <4>1. j \in Job
        BY <3>4, FirstTodo DEF ProcessTask, PassShape
      <4>2. Rollback(s) \/ UNCHANGED sends \/ StartTask(s, j, obj[s][j], {j})
        BY <3>4 DEF ProcessTask
      <4> QED
        BY <1>0, <2>s, <4>1, <4>2 DEF Rollback, TypeOK
    <3>5. \A m \in sends'[s] : m.job \in m.fail
      BY <1>0, <3>2, <3>3, <3>4
    <3> QED
      BY <1>0, <1>d, <2>o, <3>1, <3>5 DEF OwnMessage
  <2> QED
    BY <2>1, <2>2
<1>2. ASSUME NEW d \in Job \X Slot,
             WorkerStep(d) \/ ReportReady(d) \/ WorkerCrash(d) \/ Redeliver(d)
      PROVE  OwnMessage'
  <2>1. UNCHANGED sends
    BY <1>2, PassesUnchanged DEF pass
  <2>2. deliv[d] \in Delivery /\ deliv \in [Job \X Slot -> Delivery]
    BY DEF TypeOK
  <2>3. ASSUME NEW p \in DeliveryPc, Advance(d, p),
               p \in {"failing", "none"} \/ deliv[d].pc \notin {"none", "failing"},
               p # "finishing"
        PROVE  \A e \in Job \X Slot : Own(e)'
    <3>1. ASSUME NEW e \in Job \X Slot
          PROVE  Own(e)'
      <4>1. CASE e = d
        BY <1>0, <2>2, <2>3, <4>1 DEF Advance, Delivery
      <4>2. CASE e # d
        BY <1>0, <2>2, <2>3, <4>2 DEF Advance
      <4> QED
        BY <4>1, <4>2
    <3> QED
      BY <3>1
  <2>c. {"canceling", "started", "failing", "borg"} \subseteq DeliveryPc
    BY DEF DeliveryPc
  <2>4. CASE PickUp(d)
    BY <2>1, <2>3, <2>4, <2>c, <1>0 DEF PickUp, OwnMessage
  <2>5. CASE StopCanceled(d)
    BY <2>1, <2>3, <2>5, <2>c, <1>0 DEF StopCanceled, OwnMessage
  <2>6. CASE BuildArgs(d)
    BY <2>1, <2>3, <2>6, <2>c, <1>0 DEF BuildArgs, OwnMessage
  <2>7. CASE RunBorg(d)
    <3>1. PICK r \in RunOutcome[TypeOf[d[1]]] :
            deliv' = [deliv EXCEPT ![d].pc = "finishing",
                          ![d].result = IF row[d[1]].cancel THEN "canceled" ELSE r]
      BY <2>7 DEF RunBorg
    <3>2. r \in Finished
      BY <3>1, JobAssumption, TaskManagerAssumption DEF Finished
    <3>3. deliv[d].pc = "borg"
      BY <2>7 DEF RunBorg
    <3>4. ASSUME NEW e \in Job \X Slot
          PROVE  Own(e)'
      <4>1. CASE e = d
        <5>1. /\ deliv'[e].fail = deliv[e].fail
              /\ deliv'[e].result \in {"canceled", r}
          BY <2>2, <3>1, <4>1 DEF Delivery
        <5> QED
          BY <1>0, <3>2, <3>3, <4>1, <5>1 DEF Finished
      <4>2. CASE e # d
        BY <1>0, <2>2, <3>1, <4>2
      <4> QED
        BY <4>1, <4>2
    <3> QED
      BY <1>0, <2>1, <3>4 DEF OwnMessage
  <2>8. CASE SaveResult(d)
    <3>1. CASE Advance(d, "failing")
      BY <2>1, <2>3, <2>c, <3>1, <1>0 DEF OwnMessage
    <3>2. CASE deliv' = [deliv EXCEPT ![d] = NoDelivery]
      BY <1>0, <2>1, <2>2, <3>2 DEF OwnMessage, NoDelivery
    <3> QED
      BY <2>8, <3>1, <3>2 DEF SaveResult
  <2>9. CASE HandleWorkError(d)
    <3>1. PICK k \in deliv[d].fail :
            deliv' = [deliv EXCEPT ![d] =
                          IF deliv[d].fail = {k} THEN NoDelivery
                          ELSE [deliv[d] EXCEPT !.fail = deliv[d].fail \ {k}]]
      BY <2>9 DEF HandleWorkError
    <3>2. deliv'[d].pc \in {"none", "failing"}
      BY <2>2, <2>9, <3>1 DEF HandleWorkError, NoDelivery, Delivery
    <3>3. \A e \in Job \X Slot : e # d => deliv'[e] = deliv[e]
      BY <2>2, <3>1
    <3> QED
      BY <1>0, <2>1, <3>2, <3>3 DEF OwnMessage
  <2>10. CASE ReportReady(d)
    BY <1>0, <1>d, <2>1, <2>10 DEF ReportReady, OwnMessage
  <2>11. CASE WorkerCrash(d)
    BY <1>0, <2>1, <2>2, <2>11 DEF WorkerCrash, OwnMessage, NoDelivery
  <2>12. CASE Redeliver(d)
    <3>1. PICK n \in FreeSlots(d[1]) : deliv' = [deliv EXCEPT ![<<d[1], n>>] = deliv[d]]
      BY <2>12 DEF Redeliver
    <3>2. ASSUME NEW e \in Job \X Slot
          PROVE  Own(e)'
      <4>1. CASE e = <<d[1], n>>
        <5>1. deliv'[e] = deliv[d] /\ e[1] = d[1]
          BY <2>2, <3>1, <4>1
        <5> QED
          BY <1>0, <5>1
      <4>2. CASE e # <<d[1], n>>
        BY <1>0, <2>2, <3>1, <4>2
      <4> QED
        BY <4>1, <4>2
    <3> QED
      BY <1>0, <2>1, <3>2 DEF OwnMessage
  <2> QED
    BY <1>2, <2>4, <2>5, <2>6, <2>7, <2>8, <2>9, <2>10, <2>11, <2>12 DEF WorkerStep
<1>3. ASSUME UserStep
      PROVE  UNCHANGED <<sends, deliv>>
  BY <1>3 DEF UserStep, JobCancel, JobStart, CleanOrphanJob, ReadJob, Cancel,
     SignalStart, SaveOrphan, MarkAsToUpdate, pass
<1>4. ASSUME UNCHANGED <<sends, deliv>>
      PROVE  OwnMessage'
  BY <1>0, <1>4 DEF OwnMessage
<1> QED
  BY <1>1, <1>2, <1>3, <1>4 DEF Next, vars, pass
\* The steps of passes.
LEMMA HeldByPass ==
    ASSUME Attended, TypeOK, PassShape, Saved, BusyIsHeld,
           NEW s \in Scheduler, PassStep(s) \/ SchedulerCrash(s)
    PROVE  BusyIsHeld'
<1>o. \A t \in Scheduler \ {s} : pc'[t] = pc[t] /\ Marked(t)' = Marked(t)
  BY OtherPasses
<1>1. CASE Commit(s)
  <2>1. /\ pc[s] = "commit" /\ row' = View(s) /\ UNCHANGED <<sends, deliv>>
        /\ pc'[s] = IF sends[s] = {} THEN "idle" ELSE "send"
    BY <1>1 DEF Commit, TypeOK
  <2>2. ASSUME NEW j \in dirty[s], Busy(row'[j])
        PROVE  Held(j)'
    <3>1. row'[j] = obj[s][j]
      BY <2>1 DEF View, TypeOK
    <3>2. j \in Marked(s)
      BY <2>2, <3>1 DEF Busy, Saved
    <3>3. sends[s] # {} /\ j \in Marked(s)'
      BY <2>1, <3>2 DEF Marked
    <3> QED
      BY <2>1, <3>3 DEF Held
  <2>3. ASSUME NEW j \in Job \ dirty[s], Busy(row'[j])
        PROVE  Held(j)'
    <3>1. row'[j] = row[j]
      BY <2>1 DEF View
    <3>2. CASE \E t \in Scheduler : pc[t] = "send" /\ j \in Marked(t)
      BY <1>o, <2>1, <3>2 DEF Held
    <3>3. CASE \E n \in Slot : Holds(<<j, n>>)
      BY <2>1, <3>1, <3>3 DEF Held, Holds
    <3> QED
      BY <2>3, <3>1, <3>2, <3>3 DEF BusyIsHeld, Held
  <2> QED
    BY <2>2, <2>3 DEF BusyIsHeld
<1>2. CASE SendTask(s)
  <2>1. PICK m \in sends[s] :
          /\ \E n \in FreeSlots(m.job) :
                deliv' = [deliv EXCEPT ![<<m.job, n>>] =
                             [pc |-> "queued", fail |-> m.fail, result |-> "absent"]]
          /\ sends' = [sends EXCEPT ![s] = @ \ {m}]
          /\ pc' = [pc EXCEPT ![s] = IF sends[s] = {m} THEN "idle" ELSE "send"]
    BY <1>2 DEF SendTask
  <2>2. PICK n \in FreeSlots(m.job) :
          deliv' = [deliv EXCEPT ![<<m.job, n>>] =
                             [pc |-> "queued", fail |-> m.fail, result |-> "absent"]]
    BY <2>1
  <2>3. m.job \in Job /\ n \in Slot /\ UNCHANGED row
    BY <1>2, SentJobs DEF FreeSlots, SendTask
  <2>4. Holds(<<m.job, n>>)'
    <3>1. deliv'[<<m.job, n>>].pc = "queued"
      BY <2>2, <2>3 DEF TypeOK
    <3> QED
      BY <3>1 DEF Holds
  <2>5. ASSUME NEW j \in Job, Busy(row[j])
        PROVE  Held(j)'
    <3>1. CASE j = m.job
      BY <2>3, <2>4, <3>1 DEF Held
    <3>2. CASE j # m.job
      <4>1. CASE \E i \in Slot : Holds(<<j, i>>)
        <5>1. PICK i \in Slot : Holds(<<j, i>>)
          BY <4>1
        <5>2. <<j, i>> # <<m.job, n>>
          BY <3>2
        <5>3. deliv'[<<j, i>>] = deliv[<<j, i>>]
          BY <2>2, <5>2 DEF TypeOK
        <5>4. Holds(<<j, i>>)'
          BY <2>3, <5>1, <5>3 DEF Holds
        <5> QED
          BY <5>4 DEF Held
      <4>2. CASE \E t \in Scheduler : pc[t] = "send" /\ j \in Marked(t)
        <5>1. PICK t \in Scheduler : pc[t] = "send" /\ j \in Marked(t)
          BY <4>2
        <5>2. CASE t # s
          BY <1>o, <5>1, <5>2 DEF Held
        <5>3. CASE t = s
          <6>1. PICK o \in sends[s] : o.job = j
            BY <5>1, <5>3 DEF Marked
          <6>2. o # m /\ o \in sends'[s] /\ pc'[s] = "send"
            BY <2>1, <3>2, <6>1 DEF TypeOK
          <6> QED
            BY <6>1, <6>2 DEF Held, Marked
        <5> QED
          BY <5>2, <5>3
      <4> QED
        BY <2>5, <4>1, <4>2 DEF BusyIsHeld, Held
    <3> QED
      BY <3>1, <3>2
  <2> QED
    BY <2>3, <2>5 DEF BusyIsHeld
<1>3. CASE ~Commit(s) /\ ~SendTask(s)
  <2>1. pc[s] # "send" /\ UNCHANGED <<row, deliv>>
    BY <1>3 DEF Attended, PassStep, SchedulerCrash, BeginPass, ProcessWaiting,
       ProcessPending, GenerateDependencies, ProcessDependency, ProcessTask,
       ReleaseLock, Others
  <2>2. ASSUME NEW j \in Job, Held(j)
        PROVE  Held(j)'
    BY <1>o, <2>1, <2>2 DEF Held, Holds
  <2> QED
    BY <2>1, <2>2 DEF BusyIsHeld
<1> QED
  BY <1>1, <1>2, <1>3

\* A message of another job holds it as long as nobody touches it.
LEMMA HeldByOthers ==
    ASSUME TypeOK, NEW j \in Job, NEW d \in Job \X Slot, Held(j), UNCHANGED pass,
           row'[j].cancel = row[j].cancel,
           \A e \in (Job \X Slot) \ {d} : Holds(e) => deliv'[e] = deliv[e],
           d[1] = j /\ Holds(d) => Holds(d)'
    PROVE  Held(j)'
<1>1. CASE \E s \in Scheduler : pc[s] = "send" /\ j \in Marked(s)
  BY <1>1 DEF Held, Marked, pass
<1>2. ASSUME NEW n \in Slot, Holds(<<j, n>>)
      PROVE  Holds(<<j, n>>)'
  <2>1. CASE <<j, n>> = d
    BY <1>2, <2>1
  <2>2. CASE <<j, n>> # d
    <3>1. deliv'[<<j, n>>] = deliv[<<j, n>>]
      BY <1>2, <2>2
    <3> QED
      BY <1>2, <3>1 DEF Holds
  <2> QED
    BY <2>1, <2>2
<1> QED
  BY <1>1, <1>2 DEF Held

LEMMA HeldByWorker ==
    ASSUME Attended, TypeOK, OwnMessage, BusyIsHeld, NEW d \in Job \X Slot,
           WorkerStep(d) \/ ReportReady(d) \/ WorkerCrash(d) \/ Redeliver(d)
    PROVE  BusyIsHeld'
<1> SUFFICES ASSUME NEW j \in Job, Busy(row'[j])
             PROVE  Held(j)'
  BY DEF BusyIsHeld
<1>0. UNCHANGED pass /\ d[1] \in Job
  BY PassesUnchanged
<1>d. deliv[d] \in Delivery /\ deliv \in [Job \X Slot -> Delivery]
  BY DEF TypeOK
<1>k. row[j] \in Row /\ row \in [Job -> Row]
  BY DEF TypeOK
<1>h. ASSUME row'[j] = row[j], \A e \in (Job \X Slot) \ {d} : deliv'[e] = deliv[e],
             d[1] = j /\ Holds(d) => Holds(d)'
      PROVE  Held(j)'
  BY <1>0, <1>h, HeldByOthers DEF BusyIsHeld
<1>a. ASSUME NEW p, Advance(d, p)
      PROVE  /\ \A e \in (Job \X Slot) \ {d} : deliv'[e] = deliv[e]
             /\ deliv'[d].pc = p /\ deliv'[d].fail = deliv[d].fail
  BY <1>a, <1>d DEF Advance, Delivery
<1>s. ASSUME NEW k \in Job, NEW st, SetStatus(k, st)
      PROVE  /\ j # k => row'[j] = row[j]
             /\ j = k => row'[j].status = st /\ row'[j].cancel = row[j].cancel
  BY <1>k, <1>s DEF SetStatus, Row
<1>1. CASE PickUp(d)
  <2>1. CASE d[1] = j
    <3>1. deliv'[d].pc = IF row[j].cancel THEN "canceling" ELSE "started"
      BY <1>1, <1>a, <2>1 DEF PickUp
    <3>2. row'[j].cancel = row[j].cancel
      BY <1>1, <1>s, <2>1 DEF PickUp
    <3>3. Holds(d)'
      BY <2>1, <3>1, <3>2 DEF Holds
    <3>4. PICK n \in Slot : d = <<j, n>>
      BY <2>1
    <3> QED
      BY <3>3, <3>4 DEF Held
  <2>2. CASE d[1] # j
    BY <1>0, <1>1, <1>a, <1>h, <1>s, <2>2 DEF PickUp
  <2> QED
    BY <2>1, <2>2
<1>2. CASE StopCanceled(d)
  <2>1. d[1] # j
    BY <1>0, <1>2, <1>s DEF StopCanceled, Busy
  <2> QED
    BY <1>0, <1>2, <1>a, <1>h, <1>s, <2>1 DEF StopCanceled
<1>3. CASE BuildArgs(d)
  <2>1. UNCHANGED row /\ deliv[d].pc = "started"
    BY <1>3 DEF BuildArgs
  <2>2. CASE Advance(d, "borg")
    <3>1. Holds(d)'
      BY <1>a, <2>2 DEF Holds
    <3> QED
      BY <1>a, <1>h, <2>1, <2>2, <3>1
  <2>3. CASE BuildMayRaise(d[1]) /\ Advance(d, "failing")
    <3>1. Holds(d) => Holds(d)'
      BY <1>a, <2>1, <2>3 DEF Holds, OwnMessage
    <3> QED
      BY <1>a, <1>h, <2>1, <2>3, <3>1
  <2> QED
    BY <1>3, <2>2, <2>3 DEF BuildArgs, BuildMayRaise
<1>4. CASE RunBorg(d)
  <2>1. PICK r : deliv' = [deliv EXCEPT ![d].pc = "finishing",
                              ![d].result = IF row[d[1]].cancel THEN "canceled" ELSE r]
    BY <1>4 DEF RunBorg
  <2>2. /\ deliv'[d].pc = "finishing"
        /\ \A e \in (Job \X Slot) \ {d} : deliv'[e] = deliv[e]
    BY <1>d, <2>1 DEF Delivery
  <2>3. Holds(d)'
    BY <2>2 DEF Holds
  <2>4. UNCHANGED row
    BY <1>4 DEF RunBorg
  <2> QED
    BY <1>h, <2>2, <2>3, <2>4
<1>5. CASE SaveResult(d)
  <2>1. deliv[d].result \in Finished
    BY <1>5 DEF SaveResult, OwnMessage
  <2>2. d[1] # j
    BY <1>0, <1>5, <1>s, <2>1 DEF SaveResult, Busy, Finished
  <2>3. \A e \in (Job \X Slot) \ {d} : deliv'[e] = deliv[e]
    BY <1>5, <1>a, <1>d DEF SaveResult
  <2> QED
    BY <1>0, <1>5, <1>h, <1>s, <2>2, <2>3 DEF SaveResult
<1>6. CASE HandleWorkError(d)
  <2>1. PICK k \in deliv[d].fail :
          /\ d[1] \in deliv[d].fail => k = d[1]
          /\ IF Fails(d, k) THEN SetStatus(k, "failed") ELSE UNCHANGED row
          /\ deliv' = [deliv EXCEPT ![d] =
                          IF deliv[d].fail = {k} THEN NoDelivery
                          ELSE [deliv[d] EXCEPT !.fail = deliv[d].fail \ {k}]]
    BY <1>6 DEF HandleWorkError
  <2>2. k \in Job
    BY <1>d, <2>1 DEF Delivery
  <2>3. row'[j] = row[j] /\ (j = k => ~Fails(d, k))
    BY <1>s, <2>1, <2>2 DEF Busy
  <2>4. \A e \in (Job \X Slot) \ {d} : deliv'[e] = deliv[e]
    BY <1>d, <2>1
  <2>5. ~(d[1] = j /\ Holds(d))
    BY <1>6, <2>1, <2>3 DEF HandleWorkError, Holds, Fails
  <2> QED
    BY <1>h, <2>3, <2>4, <2>5
<1>7. CASE ReportReady(d)
  BY <1>7, <1>h DEF ReportReady, Holds
<1>8. CASE WorkerCrash(d)
  BY <1>8 DEF WorkerCrash, Attended
<1>9. CASE Redeliver(d)
  <2>1. PICK n \in FreeSlots(d[1]) : deliv' = [deliv EXCEPT ![<<d[1], n>>] = deliv[d]]
    BY <1>9 DEF Redeliver
  <2>2. deliv[<<d[1], n>>].pc = "none" /\ UNCHANGED row
    BY <1>9 DEF FreeSlots, Redeliver
  <2>3. ~Holds(<<d[1], n>>)
    BY <2>2 DEF Holds
  <2>4. \A e \in Job \X Slot : Holds(e) => deliv'[e] = deliv[e]
    BY <1>d, <2>1, <2>3
  <2>5. Holds(d) => Holds(d)'
    BY <2>2, <2>4 DEF Holds
  <2> QED
    BY <1>0, <2>2, <2>4, <2>5, HeldByOthers DEF BusyIsHeld
<1> QED
  BY <1>1, <1>2, <1>3, <1>4, <1>5, <1>6, <1>7, <1>8, <1>9 DEF WorkerStep

LEMMA HeldByNone ==
    ASSUME NEW j \in Job, Held(j), UNCHANGED <<pass, deliv>>,
           row'[j].cancel = row[j].cancel \/ ~BuildMayRaise(j)
    PROVE  Held(j)'
<1>1. CASE \E s \in Scheduler : pc[s] = "send" /\ j \in Marked(s)
  BY <1>1 DEF Held, Marked, pass
<1>2. ASSUME NEW n \in Slot, Holds(<<j, n>>)
      PROVE  Holds(<<j, n>>)'
  <2>1. <<j, n>>[1] = j
    OBVIOUS
  <2> QED
    BY <1>2, <2>1 DEF Holds
<1> QED
  BY <1>1, <1>2 DEF Held

LEMMA HeldByUser ==
    ASSUME Attended, TypeOK, Seen, BusyIsHeld, UserStep
    PROVE  BusyIsHeld'
<1>0. UNCHANGED <<pass, deliv>>
  BY PassesUnchanged DEF UserStep, JobCancel, JobStart, CleanOrphanJob, ReadJob,
     Cancel, SignalStart, SaveOrphan, MarkAsToUpdate
<1>1. ASSUME UNCHANGED row
      PROVE  BusyIsHeld'
  BY <1>0, <1>1, HeldByNone DEF BusyIsHeld
<1>2. ASSUME NEW j \in Job, row' = [row EXCEPT ![api.job] = row'[api.job]],
             j # api.job, Busy(row'[j])
      PROVE  Held(j)'
  <2>1. row'[j] = row[j]
    BY <1>2 DEF TypeOK
  <2> QED
    BY <1>0, <1>2, <2>1, HeldByNone DEF BusyIsHeld
<1>3. CASE Cancel /\ row' # row
  <2>1. /\ row' = [row EXCEPT ![api.job] = CancelFields(@, api.seen)]
        /\ <<api.job, api.seen.status>> \in CancelFrom
    BY <1>3 DEF Cancel, Seen
  <2>2. PICK j \in Job : j = api.job
    BY <2>1, TaskManagerAssumption
  <2>3. api.seen.status \in ActiveStates
    BY <2>1, TaskManagerAssumption
  <2>4. row'[j] = CancelFields(row[j], api.seen) /\ row[j] \in Row
    BY <2>1, <2>2 DEF TypeOK
  <2>5. ASSUME Busy(row'[j])
        PROVE  Held(j)'
    <3>1. row'[j].status = row[j].status /\ api.seen.status = "running"
      BY <2>3, <2>4, <2>5 DEF CancelFields, Row, Busy, ActiveStates
    <3>2. ~BuildMayRaise(j)
      BY <2>1, <2>2, <3>1 DEF Attended
    <3>3. Held(j)
      BY <2>5, <3>1 DEF BusyIsHeld, Busy
    <3> QED
      BY <1>0, <3>2, <3>3, HeldByNone
  <2>6. row' = [row EXCEPT ![api.job] = row'[api.job]]
    BY <2>1, <2>2 DEF TypeOK
  <2> QED
    BY <1>2, <2>2, <2>5, <2>6 DEF BusyIsHeld
<1>4. CASE SignalStart \/ SaveOrphan
  <2>1. PICK st \in {"pending", "error"} :
          \/ row' = [row EXCEPT ![api.job].status = st]
          \/ row' = [row EXCEPT ![api.job] = [api.seen EXCEPT !.status = st]]
    BY <1>4 DEF SignalStart, SaveOrphan, SetStatus
  <2>2. \A k \in Job : row[k] \in Row
    BY DEF TypeOK
  <2>3. api.seen \in Row
    BY DEF TypeOK, Request
  <2>4. api.job \in Job => ~Busy(row'[api.job])
    BY <2>1, <2>2, <2>3 DEF TypeOK, Row, Busy
  <2>5. \A k \in Job : k # api.job => row'[k] = row[k]
    BY <2>1 DEF TypeOK
  <2>6. ASSUME NEW k \in Job, Busy(row'[k])
        PROVE  Held(k)'
    <3>1. row'[k] = row[k]
      BY <2>4, <2>5, <2>6
    <3> QED
      BY <1>0, <2>6, <3>1, HeldByNone DEF BusyIsHeld
  <2> QED
    BY <2>6 DEF BusyIsHeld
<1>5. CASE UNCHANGED row
  BY <1>1, <1>5
<1> QED
  BY <1>3, <1>4, <1>5 DEF UserStep, JobCancel, JobStart, CleanOrphanJob, ReadJob,
     MarkAsToUpdate

\* Under Attended a started or running job always has a message or a scheduler
\* about to send one: nothing holds its repository and client for ever.
THEOREM NoneIsLeftBusy ==
    ASSUME Attended
    PROVE  Spec => []BusyIsHandled
<1>1. Init => BusyIsHeld /\ OwnMessage
  <2> SUFFICES ASSUME Init PROVE BusyIsHeld /\ OwnMessage
    OBVIOUS
  <2>1. PICK o \in Origins : row = o.row
    BY DEF Init
  <2>2. BusyIsHeld
    BY <2>1 DEF Attended, BusyIsHeld
  <2>3. OwnMessage
    BY DEF Init, OwnMessage, NoDelivery
  <2> QED
    BY <2>2, <2>3
<1>2. TypeOK /\ PassShape /\ Saved /\ Seen /\ OwnMessage /\ BusyIsHeld /\ [Next]_vars
        => OwnMessage' /\ BusyIsHeld'
  <2> SUFFICES ASSUME TypeOK, PassShape, Saved, Seen, OwnMessage, BusyIsHeld,
                      [Next]_vars
               PROVE  BusyIsHeld'
    BY OwnMessageStep
  <2>1. CASE UNCHANGED vars
    <3>1. UNCHANGED <<pass, deliv>> /\ row' = row
      BY <2>1 DEF vars, pass
    <3>2. ASSUME NEW j \in Job, Busy(row[j])
          PROVE  Held(j)'
      BY <3>1, <3>2, HeldByNone DEF BusyIsHeld
    <3> QED
      BY <3>1, <3>2 DEF BusyIsHeld
  <2>2. ASSUME NEW s \in Scheduler, PassStep(s) \/ SchedulerCrash(s)
        PROVE  BusyIsHeld'
    BY <2>2, HeldByPass
  <2>3. ASSUME NEW d \in Job \X Slot,
               WorkerStep(d) \/ ReportReady(d) \/ WorkerCrash(d) \/ Redeliver(d)
        PROVE  BusyIsHeld'
    BY <2>3, HeldByWorker
  <2>4. CASE UserStep
    BY <2>4, HeldByUser
  <2>5. CASE Next
    BY <2>2, <2>3, <2>4, <2>5 DEF Next
  <2> QED
    BY <2>1, <2>5
<1>3. BusyIsHeld => BusyIsHandled
  BY DEF BusyIsHeld, Held, Holds, Marked, BusyIsHandled
<1> QED
  BY <1>1, <1>2, <1>3, CopiesInvariant, PTL DEF Spec
-----------------------------------------------------------------------------
(***************************************************************************)
(* That two workers never run conflicting jobs, for every job table and    *)
(* every number of workers and preparations, when passes do not overlap    *)
(* and preparations succeed; and that TaskManager then implements          *)
(* ExclusiveRuns: its runs begin and end one at a time, and a job that is  *)
(* over is not run again unless it is a preparation.  The README says what *)
(* goes wrong without each hypothesis of Calm; the last two describe rows  *)
(* as create_job saves them.                                               *)
(***************************************************************************)
Calm ==
    /\ \E s \in Scheduler : Scheduler = {s}
    /\ CancelFrom \subseteq {j \in Job : TypeOf[j] # "check"} \X {"running"}
    /\ StartFrom = {}
    /\ Commands = {}
    /\ "broker" \notin Faults
    /\ "raise" \notin BuildOutcome["check"]
    /\ RunOutcome["check"] \subseteq {"successful"}
    /\ \A j \in Job : RepoOf[j] # None => PolicyRepo[j] = RepoOf[j]
    /\ \A o \in Origins : \A j \in Job :
          ~Busy(o.row[j]) /\ (TypeOf[j] = "check" => ~o.row[j].cancel)

\* The statuses a pass may start a job from.
Startable == {"absent", "pending", "waiting", "successful"}
Alive(d) == deliv[d].pc # "none"

\* What the row of a job is while a worker has it, and how it may end.
Recorded(d) ==
    /\ deliv[d].pc = "queued" => row[d[1]].status = "starting"
    /\ deliv[d].pc \in {"started", "canceling", "borg", "finishing"}
          => row[d[1]].status = "running"
    /\ deliv[d].pc = "failing"
          => row[d[1]].status \in {"running", "failed", "error", "canceled"}
    /\ deliv[d].pc = "finishing"
          => deliv[d].result \in {"successful", "failed", "error", "canceled"}
Checked(d) ==
    IF TypeOf[d[1]] = "check"
    THEN /\ deliv[d].pc \notin {"canceling", "failing"}
         /\ deliv[d].pc = "finishing" => deliv[d].result = "successful"
    ELSE deliv[d].fail \subseteq {d[1]}
Messages ==
    /\ \A d \in Job \X Slot : Alive(d) => Recorded(d) /\ Checked(d)
    /\ \A d, e \in Job \X Slot : Alive(d) /\ Alive(e) /\ d[1] = e[1] => d = e

\* No preparation is canceled.
Uncanceled ==
    /\ \A j \in Job : TypeOf[j] = "check" =>
          /\ ~row[j].cancel
          /\ \A s \in Scheduler : ~obj[s][j].cancel
    /\ api.op \in {"none", "cancel"}
    /\ api.op = "cancel" =>
          TypeOf[api.job] # "check" /\ api.seen.status = "running"

\* The copies of a pass: what it has saved can be started, the rest is fresh.
Current ==
    \A s \in Scheduler : \A j \in Job :
        /\ j \in dirty[s] => /\ row[j].status \in Startable
                             /\ obj[s][j].status \in {"pending", "starting"}
        /\ pc[s] \in Inside /\ j \notin dirty[s]
           /\ obj[s][j].status \in {"pending", "waiting"}
              => row[j].status = obj[s][j].status
        /\ pc[s] = "waiting" /\ j \in todo[s]
              => j \notin dirty[s] /\ obj[s][j].status = "waiting"
        /\ pc[s] \in {"pending", "deps"} /\ j \in todo[s]
              => obj[s][j].status = "pending" \/ j \in Marked(s)
        /\ pc[s] = "deps" /\ j \in left[s]
              => /\ TypeOf[j] = "check"
                 /\ row[j].status \in Startable \cup {"running"}

\* The messages of a pass are those of the jobs it started.
Sent ==
    \A s \in Scheduler :
        /\ pc[s] = "idle" => sends[s] = {}
        /\ \A m \in sends[s] :
              /\ pc[s] = "send" => /\ row[m.job].status = "starting"
                                   /\ \A n \in Slot : ~Alive(<<m.job, n>>)
              /\ pc[s] # "send" => /\ m.job \in dirty[s]
                                   /\ obj[s][m.job].status = "starting"
              /\ TypeOf[m.job] # "check" => m.fail \subseteq {m.job}
              /\ \A o \in sends[s] : o.job = m.job => o = m

\* No two conflicting jobs hold their repository or client, as a pass sees it.
Exclusive ==
    \A s \in Scheduler : \A j, k \in Job :
        j # k /\ Conflict(j, k) => ~(Busy(View(s)[j]) /\ Busy(View(s)[k]))

CalmInv == Messages /\ Uncanceled /\ Current /\ Sent /\ Exclusive

-----------------------------------------------------------------------------
(* One lemma for the passes that end without a commit, and one for each    *)
(* action of a pass.                                                       *)

Known == Calm /\ TypeOK /\ PassShape /\ CalmInv

LEMMA OneScheduler ==
    ASSUME Calm, NEW s \in Scheduler
    PROVE  Scheduler = {s}
  BY DEF Calm

\* A dependency is a row that is free to be added for the job, or queued or running
\* when it is chosen.
LEMMA ChosenDependencies ==
    ASSUME TypeOK, NEW s \in Scheduler, NEW j \in Job,
           NEW D \in DependencyChoices(s, j), NEW k \in D
    PROVE  \/ k \in FreeRepositoryPreps(View(s), j) \cup FreeClientPreps(View(s), j)
           \/ View(s)[k].status \in Queued
<1> DEFINE Free == FreeRepositoryPreps(View(s), j) \cup FreeClientPreps(View(s), j)
           Good == {x \in Job : x \in Free \/ View(s)[x].status \in Queued}
<1>1. /\ FreeRepositoryPreps(View(s), j) \in SUBSET Good
      /\ FreeClientPreps(View(s), j) \in SUBSET Good
  BY JobAssumption DEF FreeRepositoryPreps, FreeClientPreps, FreePreps
<1>2. ASSUME NEW L \in SUBSET Job, NEW F \in SUBSET Good, NEW b,
             NEW E \in Prepare(View(s), L, b, F)
      PROVE  E \in SUBSET Good
  <2>1. CASE L = {}
    BY <1>2, <2>1 DEF Prepare
  <2>2. CASE L # {}
    <3>1. PICK x \in L : E \in IF View(s)[x].status \in Queued THEN {{x}}
                              ELSE IF b THEN {{}} ELSE {{p} : p \in F}
      BY <1>2, <2>2 DEF Prepare
    <3> QED
      BY <1>2, <3>1
  <2> QED
    BY <2>1, <2>2
<1>3. /\ LatestRepositoryCreation(View(s), j) \in SUBSET Job
      /\ LatestClientPreparation(View(s), j) \in SUBSET Job
      /\ LatestHypervisorPreparation(View(s), j) \in SUBSET Job
  BY DEF LatestRepositoryCreation, LatestClientPreparation,
         LatestHypervisorPreparation, Latest, Checks
<1>4. RepositoryDependencies(View(s), j) \in SUBSET (SUBSET Good)
  BY <1>1, <1>2, <1>3 DEF RepositoryDependencies
<1>5. ClientDependencies(s, View(s), j) \in SUBSET (SUBSET Good)
  <2>1. \A p \in FreeClientPreps(View(s), j) : {p} \in SUBSET Good
    BY <1>1
  <2>2. Prepare(View(s), LatestClientPreparation(View(s), j),
                ClientOf[j] \in ready, FreeClientPreps(View(s), j))
          \in SUBSET (SUBSET Good)
    BY <1>1, <1>2, <1>3
  <2>3. HypervisorDependencies(View(s), j) \in SUBSET (SUBSET Good)
    <3>1. FreeHypervisorPreps(View(s), j) \in SUBSET Good
      BY <1>1 DEF FreeHypervisorPreps
    <3> QED
      BY <1>1, <1>2, <1>3, <3>1, ZenonT(20) DEF HypervisorDependencies
  <2>4. CASE ClientOf[j] = None
    BY <2>4 DEF ClientDependencies
  <2>5. CASE ClientOf[j] # None /\ HypervisorOf[j] # None
    BY <2>3, <2>5 DEF ClientDependencies
  <2>6. CASE ClientOf[j] # None /\ HypervisorOf[j] = None
    BY <2>1, <2>2, <2>6 DEF ClientDependencies
  <2> QED
    BY <2>4, <2>5, <2>6
<1>6. D \in SUBSET Good
  BY <1>4, <1>5 DEF DependencyChoices
<1> QED
  BY <1>6

LEMMA DependenciesAreQueued ==
    ASSUME TypeOK, NEW s \in Scheduler, NEW j \in Job,
           NEW D \in DependencyChoices(s, j), NEW k \in D
    PROVE  View(s)[k].status \in Queued \cup {"absent"}
  BY ChosenDependencies DEF FreeRepositoryPreps, FreeClientPreps, FreePreps

LEMMA RollbackCalm ==
    ASSUME Known, NEW s \in Scheduler, Rollback(s), UNCHANGED Others
    PROVE  CalmInv'
<1> USE DEF Known, Others
<1>0. Scheduler = {s}
  BY OneScheduler
<1>1. /\ pc'[s] = "idle" /\ dirty'[s] = {} /\ sends'[s] = {}
      /\ obj'[s] = [j \in Job |-> NoRow]
  BY DEF Rollback, TypeOK
<1>2. Messages'
  BY DEF CalmInv, Messages, Alive, Recorded, Checked
<1>3. Uncanceled'
  BY <1>0, <1>1 DEF CalmInv, Uncanceled, NoRow
<1>4. Current'
  BY <1>0, <1>1 DEF Current, Inside
<1>5. Sent'
  BY <1>0, <1>1 DEF Sent
<1>6. Exclusive'
  <2> SUFFICES ASSUME NEW j \in Job, NEW k \in Job, j # k, Conflict(j, k),
                      Busy(row[j]), Busy(row[k])
               PROVE  FALSE
    BY <1>0, <1>1 DEF Exclusive, View, Conflict
  <2>1. j \notin dirty[s] /\ k \notin dirty[s]
    BY DEF CalmInv, Current, Startable, Busy
  <2>2. View(s)[j] = row[j] /\ View(s)[k] = row[k]
    BY <2>1 DEF View
  <2> QED
    BY <2>2 DEF CalmInv, Exclusive
<1> QED
  BY <1>2, <1>3, <1>4, <1>5, <1>6 DEF CalmInv

LEMMA BeginPassCalm ==
    ASSUME Known, NEW s \in Scheduler, BeginPass(s)
    PROVE  CalmInv'
<1> USE DEF Known, Others
<1>0. Scheduler = {s}
  BY OneScheduler
<1>1. /\ pc[s] = "idle" /\ pc'[s] = "waiting" /\ dirty'[s] = dirty[s]
      /\ dirty[s] = {} /\ sends'[s] = sends[s] /\ sends[s] = {}
      /\ UNCHANGED <<row, deliv, api>>
      /\ obj'[s] = [j \in Job |-> IF row[j].status \in {"pending", "waiting"}
                                 THEN row[j] ELSE NoRow]
      /\ todo'[s] = {j \in Job : row[j].status = "waiting"}
  BY DEF BeginPass, TypeOK, PassShape, Inside, CalmInv, Sent
<1>2. Messages'
  BY <1>1 DEF CalmInv, Messages, Alive, Recorded, Checked
<1>3. Uncanceled'
  BY <1>0, <1>1 DEF CalmInv, Uncanceled, NoRow
<1>4. Current'
  BY <1>0, <1>1 DEF Current, Inside, NoRow
<1>5. Sent'
  BY <1>0, <1>1 DEF Sent
<1>6. Exclusive'
  BY <1>0, <1>1 DEF Exclusive, View, CalmInv, Conflict
<1> QED
  BY <1>2, <1>3, <1>4, <1>5, <1>6 DEF CalmInv

LEMMA ProcessWaitingCalm ==
    ASSUME Known, NEW s \in Scheduler, ProcessWaiting(s)
    PROVE  CalmInv'
<1> USE DEF Known, Others
<1> DEFINE j == First(todo[s])
           r == [obj[s][j] EXCEPT !.status = "pending"]
<1>0. Scheduler = {s}
  BY OneScheduler
<1>1. CASE Rollback(s)
  BY <1>1, RollbackCalm DEF ProcessWaiting
<1>2. CASE ~Rollback(s)
  <2>1. j \in todo[s] /\ j \in Job
    BY FirstTodo DEF ProcessWaiting
  <2>2. /\ pc[s] = "waiting" /\ pc' = pc /\ sends' = sends
        /\ todo'[s] = todo[s] \ {j}
        /\ UNCHANGED <<row, deliv, api>>
        /\ \/ UNCHANGED <<obj, dirty>>
           \/ /\ obj'[s] = [obj[s] EXCEPT ![j] = r]
              /\ dirty'[s] = dirty[s] \cup {j}
    BY <1>2 DEF ProcessWaiting, Save, TypeOK
  <2>3. j \notin dirty[s] /\ obj[s][j].status = "waiting" /\ row[j].status = "waiting"
    BY <2>1, <2>2 DEF CalmInv, Current, Inside
  <2>4. r.status = "pending" /\ r.cancel = obj[s][j].cancel
    BY <2>1 DEF TypeOK, Row
  <2>5. Messages'
    BY <2>2 DEF CalmInv, Messages, Alive, Recorded, Checked
  <2>6. \A k \in Job : obj'[s][k] = IF k = j /\ j \in dirty'[s] THEN r ELSE obj[s][k]
    BY <2>1, <2>2, <2>3 DEF TypeOK
  <2>7. Uncanceled'
    <3>1. \A k \in Job : obj'[s][k].cancel = obj[s][k].cancel
      BY <2>4, <2>6
    <3> QED
      BY <1>0, <2>2, <3>1 DEF CalmInv, Uncanceled
  <2>8. Current'
    <3>1. Marked(s)' = Marked(s)
      BY <2>2 DEF Marked
    <3>2. \A k \in Job :
            /\ k \in dirty'[s] => /\ row[k].status \in Startable
                                  /\ obj'[s][k].status \in {"pending", "starting"}
            /\ k \notin dirty'[s] /\ obj'[s][k].status \in {"pending", "waiting"}
                  => row[k].status = obj'[s][k].status
            /\ k \in todo'[s]
                  => k \notin dirty'[s] /\ obj'[s][k].status = "waiting"
      <4> SUFFICES ASSUME NEW k \in Job
                   PROVE  /\ k \in dirty'[s] => /\ row[k].status \in Startable
                                                /\ obj'[s][k].status
                                                     \in {"pending", "starting"}
                          /\ k \notin dirty'[s]
                             /\ obj'[s][k].status \in {"pending", "waiting"}
                                => row[k].status = obj'[s][k].status
                          /\ k \in todo'[s] => /\ k \notin dirty'[s]
                                               /\ obj'[s][k].status = "waiting"
        OBVIOUS
      <4>1. /\ k \in dirty[s] => /\ row[k].status \in Startable
                                 /\ obj[s][k].status \in {"pending", "starting"}
            /\ k \notin dirty[s] /\ obj[s][k].status \in {"pending", "waiting"}
                  => row[k].status = obj[s][k].status
            /\ k \in todo[s] => k \notin dirty[s] /\ obj[s][k].status = "waiting"
        BY <2>2 DEF CalmInv, Current, Inside
      <4>2. CASE k = j
        BY <2>2, <2>3, <2>4, <2>6, <4>1, <4>2 DEF Startable
      <4>3. CASE k # j
        BY <2>2, <2>6, <4>1, <4>3
      <4> QED
        BY <4>2, <4>3
    <3> QED
      BY <1>0, <2>2, <3>1, <3>2 DEF Current, Inside
  <2>9. Sent'
    BY <1>0, <2>2, <2>3, <2>6, SentJobs DEF CalmInv, Sent
  <2>10. \A k \in Job : Busy(View(s)'[k]) => Busy(View(s)[k])
    BY <2>2, <2>3, <2>4, <2>6 DEF View, Busy
  <2>11. Exclusive'
    BY <1>0, <2>10 DEF CalmInv, Exclusive, Conflict
  <2> QED
    BY <2>5, <2>7, <2>8, <2>9, <2>11 DEF CalmInv
<1> QED
  BY <1>1, <1>2

LEMMA ProcessPendingCalm ==
    ASSUME Known, NEW s \in Scheduler, ProcessPending(s)
    PROVE  CalmInv'
<1> USE DEF Known, Others
<1>0. Scheduler = {s}
  BY OneScheduler
<1>1. CASE Rollback(s)
  BY <1>1, RollbackCalm DEF ProcessPending
<1>2. CASE ~Rollback(s)
  <2>1. /\ pc[s] = "waiting" /\ pc'[s] = "pending"
        /\ todo'[s] = {j \in Job : obj[s][j].status = "pending"}
        /\ UNCHANGED <<row, obj, dirty, sends, deliv, api>>
    BY <1>2 DEF ProcessPending, TypeOK
  <2>2. Messages'
    BY <2>1 DEF CalmInv, Messages, Alive, Recorded, Checked
  <2>3. Uncanceled'
    BY <2>1 DEF CalmInv, Uncanceled
  <2>4. Current'
    BY <1>0, <2>1 DEF CalmInv, Current, Inside
  <2>5. Sent'
    BY <1>0, <2>1 DEF CalmInv, Sent, Alive
  <2>6. Exclusive'
    BY <2>1 DEF CalmInv, Exclusive, View, Conflict
  <2> QED
    BY <2>2, <2>3, <2>4, <2>5, <2>6 DEF CalmInv
<1> QED
  BY <1>1, <1>2

LEMMA GenerateDependenciesCalm ==
    ASSUME Known, NEW s \in Scheduler, GenerateDependencies(s)
    PROVE  CalmInv'
<1> USE DEF Known, Others
<1> DEFINE j == First(todo[s])
           new(D) == {p \in D : View(s)[p].status = "absent"}
<1>0. Scheduler = {s}
  BY OneScheduler
<1>1. j \in Job /\ pc[s] = "pending"
  BY FirstTodo DEF GenerateDependencies
<1>2. UNCHANGED <<row, sends, deliv, api>> /\ Marked(s)' = Marked(s)
  BY DEF GenerateDependencies, Marked
<1>3. CASE DependencyChoices(s, j) = {}
  <2>1. /\ pc' = pc /\ obj' = obj /\ dirty' = dirty
        /\ todo'[s] = todo[s] \ {j}
    BY <1>3 DEF GenerateDependencies, TypeOK
  <2>2. Messages'
    BY <1>2 DEF CalmInv, Messages, Alive, Recorded, Checked
  <2>3. Uncanceled'
    BY <1>2, <2>1 DEF CalmInv, Uncanceled
  <2>4. Current'
    BY <1>0, <1>1, <1>2, <2>1 DEF CalmInv, Current, Inside
  <2>5. Sent'
    BY <1>0, <1>2, <2>1 DEF CalmInv, Sent, Alive
  <2>6. Exclusive'
    BY <1>2, <2>1 DEF CalmInv, Exclusive, View, Conflict
  <2> QED
    BY <2>2, <2>3, <2>4, <2>5, <2>6 DEF CalmInv
<1>4. CASE DependencyChoices(s, j) # {}
  <2>1. PICK D \in DependencyChoices(s, j) :
          /\ left' = [left EXCEPT ![s] = D]
          /\ obj' = [obj EXCEPT ![s] = [k \in Job |->
                        IF k \in new(D) THEN PrepRow(j)
                        ELSE IF k \in D THEN View(s)[k] ELSE @[k]]]
          /\ dirty' = [dirty EXCEPT ![s] = @ \cup new(D)]
          /\ pc' = [pc EXCEPT ![s] = "deps"]
          /\ UNCHANGED todo
    BY <1>4 DEF GenerateDependencies
  <2>2. D \in SUBSET {k \in Job : TypeOf[k] = "check"}
    BY <1>1, DependenciesAreChecks
  <2>3. \A k \in D : View(s)[k].status \in Queued \cup {"absent"}
    BY <1>1, DependenciesAreQueued
  <2>4. /\ pc'[s] = "deps" /\ left'[s] = D /\ dirty'[s] = dirty[s] \cup new(D)
        /\ \A k \in Job : obj'[s][k] = IF k \in new(D) THEN PrepRow(j)
                              ELSE IF k \in D THEN View(s)[k] ELSE obj[s][k]
    BY <2>1 DEF TypeOK
  <2>5. \A k \in Job :
          View(s)[k] = IF k \in dirty[s] THEN obj[s][k] ELSE row[k]
    BY DEF View
  <2>6. \A k \in new(D) : k \notin dirty[s] /\ row[k].status = "absent"
    BY <2>2, <2>5 DEF CalmInv, Current
  <2>7. PrepRow(j).status = "pending" /\ ~PrepRow(j).cancel
    BY DEF PrepRow
  <2>8. Messages'
    BY <1>2 DEF CalmInv, Messages, Alive, Recorded, Checked
  <2>9. Uncanceled'
    <3>1. \A k \in Job : TypeOf[k] = "check" => ~obj'[s][k].cancel
      BY <2>4, <2>5, <2>7 DEF CalmInv, Uncanceled
    <3> QED
      BY <1>0, <1>2, <3>1 DEF CalmInv, Uncanceled
  <2>10. Current'
    <3>1. ASSUME NEW k \in Job
          PROVE  /\ k \in dirty'[s] => /\ row[k].status \in Startable
                                       /\ obj'[s][k].status \in {"pending", "starting"}
                 /\ k \notin dirty'[s] /\ obj'[s][k].status \in {"pending", "waiting"}
                       => row[k].status = obj'[s][k].status
                 /\ k \in todo[s] => obj'[s][k].status = "pending" \/ k \in Marked(s)
                 /\ k \in D => row[k].status \in Startable \cup {"running"}
      <4>1. /\ k \in dirty[s] => /\ row[k].status \in Startable
                                 /\ obj[s][k].status \in {"pending", "starting"}
            /\ k \notin dirty[s] /\ obj[s][k].status \in {"pending", "waiting"}
                  => row[k].status = obj[s][k].status
            /\ k \in todo[s] => obj[s][k].status = "pending" \/ k \in Marked(s)
        BY <1>1 DEF CalmInv, Current, Inside
      <4>2. k \in Marked(s) => k \in dirty[s] /\ obj[s][k].status = "starting"
        BY <1>1 DEF Marked, CalmInv, Sent
      <4>3. CASE k \in new(D)
        BY <2>4, <2>6, <2>7, <4>1, <4>2, <4>3 DEF Startable
      <4>4. CASE k \in D \ new(D)
        BY <2>3, <2>4, <2>5, <4>1, <4>2, <4>4 DEF Startable, Queued
      <4>5. CASE k \notin D
        BY <2>4, <4>1, <4>5
      <4> QED
        BY <4>3, <4>4, <4>5
    <3> QED
      BY <1>0, <1>2, <2>1, <2>2, <2>4, <3>1 DEF Current, Inside
  <2>11. Sent'
    <3>1. \A m \in sends[s] : m.job \in dirty[s] /\ obj[s][m.job].status = "starting"
      BY <1>1 DEF CalmInv, Sent
    <3>2. \A m \in sends[s] : obj'[s][m.job] = obj[s][m.job]
      BY <2>4, <2>5, <2>6, <3>1, SentJobs
    <3> QED
      BY <1>0, <1>1, <1>2, <2>4, <3>1, <3>2 DEF CalmInv, Sent
  <2>12. \A k \in Job : Busy(View(s)'[k]) => Busy(View(s)[k])
    BY <1>2, <2>4, <2>5, <2>7 DEF View, Busy
  <2>13. Exclusive'
    BY <1>0, <2>12 DEF CalmInv, Exclusive, Conflict
  <2> QED
    BY <2>8, <2>9, <2>10, <2>11, <2>13 DEF CalmInv
<1> QED
  BY <1>3, <1>4

\* A round of a loop that starts nothing.
LEMMA SkipCalm ==
    ASSUME Known, NEW s \in Scheduler, pc[s] = "deps",
           UNCHANGED <<row, deliv, api, obj, dirty, sends>>,
           pc'[s] \in {"deps", "pending"},
           todo'[s] \in SUBSET todo[s], left'[s] \in SUBSET left[s]
    PROVE  CalmInv'
<1> USE DEF Known
<1>0. Scheduler = {s}
  BY OneScheduler
<1>1. Messages'
  BY DEF CalmInv, Messages, Alive, Recorded, Checked
<1>2. Uncanceled'
  BY DEF CalmInv, Uncanceled
<1>3. Current'
  <2>1. Marked(s)' = Marked(s)
    BY DEF Marked
  <2> QED
    BY <1>0, <2>1 DEF CalmInv, Current, Inside
<1>4. Sent'
  BY <1>0 DEF CalmInv, Sent, Alive
<1>5. Exclusive'
  BY DEF CalmInv, Exclusive, View, Conflict
<1> QED
  BY <1>1, <1>2, <1>3, <1>4, <1>5 DEF CalmInv

\* What it means for a job that is to be started that it is not blocked.
LEMMA UnblockedJob ==
    ASSUME Calm, NEW s \in Scheduler, NEW j \in Job,
           ~RaisesNoClient(View(s), Marked(s), j),
           ~IsJobBlocked(View(s), Marked(s), j)
    PROVE  /\ j \notin Marked(s)
           /\ ~Busy(View(s)[j])
           /\ \A k \in Job : Conflict(j, k) => ~Busy(View(s)[k])
<1>1. /\ j \notin Marked(s) /\ ClientOf[j] # None
      /\ \A k \in Job : RepoOf[k] = PolicyRepo[j] => ~Busy(View(s)[k])
      /\ \A k \in Job : ClientOf[k] = ClientOf[j] => ~Busy(View(s)[k])
  BY DEF RaisesNoClient, IsJobBlocked, SameRepoJobs, SameClientJobs
<1> QED
  BY <1>1 DEF Conflict, Calm

\* A round that starts a job, a dependency or the task itself.
LEMMA StartCalm ==
    ASSUME Known, NEW s \in Scheduler, NEW j \in Job, NEW F \in SUBSET Job,
           pc[s] = "deps", row[j].status \in Startable,
           ~RaisesNoClient(View(s), Marked(s), j),
           ~IsJobBlocked(View(s), Marked(s), j),
           StartTask(s, j, obj[s][j], F),
           TypeOf[j] # "check" => F \subseteq {j},
           UNCHANGED <<row, deliv, api>>,
           pc'[s] \in {"deps", "pending"},
           todo'[s] \in SUBSET todo[s], left'[s] \in SUBSET left[s]
    PROVE  CalmInv'
<1> USE DEF Known
<1> DEFINE r == [obj[s][j] EXCEPT !.status = "starting"]
           m == [job |-> j, fail |-> F]
<1>0. Scheduler = {s}
  BY OneScheduler
<1>1. /\ dirty'[s] = dirty[s] \cup {j} /\ sends'[s] = sends[s] \cup {m}
      /\ \A k \in Job : obj'[s][k] = IF k = j THEN r ELSE obj[s][k]
  BY DEF StartTask, Save, TypeOK
<1>2. r.status = "starting" /\ r.cancel = obj[s][j].cancel
  BY DEF TypeOK, Row
<1>3. /\ j \notin Marked(s) /\ ~Busy(View(s)[j])
      /\ \A k \in Job : Conflict(j, k) => ~Busy(View(s)[k])
  BY UnblockedJob
<1>4. Messages'
  BY DEF CalmInv, Messages, Alive, Recorded, Checked
<1>5. Uncanceled'
  <2>1. \A k \in Job : obj'[s][k].cancel = obj[s][k].cancel
    BY <1>1, <1>2
  <2> QED
    BY <1>0, <2>1 DEF CalmInv, Uncanceled
<1>6. Current'
  <2>1. Marked(s)' = Marked(s) \cup {j}
    <3>1. Marked(s)' = {x.job : x \in sends[s] \cup {m}}
      BY <1>1 DEF Marked
    <3> HIDE DEF m
    <3>2. m.job = j
      BY DEF m
    <3> QED
      BY <3>1, <3>2 DEF Marked
  <2>2. ASSUME NEW k \in Job
        PROVE  /\ k \in dirty'[s] => /\ row[k].status \in Startable
                                     /\ obj'[s][k].status \in {"pending", "starting"}
               /\ k \notin dirty'[s] /\ obj'[s][k].status \in {"pending", "waiting"}
                     => row[k].status = obj'[s][k].status
               /\ k \in todo'[s] => obj'[s][k].status = "pending" \/ k \in Marked(s)'
               /\ k \in left'[s] /\ pc'[s] = "deps"
                     => TypeOf[k] = "check" /\ row[k].status \in Startable \cup {"running"}
    <3>1. /\ k \in dirty[s] => /\ row[k].status \in Startable
                               /\ obj[s][k].status \in {"pending", "starting"}
          /\ k \notin dirty[s] /\ obj[s][k].status \in {"pending", "waiting"}
                => row[k].status = obj[s][k].status
          /\ k \in todo[s] => obj[s][k].status = "pending" \/ k \in Marked(s)
          /\ k \in left[s] => TypeOf[k] = "check"
                               /\ row[k].status \in Startable \cup {"running"}
      BY DEF CalmInv, Current, Inside
    <3>2. CASE k = j
      BY <1>1, <1>2, <2>1, <3>1, <3>2
    <3>3. CASE k # j
      BY <1>1, <2>1, <3>1, <3>3
    <3> QED
      BY <3>2, <3>3
  <2> QED
    BY <1>0, <2>2 DEF Current, Inside
<1>7. Sent'
  <2>1. \A o \in sends[s] : /\ o.job # j /\ o.job \in Job /\ o.job \in dirty[s]
                            /\ obj[s][o.job].status = "starting"
                            /\ TypeOf[o.job] # "check" => o.fail \subseteq {o.job}
                            /\ \A x \in sends[s] : x.job = o.job => x = o
    BY <1>3, SentJobs DEF Marked, CalmInv, Sent
  <2>2. m.job = j /\ m.fail = F
    OBVIOUS
  <2>3. ASSUME NEW o \in sends'[s]
        PROVE  /\ o.job \in dirty'[s] /\ obj'[s][o.job].status = "starting"
               /\ TypeOf[o.job] # "check" => o.fail \subseteq {o.job}
               /\ \A x \in sends'[s] : x.job = o.job => x = o
    <3>1. CASE o = m
      BY <1>1, <1>2, <2>1, <2>2, <3>1
    <3>2. CASE o \in sends[s]
      BY <1>1, <2>1, <2>2, <3>2
    <3> QED
      BY <1>1, <3>1, <3>2
  <2> QED
    BY <1>0, <2>3 DEF Sent
<1>8. Exclusive'
  <2>1. \A k \in Job : k # j => View(s)'[k] = View(s)[k]
    BY <1>1 DEF View
  <2>2. \A k, l \in Job : Conflict(k, l) => Conflict(l, k)
    BY DEF Conflict
  <2> SUFFICES ASSUME NEW k \in Job, NEW l \in Job, k # l, Conflict(k, l),
                      Busy(View(s)'[k]), Busy(View(s)'[l])
               PROVE  FALSE
    BY <1>0 DEF Exclusive, Conflict
  <2> QED
    BY <1>3, <2>1, <2>2 DEF CalmInv, Exclusive
<1> QED
  BY <1>4, <1>5, <1>6, <1>7, <1>8 DEF CalmInv

LEMMA ProcessDependencyCalm ==
    ASSUME Known, NEW s \in Scheduler, ProcessDependency(s)
    PROVE  CalmInv'
<1> USE DEF Known, Others
<1> DEFINE d == NextDependency(left[s])
           F == deps[s] \cup {d, First(todo[s])}
<1>1. CASE RaisesNoClient(View(s), Marked(s), d)
  BY <1>1, RollbackCalm DEF ProcessDependency
<1>2. CASE ~RaisesNoClient(View(s), Marked(s), d)
  <2>1. /\ pc[s] = "deps" /\ pc'[s] = "deps" /\ todo'[s] = todo[s]
        /\ left'[s] = left[s] \ {d}
        /\ UNCHANGED <<row, deliv, api>>
        /\ d \in left[s] /\ d \in Job
    BY <1>2, NextDependencyIsMember DEF ProcessDependency, TypeOK
  <2>2. CASE IsJobBlocked(View(s), Marked(s), d)
    BY <1>2, <2>1, <2>2, SkipCalm DEF ProcessDependency
  <2>3. CASE ~IsJobBlocked(View(s), Marked(s), d)
    <3>1. StartTask(s, d, obj[s][d], F)
      BY <1>2, <2>3 DEF ProcessDependency
    <3>2. F \in SUBSET Job
      BY <2>1, FirstTodo DEF PassShape, TypeOK
    <3>3. /\ TypeOf[d] = "check" /\ row[d].status \in Startable \cup {"running"}
          /\ d \in dirty[s] => row[d].status \in Startable
      BY <2>1 DEF CalmInv, Current
    <3>4. row[d].status \in Startable
      <4>1. ~Busy(View(s)[d])
        BY <1>2, <2>1, <2>3, UnblockedJob
      <4> QED
        BY <2>1, <3>3, <4>1 DEF View, Busy
    <3> QED
      BY <1>2, <2>1, <2>3, <3>1, <3>2, <3>3, <3>4, StartCalm
  <2> QED
    BY <2>2, <2>3
<1> QED
  BY <1>1, <1>2

LEMMA ProcessTaskCalm ==
    ASSUME Known, NEW s \in Scheduler, ProcessTask(s)
    PROVE  CalmInv'
<1> USE DEF Known, Others
<1> DEFINE j == First(todo[s])
<1>1. CASE Rollback(s)
  BY <1>1, RollbackCalm DEF ProcessTask
<1>2. CASE ~Rollback(s)
  <2>1. /\ pc[s] = "deps" /\ pc'[s] = "pending"
        /\ todo'[s] \in SUBSET todo[s] /\ left' = left
        /\ UNCHANGED <<row, deliv, api>>
        /\ ~RaisesNoClient(View(s), Marked(s), j)
    BY <1>2 DEF ProcessTask, TypeOK
  <2>2. j \in todo[s] /\ j \in Job
    BY <2>1, FirstTodo DEF PassShape
  <2>3. CASE IsJobBlocked(View(s), Marked(s), j)
    BY <1>2, <2>1, <2>3, SkipCalm DEF ProcessTask
  <2>4. CASE ~IsJobBlocked(View(s), Marked(s), j)
    <3>1. StartTask(s, j, obj[s][j], {j})
      BY <1>2, <2>4 DEF ProcessTask
    <3>2. obj[s][j].status = "pending" \/ j \in Marked(s)
      BY <2>1, <2>2 DEF CalmInv, Current
    <3>3. j \notin Marked(s)
      BY <2>1, <2>2, <2>4, UnblockedJob
    <3>4. row[j].status \in Startable
      BY <2>1, <2>2, <3>2, <3>3 DEF CalmInv, Current, Inside, Startable
    <3> QED
      BY <2>1, <2>2, <2>4, <3>1, <3>4, StartCalm
  <2> QED
    BY <2>3, <2>4
<1> QED
  BY <1>1, <1>2

LEMMA ReleaseLockCalm ==
    ASSUME Known, NEW s \in Scheduler, ReleaseLock(s)
    PROVE  CalmInv'
<1> USE DEF Known, Others
<1>0. Scheduler = {s}
  BY OneScheduler
<1>1. /\ pc[s] = "pending" /\ pc'[s] = "commit"
      /\ UNCHANGED <<row, obj, dirty, sends, deliv, api>>
  BY DEF ReleaseLock, TypeOK
<1>2. Messages'
  BY <1>1 DEF CalmInv, Messages, Alive, Recorded, Checked
<1>3. Uncanceled'
  BY <1>1 DEF CalmInv, Uncanceled
<1>4. Current'
  BY <1>0, <1>1 DEF CalmInv, Current, Inside
<1>5. Sent'
  BY <1>0, <1>1 DEF CalmInv, Sent
<1>6. Exclusive'
  BY <1>1 DEF CalmInv, Exclusive, View, Conflict
<1> QED
  BY <1>2, <1>3, <1>4, <1>5, <1>6 DEF CalmInv

LEMMA CommitCalm ==
    ASSUME Known, NEW s \in Scheduler, Commit(s)
    PROVE  CalmInv'
<1> USE DEF Known
<1>0. Scheduler = {s}
  BY OneScheduler
<1>1. /\ pc[s] = "commit" /\ row' = View(s) /\ dirty'[s] = {}
      /\ obj'[s] = [j \in Job |-> NoRow]
      /\ pc'[s] = (IF sends[s] = {} THEN "idle" ELSE "send")
      /\ UNCHANGED <<sends, deliv, api>>
  BY DEF Commit, TypeOK
<1>2. \A j \in Job : row'[j] = IF j \in dirty[s] THEN obj[s][j] ELSE row[j]
  BY <1>1 DEF View
<1>3. \A d \in Job \X Slot : Alive(d) => row[d[1]].status \notin Startable
  BY DEF TypeOK, Delivery, DeliveryPc, Alive, Startable, CalmInv, Messages, Recorded
<1>4. \A j \in dirty[s] : j \in Job /\ row[j].status \in Startable
  BY DEF TypeOK, CalmInv, Current
<1>5. Messages'
  <2>1. \A d \in Job \X Slot : Alive(d) => row'[d[1]] = row[d[1]]
    BY <1>2, <1>3, <1>4
  <2>2. \A d \in Job \X Slot : Alive(d) => Recorded(d)' /\ Checked(d)'
    BY <1>1, <2>1 DEF CalmInv, Messages, Recorded, Checked
  <2> QED
    BY <1>1, <2>2 DEF CalmInv, Messages, Alive
<1>6. Uncanceled'
  BY <1>0, <1>1, <1>2 DEF CalmInv, Uncanceled, NoRow
<1>7. Current'
  BY <1>0, <1>1 DEF Current, Inside
<1>8. Sent'
  <2> SUFFICES ASSUME NEW m \in sends[s]
               PROVE  /\ row'[m.job].status = "starting"
                      /\ \A n \in Slot : ~Alive(<<m.job, n>>)'
                      /\ TypeOf[m.job] # "check" => m.fail \subseteq {m.job}
                      /\ \A o \in sends[s] : o.job = m.job => o = m
    BY <1>0, <1>1 DEF Sent
  <2>1. /\ m.job \in dirty[s] /\ obj[s][m.job].status = "starting" /\ m.job \in Job
        /\ TypeOf[m.job] # "check" => m.fail \subseteq {m.job}
        /\ \A o \in sends[s] : o.job = m.job => o = m
    BY <1>1, SentJobs DEF CalmInv, Sent
  <2>2. \A n \in Slot : ~Alive(<<m.job, n>>)
    BY <1>3, <1>4, <2>1
  <2> QED
    BY <1>1, <1>2, <2>1, <2>2 DEF Alive
<1>9. Exclusive'
  <2>1. \A j \in Job : View(s)'[j] = View(s)[j]
    BY <1>1 DEF View
  <2> QED
    BY <1>0, <2>1 DEF CalmInv, Exclusive, Conflict
<1> QED
  BY <1>5, <1>6, <1>7, <1>8, <1>9 DEF CalmInv

LEMMA SendTaskCalm ==
    ASSUME Known, NEW s \in Scheduler, SendTask(s)
    PROVE  CalmInv'
<1> USE DEF Known
<1>0. Scheduler = {s}
  BY OneScheduler
<1>m. PICK m \in sends[s] : \E n \in FreeSlots(m.job) :
        /\ deliv' = [deliv EXCEPT ![<<m.job, n>>] =
                        [pc |-> "queued", fail |-> m.fail, result |-> "absent"]]
        /\ sends' = [sends EXCEPT ![s] = @ \ {m}]
        /\ pc' = [pc EXCEPT ![s] = IF sends[s] = {m} THEN "idle" ELSE "send"]
  BY DEF SendTask
<1>1. PICK n \in FreeSlots(m.job) :
        /\ deliv' = [deliv EXCEPT ![<<m.job, n>>] =
                        [pc |-> "queued", fail |-> m.fail, result |-> "absent"]]
        /\ sends' = [sends EXCEPT ![s] = @ \ {m}]
        /\ pc' = [pc EXCEPT ![s] = IF sends[s] = {m} THEN "idle" ELSE "send"]
  BY <1>m
<1> DEFINE d == <<m.job, n>>
<1>2. /\ pc[s] = "send" /\ UNCHANGED <<row, dirty, obj, todo, left, api>>
      /\ sends'[s] = sends[s] \ {m}
      /\ pc'[s] = (IF sends[s] = {m} THEN "idle" ELSE "send")
  BY <1>1 DEF SendTask, TypeOK
<1>3. /\ d \in Job \X Slot /\ m.job \in Job /\ m.fail \in SUBSET Job
  BY <1>1, SentJobs DEF FreeSlots
<1>4. /\ deliv'[d].pc = "queued" /\ deliv'[d].fail = m.fail
      /\ \A e \in Job \X Slot : e # d => deliv'[e] = deliv[e]
  BY <1>1, <1>3 DEF TypeOK
<1>5. \A o \in sends[s] : /\ row[o.job].status = "starting"
                          /\ \A k \in Slot : ~Alive(<<o.job, k>>)
                          /\ TypeOf[o.job] # "check" => o.fail \subseteq {o.job}
                          /\ \A x \in sends[s] : x.job = o.job => x = o
  BY <1>2 DEF CalmInv, Sent
<1>6. Messages'
  <2>1. \A e \in Job \X Slot : Alive(e) => e[1] # m.job
    BY <1>1, <1>5
  <2>2. Recorded(d)' /\ Checked(d)'
    BY <1>1, <1>2, <1>3, <1>4, <1>5 DEF Recorded, Checked
  <2>3. ASSUME NEW e \in Job \X Slot, e # d, Alive(e)'
        PROVE  Alive(e) /\ Recorded(e)' /\ Checked(e)'
    <3>1. deliv'[e] = deliv[e] /\ Alive(e)
      BY <1>4, <2>3 DEF Alive
    <3>2. Recorded(e) /\ Checked(e)
      BY <3>1 DEF CalmInv, Messages
    <3> QED
      BY <1>2, <3>1, <3>2 DEF Recorded, Checked
  <2>4. \A e, f \in Job \X Slot : Alive(e)' /\ Alive(f)' /\ e[1] = f[1] => e = f
    BY <2>1, <2>3 DEF CalmInv, Messages
  <2> QED
    BY <2>2, <2>3, <2>4 DEF Messages
<1>7. Uncanceled'
  BY <1>2 DEF CalmInv, Uncanceled
<1>8. Current'
  BY <1>0, <1>2 DEF CalmInv, Current, Inside
<1>9. Sent'
  <2>1. ASSUME NEW o \in sends'[s]
        PROVE  /\ pc'[s] = "send" /\ row[o.job].status = "starting"
               /\ \A k \in Slot : ~Alive(<<o.job, k>>)'
               /\ TypeOf[o.job] # "check" => o.fail \subseteq {o.job}
               /\ \A x \in sends'[s] : x.job = o.job => x = o
    <3>1. o \in sends[s] /\ o # m /\ o.job # m.job /\ o.job \in Job
      BY <1>2, <1>5, SentJobs
    <3>2. \A k \in Slot : deliv'[<<o.job, k>>] = deliv[<<o.job, k>>]
      BY <1>4, <3>1
    <3> QED
      BY <1>2, <1>5, <3>1, <3>2 DEF Alive
  <2> QED
    BY <1>0, <1>2, <2>1 DEF Sent
<1>10. Exclusive'
  BY <1>2 DEF CalmInv, Exclusive, View, Conflict
<1> QED
  BY <1>6, <1>7, <1>8, <1>9, <1>10 DEF CalmInv

LEMMA PassCalm ==
    ASSUME Known, NEW s \in Scheduler, PassStep(s) \/ SchedulerCrash(s)
    PROVE  CalmInv'
  BY BeginPassCalm, ProcessWaitingCalm, ProcessPendingCalm, GenerateDependenciesCalm,
     ProcessDependencyCalm, ProcessTaskCalm, ReleaseLockCalm, CommitCalm,
     SendTaskCalm, RollbackCalm DEF PassStep, SchedulerCrash

-----------------------------------------------------------------------------
(* Workers: a step of a message touches no row but that of its job, and no *)
(* other message is about that job.                                        *)

LEMMA MessageStep ==
    ASSUME Known, NEW d \in Job \X Slot, Alive(d),
           \A e \in Job \X Slot : e # d => deliv'[e] = deliv[e],
           \A k \in Job : k # d[1] => row'[k] = row[k],
           Alive(d)' => Recorded(d)' /\ Checked(d)'
    PROVE  Messages'
<1> USE DEF Known
<1>1. ASSUME NEW e \in Job \X Slot, e # d, Alive(e)'
      PROVE  Alive(e) /\ Recorded(e)' /\ Checked(e)'
  <2>1. deliv'[e] = deliv[e] /\ Alive(e)
    BY <1>1 DEF Alive
  <2>2. e[1] # d[1] /\ Recorded(e) /\ Checked(e)
    BY <1>1, <2>1 DEF CalmInv, Messages
  <2> QED
    BY <2>1, <2>2 DEF Recorded, Checked
<1> QED
  BY <1>1 DEF CalmInv, Messages

\* What the step of a message may do to the row of its job.
RowStep(j) ==
    \/ UNCHANGED row
    \/ \E st \in Status :
          /\ SetStatus(j, st)
          /\ Busy([row[j] EXCEPT !.status = st]) => Busy(row[j])
          /\ TypeOf[j] = "check" => st \in {"running", "successful"}

LEMMA MessageStepCalm ==
    ASSUME Known, NEW d \in Job \X Slot, Alive(d), RowStep(d[1]),
           UNCHANGED <<pass, api>>,
           \A e \in Job \X Slot : e # d => deliv'[e] = deliv[e],
           Alive(d)' => Recorded(d)' /\ Checked(d)'
    PROVE  CalmInv'
<1> USE DEF Known, pass
<1>0. PICK s \in Scheduler : Scheduler = {s}
  BY DEF Calm
<1> DEFINE j == d[1]
<1>1. /\ j \in Job
      /\ row[j].status \in {"starting", "running", "failed", "error", "canceled"}
  BY DEF TypeOK, Delivery, DeliveryPc, Alive, CalmInv, Messages, Recorded
<1>2. /\ \A k \in Job : k # j => row'[k] = row[k]
      /\ row'[j].cancel = row[j].cancel
      /\ Busy(row'[j]) => Busy(row[j])
      /\ j \in dirty[s] => row'[j] = row[j]
      /\ TypeOf[j] = "check" => \/ row'[j] = row[j]
                                \/ row'[j].status \in {"running", "successful"}
  <2>1. CASE UNCHANGED row
    BY <2>1
  <2>2. CASE ~UNCHANGED row
    <3>1. PICK st \in Status :
            /\ SetStatus(j, st)
            /\ Busy([row[j] EXCEPT !.status = st]) => Busy(row[j])
            /\ TypeOf[j] = "check" => st \in {"running", "successful"}
      BY <2>2 DEF RowStep
    <3>2. row' = [row EXCEPT ![j] = [row[j] EXCEPT !.status = st]] /\ j \notin dirty[s]
      BY <3>1 DEF SetStatus, Locked
    <3> QED
      BY <1>1, <3>1, <3>2 DEF TypeOK, Row
  <2> QED
    BY <2>1, <2>2
<1>3. Messages'
  BY <1>2, MessageStep
<1>4. Uncanceled'
  <2>1. \A k \in Job : row'[k].cancel = row[k].cancel
    BY <1>2
  <2> QED
    BY <2>1 DEF CalmInv, Uncanceled
<1>5. Current'
  <2>1. Marked(s)' = Marked(s)
    BY DEF Marked
  <2>2. ASSUME NEW k \in Job
        PROVE  /\ k \in dirty[s] => row'[k].status \in Startable
               /\ pc[s] \in Inside /\ k \notin dirty[s]
                  /\ obj[s][k].status \in {"pending", "waiting"}
                     => row'[k].status = obj[s][k].status
               /\ pc[s] = "deps" /\ k \in left[s]
                    => row'[k].status \in Startable \cup {"running"}
    <3>1. /\ k \in dirty[s] => row[k].status \in Startable
          /\ pc[s] \in Inside /\ k \notin dirty[s]
             /\ obj[s][k].status \in {"pending", "waiting"}
                => row[k].status = obj[s][k].status
          /\ pc[s] = "deps" /\ k \in left[s]
               => TypeOf[k] = "check" /\ row[k].status \in Startable \cup {"running"}
      BY <1>0 DEF CalmInv, Current
    <3>2. CASE k = j
      BY <1>1, <1>2, <3>1, <3>2 DEF Startable
    <3>3. CASE k # j
      BY <1>2, <3>1, <3>3
    <3> QED
      BY <3>2, <3>3
  <2> QED
    BY <1>0, <2>1, <2>2 DEF CalmInv, Current
<1>6. Sent'
  <2>1. \A m \in sends[s] : m.job \in Job /\ (pc[s] = "send" => m.job # j)
    BY SentJobs DEF CalmInv, Sent
  <2>2. \A e \in Job \X Slot : Alive(e)' => Alive(e)
    BY DEF Alive
  <2>3. \A m \in sends[s] : pc[s] = "send" =>
          /\ row'[m.job].status = "starting"
          /\ \A n \in Slot : ~Alive(<<m.job, n>>)'
    BY <1>2, <2>1, <2>2 DEF CalmInv, Sent
  <2> QED
    BY <1>0, <2>3 DEF CalmInv, Sent
<1>7. Exclusive'
  <2>1. \A k \in Job : Busy(View(s)'[k]) => Busy(View(s)[k])
    BY <1>1, <1>2 DEF View
  <2> QED
    BY <1>0, <2>1 DEF CalmInv, Exclusive, Conflict
<1> QED
  BY <1>3, <1>4, <1>5, <1>6, <1>7 DEF CalmInv

LEMMA WorkerCalm ==
    ASSUME Known, NEW d \in Job \X Slot,
           WorkerStep(d) \/ ReportReady(d) \/ WorkerCrash(d) \/ Redeliver(d)
    PROVE  CalmInv'
<1> USE DEF Known, Unscheduled
<1> DEFINE j == d[1]
           Rest == \A e \in Job \X Slot : e # d => deliv'[e] = deliv[e]
<1>1. j \in Job
  OBVIOUS
<1>a. ASSUME NEW p \in DeliveryPc, Advance(d, p)
      PROVE  Rest /\ deliv'[d].pc = p /\ deliv'[d].fail = deliv[d].fail
                  /\ deliv'[d].result = deliv[d].result
  BY <1>a DEF Advance, TypeOK, Delivery
<1>b. {"started", "canceling", "borg", "failing"} \subseteq DeliveryPc
  BY DEF DeliveryPc
<1>c. Alive(d) => Recorded(d) /\ Checked(d)
  BY DEF CalmInv, Messages
<1>s. ASSUME NEW st, SetStatus(j, st)
      PROVE  row'[j].status = st
  BY <1>s DEF SetStatus, TypeOK, Row
<1>2. CASE PickUp(d)
  <2>1. /\ deliv[d].pc = "queued" /\ SetStatus(j, "running")
        /\ UNCHANGED <<pass, api>>
        /\ Advance(d, IF row[j].cancel THEN "canceling" ELSE "started")
    BY <1>2 DEF PickUp
  <2>2. /\ Rest /\ deliv'[d].fail = deliv[d].fail
        /\ deliv'[d].pc = (IF row[j].cancel THEN "canceling" ELSE "started")
    BY <1>a, <1>b, <2>1
  <2>3. TypeOf[j] = "check" => ~row[j].cancel
    BY <1>1 DEF CalmInv, Uncanceled
  <2>4. Recorded(d)' /\ Checked(d)'
    BY <1>c, <1>s, <2>1, <2>2, <2>3 DEF Alive, Recorded, Checked
  <2>5. RowStep(j)
    BY <1>c, <2>1 DEF RowStep, Status, Busy, Alive, Recorded
  <2> QED
    BY <2>1, <2>2, <2>4, <2>5, MessageStepCalm DEF Alive
<1>3. CASE StopCanceled(d)
  <2>1. /\ deliv[d].pc = "canceling" /\ SetStatus(j, "canceled")
        /\ UNCHANGED <<pass, api>> /\ Advance(d, "failing")
    BY <1>3 DEF StopCanceled
  <2>2. Rest /\ deliv'[d].pc = "failing" /\ deliv'[d].fail = deliv[d].fail
    BY <1>a, <1>b, <2>1
  <2>3. TypeOf[j] # "check"
    BY <1>c, <2>1 DEF Alive, Checked
  <2>4. Recorded(d)' /\ Checked(d)'
    BY <1>c, <1>s, <2>1, <2>2, <2>3 DEF Alive, Recorded, Checked
  <2>5. RowStep(j)
    BY <2>1, <2>3 DEF RowStep, Status, Busy, TypeOK, Row
  <2> QED
    BY <2>1, <2>2, <2>4, <2>5, MessageStepCalm DEF Alive
<1>4. CASE BuildArgs(d)
  <2>1. /\ deliv[d].pc = "started" /\ UNCHANGED <<row, pass, api>>
        /\ \/ Advance(d, "borg")
           \/ "raise" \in BuildOutcome[TypeOf[j]] /\ Advance(d, "failing")
    BY <1>4 DEF BuildArgs
  <2>2. /\ Rest /\ deliv'[d].fail = deliv[d].fail
        /\ \/ deliv'[d].pc = "borg"
           \/ deliv'[d].pc = "failing" /\ TypeOf[j] # "check"
    BY <1>a, <1>b, <2>1 DEF Calm
  <2>3. Recorded(d)' /\ Checked(d)'
    BY <1>c, <2>1, <2>2 DEF Alive, Recorded, Checked
  <2> QED
    BY <2>1, <2>2, <2>3, MessageStepCalm DEF Alive, RowStep
<1>5. CASE RunBorg(d)
  <2>1. /\ deliv[d].pc = "borg" /\ UNCHANGED <<row, pass, api>>
        /\ \E r \in RunOutcome[TypeOf[j]] :
              deliv' = [deliv EXCEPT ![d].pc = "finishing",
                            ![d].result = IF row[j].cancel THEN "canceled" ELSE r]
    BY <1>5 DEF RunBorg
  <2>2. PICK r \in RunOutcome[TypeOf[j]] :
          deliv' = [deliv EXCEPT ![d].pc = "finishing",
                        ![d].result = IF row[j].cancel THEN "canceled" ELSE r]
    BY <2>1
  <2>3. /\ Rest /\ deliv'[d].pc = "finishing" /\ deliv'[d].fail = deliv[d].fail
        /\ deliv'[d].result = (IF row[j].cancel THEN "canceled" ELSE r)
    BY <2>2 DEF TypeOK, Delivery
  <2>4. /\ r \in {"successful", "failed", "error"}
        /\ TypeOf[j] = "check" => ~row[j].cancel /\ r = "successful"
    BY <1>1, <2>2, JobAssumption, TaskManagerAssumption DEF CalmInv, Uncanceled, Calm
  <2>5. Recorded(d)' /\ Checked(d)'
    BY <1>c, <2>1, <2>3, <2>4 DEF Alive, Recorded, Checked
  <2> QED
    BY <2>1, <2>3, <2>5, MessageStepCalm DEF Alive, RowStep
<1>6. CASE SaveResult(d)
  <2>1. /\ deliv[d].pc = "finishing" /\ SetStatus(j, deliv[d].result)
        /\ UNCHANGED <<pass, api>>
        /\ IF deliv[d].result = "successful"
           THEN deliv' = [deliv EXCEPT ![d] = NoDelivery] ELSE Advance(d, "failing")
    BY <1>6 DEF SaveResult
  <2>2. /\ deliv[d].result \in {"successful", "failed", "error", "canceled"}
        /\ TypeOf[j] = "check" => deliv[d].result = "successful"
    BY <1>c, <2>1 DEF Alive, Recorded, Checked
  <2>3. RowStep(j)
    BY <2>1, <2>2 DEF RowStep, Status, Busy, TypeOK, Row
  <2>4. CASE deliv[d].result = "successful"
    <3>1. Rest /\ ~Alive(d)'
      BY <2>1, <2>4 DEF TypeOK, NoDelivery, Alive
    <3> QED
      BY <2>1, <2>3, <3>1, MessageStepCalm DEF Alive
  <2>5. CASE deliv[d].result # "successful"
    <3>1. Rest /\ deliv'[d].pc = "failing" /\ deliv'[d].fail = deliv[d].fail
      BY <1>a, <1>b, <2>1, <2>5
    <3>2. Recorded(d)' /\ Checked(d)'
      BY <1>c, <1>s, <2>1, <2>2, <2>5, <3>1 DEF Alive, Recorded, Checked
    <3> QED
      BY <2>1, <2>3, <3>1, <3>2, MessageStepCalm DEF Alive
  <2> QED
    BY <2>4, <2>5
<1>7. CASE HandleWorkError(d)
  <2>1. /\ deliv[d].pc = "failing" /\ UNCHANGED <<pass, api>>
    BY <1>7 DEF HandleWorkError
  <2>2. TypeOf[j] # "check" /\ deliv[d].fail \subseteq {j}
    BY <1>c, <2>1 DEF Alive, Checked
  <2>3. /\ SetStatus(j, "failed") \/ UNCHANGED row
        /\ deliv' = [deliv EXCEPT ![d] = NoDelivery]
    BY <1>7, <2>2 DEF HandleWorkError
  <2>4. Rest /\ ~Alive(d)'
    BY <2>3 DEF TypeOK, NoDelivery, Alive
  <2>5. RowStep(j)
    BY <2>2, <2>3 DEF RowStep, Status, Busy, TypeOK, Row
  <2> QED
    BY <2>1, <2>4, <2>5, MessageStepCalm DEF Alive
<1>8. CASE ReportReady(d)
  <2>1. UNCHANGED <<row, pass, deliv, api>> /\ Alive(d)
    BY <1>8 DEF ReportReady, Alive
  <2>2. Recorded(d)' /\ Checked(d)'
    BY <1>c, <2>1 DEF Recorded, Checked
  <2> QED
    BY <2>1, <2>2, MessageStepCalm DEF RowStep
<1>9. CASE WorkerCrash(d)
  <2>1. /\ UNCHANGED <<row, pass, api>> /\ Alive(d)
        /\ deliv' = [deliv EXCEPT ![d] = NoDelivery]
    BY <1>9 DEF WorkerCrash, Executing, Alive
  <2>2. Rest /\ ~Alive(d)'
    BY <2>1 DEF TypeOK, NoDelivery, Alive
  <2> QED
    BY <2>1, <2>2, MessageStepCalm DEF RowStep
<1>10. CASE Redeliver(d)
  BY <1>10 DEF Redeliver, Calm
<1> QED
  BY <1>2, <1>3, <1>4, <1>5, <1>6, <1>7, <1>8, <1>9, <1>10 DEF WorkerStep

-----------------------------------------------------------------------------
(* Requests: a cancel sets a flag and leaves every status as it is.        *)

LEMMA CancelFlagCalm ==
    ASSUME Known, UNCHANGED <<pass, deliv>>,
           row' \in [Job -> Row],
           \A k \in Job : /\ row'[k].status = row[k].status
                          /\ TypeOf[k] = "check" => row'[k].cancel = row[k].cancel,
           api'.op \in {"none", "cancel"},
           api'.op = "cancel" =>
               TypeOf[api'.job] # "check" /\ api'.seen.status = "running"
    PROVE  CalmInv'
<1> USE DEF Known, pass
<1>0. PICK s \in Scheduler : Scheduler = {s}
  BY DEF Calm
<1>1. Messages'
  <2>1. \A d \in Job \X Slot : Alive(d) => Recorded(d)' /\ Checked(d)'
    BY DEF CalmInv, Messages, Recorded, Checked
  <2> QED
    BY <2>1 DEF CalmInv, Messages, Alive
<1>2. Uncanceled'
  BY DEF CalmInv, Uncanceled
<1>3. Current'
  <2>1. Marked(s)' = Marked(s)
    BY DEF Marked
  <2> QED
    BY <1>0, <2>1 DEF CalmInv, Current
<1>4. Sent'
  BY <1>0, SentJobs DEF CalmInv, Sent, Alive
<1>5. Exclusive'
  <2>1. \A k \in Job : View(s)'[k].status = View(s)[k].status
    BY <1>0 DEF View
  <2> QED
    BY <1>0, <2>1 DEF CalmInv, Exclusive, Conflict, Busy
<1> QED
  BY <1>1, <1>2, <1>3, <1>4, <1>5 DEF CalmInv

LEMMA UserCalm ==
    ASSUME Known, TypeOK', UserStep
    PROVE  CalmInv'
<1> USE DEF Known
<1>0. row' \in [Job -> Row]
  BY DEF TypeOK
<1>1. ASSUME NEW j \in Job, JobCancel(j)
      PROVE  CalmInv'
  <2>1. TypeOf[j] # "check" /\ row[j].status = "running"
    BY <1>1 DEF JobCancel, Calm
  <2>2. /\ UNCHANGED <<row, pass, deliv>>
        /\ api' = [op |-> "cancel", job |-> j, seen |-> row[j]]
    BY <1>1 DEF JobCancel, ReadJob
  <2> QED
    BY <1>0, <2>1, <2>2, CancelFlagCalm
<1>2. ASSUME NEW j \in Job, JobStart(j) \/ CleanOrphanJob(j)
      PROVE  FALSE
  BY <1>2 DEF JobStart, CleanOrphanJob, Calm
<1>3. CASE Cancel
  <2>1. /\ TypeOf[api.job] # "check" /\ api.seen.status = "running"
        /\ UNCHANGED <<pass, deliv>> /\ api' = NoRequest
        /\ \/ UNCHANGED row
           \/ row' = [row EXCEPT ![api.job] = CancelFields(@, api.seen)]
    BY <1>3 DEF Cancel, CalmInv, Uncanceled
  <2>2. ASSUME NEW r \in Row
        PROVE  CancelFields(r, api.seen).status = r.status
    BY <2>1 DEF CancelFields, Row
  <2>3. \A k \in Job : /\ row'[k].status = row[k].status
                       /\ TypeOf[k] = "check" => row'[k] = row[k]
    BY <2>1, <2>2 DEF TypeOK
  <2> QED
    BY <1>0, <2>1, <2>3, CancelFlagCalm DEF NoRequest
<1>4. CASE SignalStart \/ SaveOrphan
  BY <1>4 DEF SignalStart, SaveOrphan, CalmInv, Uncanceled
<1>5. ASSUME NEW c \in Client, MarkAsToUpdate(c)
      PROVE  CalmInv'
  <2>1. UNCHANGED <<row, pass, deliv, api>>
    BY <1>5 DEF MarkAsToUpdate
  <2> QED
    BY <1>0, <2>1, CancelFlagCalm DEF CalmInv, Uncanceled
<1> QED
  BY <1>1, <1>2, <1>3, <1>4, <1>5 DEF UserStep

-----------------------------------------------------------------------------
LEMMA CalmInit ==
    ASSUME Calm, Init
    PROVE  CalmInv
<1>1. PICK o \in Origins : row = o.row
  BY DEF Init
<1>2. \A j \in Job : ~Busy(row[j]) /\ (TypeOf[j] = "check" => ~row[j].cancel)
  BY <1>1 DEF Calm
<1>3. Messages
  BY DEF Init, Messages, Alive, NoDelivery
<1>4. Uncanceled
  BY <1>2 DEF Init, Uncanceled, NoRow, NoRequest
<1>5. Current
  BY DEF Init, Current, Inside
<1>6. Sent
  BY DEF Init, Sent
<1>7. Exclusive
  BY <1>2 DEF Init, Exclusive, View
<1> QED
  BY <1>3, <1>4, <1>5, <1>6, <1>7 DEF CalmInv

LEMMA CalmStep ==
    ASSUME Calm
    PROVE  TypeOK /\ PassShape /\ CalmInv /\ [Next]_vars => CalmInv'
<1> SUFFICES ASSUME Known, [Next]_vars
             PROVE  CalmInv'
  BY DEF Known
<1>1. CASE UNCHANGED vars
  <2>1. UNCHANGED <<row, pass, deliv, api>> /\ row' \in [Job -> Row]
    BY <1>1 DEF vars, pass, Known, TypeOK
  <2> QED
    BY <2>1, CancelFlagCalm DEF Known, CalmInv, Uncanceled
<1>2. CASE Next
  <2>1. TypeOK'
    BY <1>2, TypeStep DEF Known
  <2> QED
    BY <1>2, <2>1, PassCalm, WorkerCalm, UserCalm DEF Next
<1> QED
  BY <1>1, <1>2

LEMMA CalmInvariant ==
    ASSUME Calm
    PROVE  Spec => [](TypeOK /\ PassShape /\ CalmInv)
<1>1. Init => CalmInv
  BY CalmInit
<1>2. TypeOK /\ PassShape /\ CalmInv /\ [Next]_vars => CalmInv'
  BY CalmStep
<1> QED
  BY <1>1, <1>2, ShapeInvariant, PTL DEF Spec

\* Conflicting rows are never busy together, and a job that runs is busy.
LEMMA CalmExcludes ==
    ASSUME Known
    PROVE  ExclusiveExecution
<1> SUFFICES ASSUME NEW d \in Job \X Slot, NEW e \in Job \X Slot, d # e,
                    Runs(d), Runs(e)
             PROVE  d[1] # e[1] /\ ~Conflict(d[1], e[1])
  BY DEF ExclusiveExecution
<1> USE DEF Known
<1>1. /\ row[d[1]].status = "running" /\ row[e[1]].status = "running"
      /\ d[1] # e[1]
  BY DEF Runs, CalmInv, Messages, Alive, Recorded
<1>2. PICK s \in Scheduler : Scheduler = {s}
  BY DEF Calm
<1>3. d[1] \notin dirty[s] /\ e[1] \notin dirty[s]
  BY <1>1, <1>2 DEF CalmInv, Current, Startable
<1>4. Busy(View(s)[d[1]]) /\ Busy(View(s)[e[1]])
  BY <1>1, <1>3 DEF View, Busy
<1> QED
  BY <1>1, <1>2, <1>4 DEF CalmInv, Exclusive

\* Under Calm no two workers run conflicting jobs, whatever the job table, the
\* size of the pool, the answers of the inspector, the crashes of scheduler and
\* workers and the cancels of running jobs: is_job_blocked's counts suffice.
THEOREM Exclusion ==
    ASSUME Calm
    PROVE  Spec => []ExclusiveExecution
<1>1. TypeOK /\ PassShape /\ CalmInv => ExclusiveExecution
  BY CalmExcludes DEF Known
<1> QED
  BY <1>1, CalmInvariant, PTL

\* Under Calm the row of every job a worker runs says so, the fact on which the
\* exclusion rests: the tests of a pass read rows, not workers.
THEOREM RecordedRuns ==
    ASSUME Calm
    PROVE  Spec => []RunningIsRecorded
<1>1. TypeOK /\ PassShape /\ CalmInv => RunningIsRecorded
  BY DEF RunningIsRecorded, Runs, CalmInv, Messages, Alive, Recorded
<1> QED
  BY <1>1, CalmInvariant, PTL

-----------------------------------------------------------------------------
(* The refinement of ExclusiveRuns.                                        *)

\* A pass saves the row of a job that is not a preparation only if the job has
\* never been started.
FirstStart ==
    \A s \in Scheduler : \A j \in dirty[s] :
        TypeOf[j] # "check" => row[j].status \in {"absent", "pending", "waiting"}

Understood == Known /\ FirstStart

-----------------------------------------------------------------------------
(* FirstStart.                                                             *)

\* Workers and users leave the rows that a pass has saved as they are.
LEMMA LockedRows ==
    ASSUME TypeOK, Calm, CalmInv, NEW s \in Scheduler, NEW j \in dirty[s],
           \/ \E d \in Job \X Slot :
                WorkerStep(d) \/ ReportReady(d) \/ WorkerCrash(d) \/ Redeliver(d)
           \/ UserStep
    PROVE  row'[j] = row[j] /\ dirty' = dirty
<1>1. j \in Job /\ Locked(j)
  BY DEF TypeOK, Locked
<1>2. ASSUME NEW k, NEW st, SetStatus(k, st)
      PROVE  row'[j] = row[j]
  BY <1>1, <1>2 DEF SetStatus, TypeOK
<1>3. ASSUME NEW d \in Job \X Slot,
             WorkerStep(d) \/ ReportReady(d) \/ WorkerCrash(d) \/ Redeliver(d)
      PROVE  row'[j] = row[j] /\ dirty' = dirty
  BY <1>2, <1>3 DEF WorkerStep, PickUp, StopCanceled, BuildArgs, RunBorg, SaveResult,
     HandleWorkError, ReportReady, WorkerCrash, Redeliver, Unscheduled, pass
<1>4. CASE UserStep
  <2>1. ASSUME NEW k \in Job, JobCancel(k) \/ JobStart(k) \/ CleanOrphanJob(k)
        PROVE  row'[j] = row[j] /\ dirty' = dirty
    BY <2>1 DEF JobCancel, JobStart, CleanOrphanJob, ReadJob, pass
  <2>2. CASE Cancel
    BY <1>1, <2>2 DEF Cancel, TypeOK, pass
  <2>3. CASE SignalStart \/ SaveOrphan
    BY <2>3 DEF SignalStart, SaveOrphan, CalmInv, Uncanceled
  <2>4. ASSUME NEW c \in Client, MarkAsToUpdate(c)
        PROVE  row'[j] = row[j] /\ dirty' = dirty
    BY <2>4 DEF MarkAsToUpdate, pass
  <2> QED
    BY <1>4, <2>1, <2>2, <2>3, <2>4 DEF UserStep
<1> QED
  BY <1>3, <1>4

\* What a step of a pass adds to the rows it has saved.
LEMMA SavedRows ==
    ASSUME Understood, NEW s \in Scheduler, PassStep(s) \/ SchedulerCrash(s),
           ~Commit(s), NEW j \in dirty'[s]
    PROVE  /\ row' = row
           /\ TypeOf[j] # "check" => row[j].status \in {"absent", "pending", "waiting"}
<1> USE DEF Understood, Known, Others
<1> DEFINE Good(k) == TypeOf[k] # "check"
                        => row[k].status \in {"absent", "pending", "waiting"}
<1>0. \A k \in dirty[s] : k \in Job /\ Good(k)
  BY DEF FirstStart, TypeOK
<1>r. ASSUME Rollback(s), UNCHANGED Others
      PROVE  FALSE
  BY <1>r DEF Rollback, TypeOK
<1>1. CASE BeginPass(s) \/ ProcessPending(s) \/ ReleaseLock(s) \/ SendTask(s)
  BY <1>0, <1>1, <1>r DEF BeginPass, ProcessPending, ReleaseLock, SendTask
<1>2. CASE ProcessWaiting(s)
  <2>1. First(todo[s]) \in todo[s] /\ First(todo[s]) \in Job
    BY <1>2, FirstTodo DEF ProcessWaiting
  <2>2. row[First(todo[s])].status = "waiting"
    BY <1>2, <2>1 DEF ProcessWaiting, CalmInv, Current, Inside
  <2>3. dirty'[s] \subseteq dirty[s] \cup {First(todo[s])} /\ row' = row
    BY <1>2, <1>r DEF ProcessWaiting, Save, TypeOK
  <2> QED
    BY <1>0, <2>2, <2>3
<1>3. CASE GenerateDependencies(s)
  <2>1. PICK D \in SUBSET Job :
          /\ \A k \in D : k \in dirty'[s] \ dirty[s] => View(s)[k].status = "absent"
          /\ dirty'[s] \subseteq dirty[s] \cup D
          /\ row' = row
    <3>1. CASE dirty' = dirty
      BY <1>3, <3>1 DEF GenerateDependencies
    <3>2. CASE dirty' # dirty
      <4>1. PICK D \in DependencyChoices(s, First(todo[s])) :
              dirty' = [dirty EXCEPT ![s] =
                           @ \cup {p \in D : View(s)[p].status = "absent"}]
        BY <1>3, <3>2 DEF GenerateDependencies
      <4>2. First(todo[s]) \in Job
        BY <1>3, FirstTodo DEF GenerateDependencies
      <4>3. D \in SUBSET Job
        BY <4>1, <4>2, DependenciesAreChecks
      <4> QED
        BY <1>3, <4>1, <4>3 DEF GenerateDependencies, TypeOK
    <3> QED
      BY <3>1, <3>2
  <2>2. ASSUME j \notin dirty[s]
        PROVE  row[j].status = "absent"
    BY <2>1, <2>2 DEF View
  <2> QED
    BY <1>0, <2>1, <2>2
<1>4. CASE ProcessDependency(s)
  <2>1. /\ NextDependency(left[s]) \in Job
        /\ TypeOf[NextDependency(left[s])] = "check"
    BY <1>4, NextDependencyIsMember DEF ProcessDependency, TypeOK, CalmInv, Current
  <2>2. /\ dirty'[s] \subseteq dirty[s] \cup {NextDependency(left[s])}
        /\ row' = row
    BY <1>4, <1>r DEF ProcessDependency, StartTask, Save, TypeOK
  <2> QED
    BY <1>0, <2>1, <2>2
<1>5. CASE ProcessTask(s)
  <2> DEFINE k == First(todo[s])
  <2>1. k \in todo[s] /\ k \in Job /\ pc[s] = "deps"
    BY <1>5, FirstTodo DEF ProcessTask, PassShape
  <2>2. dirty'[s] \subseteq dirty[s] \cup {k} /\ row' = row
    BY <1>5, <1>r DEF ProcessTask, StartTask, Save, TypeOK
  <2>3. k \notin dirty[s] => row[k].status = "pending"
    <3>1. k \in Marked(s) => k \in dirty[s]
      BY <2>1 DEF CalmInv, Sent, Marked
    <3> QED
      BY <2>1, <3>1 DEF CalmInv, Current, Inside
  <2> QED
    BY <1>0, <2>2, <2>3
<1>6. CASE SchedulerCrash(s)
  BY <1>6, <1>r DEF SchedulerCrash
<1> QED
  BY <1>1, <1>2, <1>3, <1>4, <1>5, <1>6 DEF PassStep

\* FirstStart is an invariant of the passes, given the others.
LEMMA FirstStartStep ==
    ASSUME Understood, [Next]_vars
    PROVE  FirstStart'
<1> USE DEF Understood, Known
<1>0. PICK s \in Scheduler : Scheduler = {s}
  BY DEF Calm
<1>1. CASE UNCHANGED vars
  BY <1>1 DEF vars, pass, FirstStart
<1>2. CASE PassStep(s) \/ SchedulerCrash(s)
  <2>1. CASE Commit(s)
    BY <1>0, <2>1 DEF Commit, FirstStart, TypeOK
  <2>2. CASE ~Commit(s)
    BY <1>0, <1>2, <2>2, SavedRows DEF FirstStart
  <2> QED
    BY <2>1, <2>2
<1>3. CASE \/ \E d \in Job \X Slot :
                WorkerStep(d) \/ ReportReady(d) \/ WorkerCrash(d) \/ Redeliver(d)
           \/ UserStep
  <2>1. dirty' = dirty
    BY <1>3 DEF WorkerStep, PickUp, StopCanceled, BuildArgs, RunBorg, SaveResult,
       HandleWorkError, ReportReady, WorkerCrash, Redeliver, Unscheduled, pass,
       UserStep, JobCancel, JobStart, CleanOrphanJob, ReadJob, Cancel, SignalStart,
       SaveOrphan, MarkAsToUpdate
  <2> QED
    BY <1>0, <1>3, <2>1, LockedRows DEF FirstStart
<1> QED
  BY <1>0, <1>1, <1>2, <1>3 DEF Next

-----------------------------------------------------------------------------
(* Each step as seen by ExclusiveRuns.                                     *)

AbstractStep == [Abstract!RunNext]_<<Running, Over>>

\* No run begins or ends, and no status changes.
LEMMA SameRuns ==
    ASSUME \A d \in Job \X Slot : Runs(d)' <=> Runs(d),
           \A j \in Job : row'[j].status = row[j].status
    PROVE  AbstractStep
  BY DEF AbstractStep, Running, Over

\* A running job has one message, which no other conflicts with.
LEMMA RunningRows ==
    ASSUME Known, NEW d \in Job \X Slot, Runs(d)
    PROVE  /\ row[d[1]].status = "running"
           /\ \A e \in Job \X Slot : Alive(e) /\ e # d => e[1] # d[1]
           /\ \A e \in Job \X Slot :
                Alive(e) /\ e # d /\ Busy(row[e[1]]) => ~Conflict(d[1], e[1])
<1> USE DEF Known
<1>1. Alive(d) /\ row[d[1]].status = "running"
  BY DEF Runs, Alive, CalmInv, Messages, Recorded
<1>2. \A e \in Job \X Slot : Alive(e) /\ e # d => e[1] # d[1]
  BY <1>1 DEF CalmInv, Messages
<1>3. ASSUME NEW e \in Job \X Slot, Alive(e), e # d, Busy(row[e[1]])
      PROVE  ~Conflict(d[1], e[1])
  <2>1. PICK s \in Scheduler : Scheduler = {s}
    BY DEF Calm
  <2>2. d[1] \notin dirty[s] /\ e[1] \notin dirty[s]
    BY <1>1, <1>3, <2>1 DEF CalmInv, Current, Startable, Busy
  <2>3. Busy(View(s)[d[1]]) /\ Busy(View(s)[e[1]])
    BY <1>1, <1>3, <2>2 DEF View, Busy
  <2> QED
    BY <1>2, <1>3, <2>3 DEF CalmInv, Exclusive
<1> QED
  BY <1>1, <1>2, <1>3

\* The step of one message, seen from outside: only its run and its job change.
LEMMA MessageRuns ==
    ASSUME Known, NEW d \in Job \X Slot, Alive(d),
           \A e \in Job \X Slot : e # d => deliv'[e] = deliv[e],
           \A k \in Job : k # d[1] => row'[k] = row[k]
    PROVE  /\ \A n \in Slot : <<d[1], n>> # d => ~Runs(<<d[1], n>>)
           /\ Running' = (Running \ {d}) \cup (IF Runs(d)' THEN {d} ELSE {})
           /\ Over' = (Over \ {d[1]}) \cup
                (IF \/ row'[d[1]].status \in Finished
                    \/ row'[d[1]].status = "running" /\ ~Runs(d)'
                 THEN {d[1]} ELSE {})
           /\ d[1] \in Over <=> \/ row[d[1]].status \in Finished
                                \/ row[d[1]].status = "running" /\ ~Runs(d)
<1>1. \A e \in Job \X Slot : e # d => (Runs(e)' <=> Runs(e))
  BY DEF Runs
<1>2. \A n \in Slot : <<d[1], n>> # d => ~Runs(<<d[1], n>>)
  BY DEF Known, CalmInv, Messages, Alive, Runs
<1>3. d[1] \in Job /\ d[2] \in Slot /\ d = <<d[1], d[2]>>
  OBVIOUS
<1>4. /\ (\A n \in Slot : ~Runs(<<d[1], n>>)) <=> ~Runs(d)
      /\ (\A n \in Slot : ~Runs(<<d[1], n>>)') <=> ~Runs(d)'
  BY <1>1, <1>2, <1>3
<1>5. Running' = (Running \ {d}) \cup (IF Runs(d)' THEN {d} ELSE {})
  BY <1>1 DEF Running
<1>6. ASSUME NEW k \in Job, k # d[1]
      PROVE  k \in Over' <=> k \in Over
  BY <1>1, <1>6 DEF Over
<1>7. d[1] \in Over' <=> \/ row'[d[1]].status \in Finished
                         \/ row'[d[1]].status = "running" /\ ~Runs(d)'
  BY <1>3, <1>4 DEF Over
<1>8. d[1] \in Over <=> \/ row[d[1]].status \in Finished
                        \/ row[d[1]].status = "running" /\ ~Runs(d)
  BY <1>3, <1>4 DEF Over
<1>9. Over \subseteq Job /\ Over' \subseteq Job
  BY DEF Over
<1> QED
  BY <1>2, <1>5, <1>6, <1>7, <1>8, <1>9

\* The end of a run.
LEMMA EndOfRun ==
    ASSUME Known, NEW d \in Job \X Slot, Runs(d), ~Runs(d)',
           \A e \in Job \X Slot : e # d => deliv'[e] = deliv[e],
           \A k \in Job : k # d[1] => row'[k] = row[k],
           row'[d[1]].status \in Finished \cup {"running"}
    PROVE  AbstractStep
<1>1. Alive(d)
  BY DEF Runs, Alive
<1>2. Running' = Running \ {d} /\ Over' = Over \cup {d[1]} /\ d \in Running
  BY <1>1, MessageRuns DEF Running
<1>3. Abstract!End(d)
  BY <1>2 DEF Abstract!End
<1> QED
  BY <1>3 DEF AbstractStep, Abstract!RunNext

\* A step of a message that is not about a run, nor begins one, and leaves the
\* row of its job finished, or running, if it was.
LEMMA NoRunStep ==
    ASSUME Known, NEW d \in Job \X Slot, Alive(d), ~Runs(d), ~Runs(d)',
           \A e \in Job \X Slot : e # d => deliv'[e] = deliv[e],
           \A k \in Job : k # d[1] => row'[k] = row[k],
           row'[d[1]].status \in Finished \cup {"running"}
    PROVE  AbstractStep
<1>1. /\ Running' = Running /\ Over' = Over \cup {d[1]}
      /\ \A n \in Slot : ~Runs(<<d[1], n>>)
  <2>1. d \notin Running
    BY DEF Running
  <2>2. \A n \in Slot : ~Runs(<<d[1], n>>)
    BY MessageRuns
  <2> QED
    BY <2>1, <2>2, MessageRuns
<1>2. \A e \in Running : e[1] # d[1]
  BY <1>1 DEF Running
<1>3. d[1] \in Job
  OBVIOUS
<1>4. Abstract!Withdraw(d[1])
  BY <1>1, <1>2 DEF Abstract!Withdraw
<1> QED
  BY <1>3, <1>4 DEF AbstractStep, Abstract!RunNext

LEMMA PickUpRuns ==
    ASSUME Known, NEW d \in Job \X Slot, PickUp(d)
    PROVE  AbstractStep
<1> USE DEF Known
<1>1. /\ deliv[d].pc = "queued" /\ Alive(d) /\ ~Runs(d)
      /\ row[d[1]].status = "starting"
      /\ SetStatus(d[1], "running")
      /\ Advance(d, IF row[d[1]].cancel THEN "canceling" ELSE "started")
  BY DEF PickUp, Alive, Runs, CalmInv, Messages, Recorded
<1>2. /\ \A e \in Job \X Slot : e # d => deliv'[e] = deliv[e]
      /\ deliv'[d].pc = (IF row[d[1]].cancel THEN "canceling" ELSE "started")
      /\ \A k \in Job : k # d[1] => row'[k] = row[k]
      /\ row'[d[1]].status = "running"
  BY <1>1 DEF Advance, SetStatus, TypeOK, Delivery, Row
<1>3. CASE row[d[1]].cancel
  BY <1>1, <1>2, <1>3, NoRunStep DEF Runs
<1>4. CASE ~row[d[1]].cancel
  <2>1. Runs(d)'
    BY <1>2, <1>4 DEF Runs
  <2>2. d[1] \notin Over
    BY <1>1, <1>2, MessageRuns DEF Finished
  <2>3. Running' = Running \cup {d} /\ Over' = Over
    <3>1. d \notin Running
      BY <1>1 DEF Running
    <3> QED
      BY <1>1, <1>2, <2>1, <2>2, <3>1, MessageRuns DEF Finished
  <2>4. ASSUME NEW e \in Running
        PROVE  d[1] # e[1] /\ <<d[1], e[1]>> \notin ConflictPairs
    <3>1. e \in Job \X Slot /\ Runs(e) /\ e # d
      BY <1>1, <2>4 DEF Running
    <3>2. d[1] # e[1] /\ ~Conflict(e[1], d[1])
      BY <1>1, <3>1, RunningRows DEF Busy
    <3> QED
      BY <3>2 DEF ConflictPairs, Conflict
  <2>5. Abstract!Begin(d)
    BY <2>2, <2>3, <2>4 DEF Abstract!Begin
  <2> QED
    BY <2>5 DEF AbstractStep, Abstract!RunNext
<1> QED
  BY <1>3, <1>4

LEMMA WorkerRuns ==
    ASSUME Known, NEW d \in Job \X Slot,
           WorkerStep(d) \/ ReportReady(d) \/ WorkerCrash(d) \/ Redeliver(d)
    PROVE  AbstractStep
<1> USE DEF Known
<1> DEFINE j == d[1]
           Rest == \A e \in Job \X Slot : e # d => deliv'[e] = deliv[e]
           Rows == \A k \in Job : k # j => row'[k] = row[k]
<1>1. Alive(d) => Recorded(d) /\ Checked(d)
  BY DEF CalmInv, Messages
<1>2. ASSUME NEW p \in {"borg", "failing"}, Advance(d, p)
      PROVE  Rest /\ deliv'[d].pc = p
  BY <1>2 DEF Advance, TypeOK, Delivery
<1>3. ASSUME NEW st \in Status, SetStatus(j, st)
      PROVE  Rows /\ row'[j].status = st
  BY <1>3 DEF SetStatus, TypeOK, Row
<1>n. deliv' = [deliv EXCEPT ![d] = NoDelivery] => Rest /\ ~Runs(d)'
  BY DEF NoDelivery, Runs, TypeOK
<1>4. CASE PickUp(d)
  BY <1>4, PickUpRuns
<1>5. CASE StopCanceled(d)
  <2>1. /\ Alive(d) /\ ~Runs(d) /\ Rest /\ ~Runs(d)' /\ Rows
        /\ row'[j].status = "canceled"
    BY <1>2, <1>3, <1>5 DEF StopCanceled, Alive, Runs, Status
  <2> QED
    BY <2>1, NoRunStep DEF Finished
<1>6. CASE BuildArgs(d)
  <2>1. /\ Runs(d) /\ Rest /\ row' = row /\ deliv'[d].pc \in {"borg", "failing"}
    BY <1>2, <1>6 DEF BuildArgs, Runs
  <2>2. CASE Runs(d)'
    BY <2>1, <2>2, SameRuns DEF Runs
  <2>3. CASE ~Runs(d)'
    BY <2>1, <2>3, RunningRows, EndOfRun
  <2> QED
    BY <2>2, <2>3
<1>7. CASE RunBorg(d)
  <2>1. /\ row' = row /\ Runs(d) /\ Rest /\ deliv'[d].pc = "finishing"
    BY <1>7 DEF RunBorg, Runs, TypeOK, Delivery
  <2> QED
    BY <2>1, SameRuns DEF Runs
<1>8. CASE SaveResult(d)
  <2>1. /\ Runs(d) /\ deliv[d].result \in Finished
        /\ SetStatus(j, deliv[d].result)
    BY <1>1, <1>8 DEF SaveResult, Runs, Alive, Recorded, Finished
  <2>2. Rest /\ ~Runs(d)'
    BY <1>2, <1>8, <1>n DEF SaveResult, Runs
  <2>3. Rows /\ row'[j].status \in Finished
    BY <1>3, <2>1 DEF Finished, Status
  <2> QED
    BY <2>1, <2>2, <2>3, EndOfRun
<1>9. CASE HandleWorkError(d)
  <2>1. deliv[d].pc = "failing" /\ Alive(d) /\ ~Runs(d)
    BY <1>9 DEF HandleWorkError, Alive, Runs
  <2>2. deliv[d].fail \subseteq {j}
    BY <1>1, <2>1 DEF Checked
  <2>3. /\ SetStatus(j, "failed") \/ UNCHANGED row
        /\ deliv' = [deliv EXCEPT ![d] = NoDelivery]
    BY <1>9, <2>2 DEF HandleWorkError
  <2>4. row[j].status \in Finished \cup {"running"}
    BY <1>1, <2>1 DEF Recorded, Finished
  <2>5. Rows /\ row'[j].status \in Finished \cup {"running"}
    BY <1>3, <2>3, <2>4 DEF Status, Finished
  <2> QED
    BY <1>n, <2>1, <2>3, <2>5, NoRunStep
<1>10. CASE ReportReady(d)
  BY <1>10, SameRuns DEF ReportReady, Runs
<1>11. CASE WorkerCrash(d)
  <2>1. /\ Alive(d) /\ row' = row /\ Rest /\ ~Runs(d)'
        /\ deliv[d].pc \notin {"none", "queued"}
    BY <1>11, <1>n DEF WorkerCrash, Executing, Alive
  <2>2. CASE Runs(d)
    BY <2>1, <2>2, RunningRows, EndOfRun
  <2>3. CASE ~Runs(d)
    BY <2>1, <2>3, SameRuns DEF Runs
  <2> QED
    BY <2>2, <2>3
<1>12. CASE Redeliver(d)
  BY <1>12 DEF Redeliver, Calm
<1> QED
  BY <1>4, <1>5, <1>6, <1>7, <1>8, <1>9, <1>10, <1>11, <1>12 DEF WorkerStep

\* The rounds of a pass are invisible; its commit may take preparations up again.
LEMMA PassRuns ==
    ASSUME Understood, NEW s \in Scheduler, PassStep(s) \/ SchedulerCrash(s)
    PROVE  AbstractStep
<1> USE DEF Understood, Known, Others
<1>1. CASE Commit(s)
  <2>1. row' = View(s) /\ deliv' = deliv
    BY <1>1 DEF Commit
  <2>2. Running' = Running
    BY <2>1 DEF Running, Runs
  <2>3. ASSUME NEW k \in Job
        PROVE  /\ k \in Over' => k \in Over
               /\ k \in Over \ Over' => k \in Preparations
    <3>1. CASE k \notin dirty[s]
      BY <2>1, <3>1 DEF View, Over, Runs
    <3>2. CASE k \in dirty[s]
      <4>1. /\ row[k].status \in Startable
            /\ row'[k].status \in {"pending", "starting"}
        BY <2>1, <3>2 DEF CalmInv, Current, View
      <4>2. TypeOf[k] # "check" => row[k].status \in {"absent", "pending", "waiting"}
        BY <3>2 DEF FirstStart
      <4> QED
        BY <4>1, <4>2 DEF Over, Finished, Preparations
    <3> QED
      BY <3>1, <3>2
  <2>4. Abstract!Repeat
    BY <2>2, <2>3 DEF Abstract!Repeat, Over
  <2> QED
    BY <2>4 DEF AbstractStep, Abstract!RunNext
<1>2. CASE SendTask(s)
  <2>1. row' = row
    BY <1>2 DEF SendTask
  <2>m. PICK m \in sends[s] : \E n \in FreeSlots(m.job) :
          deliv' = [deliv EXCEPT ![<<m.job, n>>] =
                       [pc |-> "queued", fail |-> m.fail, result |-> "absent"]]
    BY <1>2 DEF SendTask
  <2>2. PICK n \in FreeSlots(m.job) :
          deliv' = [deliv EXCEPT ![<<m.job, n>>] =
                       [pc |-> "queued", fail |-> m.fail, result |-> "absent"]]
    BY <2>m
  <2>3. deliv[<<m.job, n>>].pc = "none" /\ <<m.job, n>> \in Job \X Slot
    BY <2>2, SentJobs DEF FreeSlots
  <2>4. \A d \in Job \X Slot : Runs(d)' <=> Runs(d)
    BY <2>2, <2>3 DEF TypeOK, Runs
  <2> QED
    BY <2>1, <2>4, SameRuns
<1>3. CASE ~Commit(s) /\ ~SendTask(s)
  <2>1. row' = row /\ deliv' = deliv
    BY <1>3 DEF PassStep, SchedulerCrash, BeginPass, ProcessWaiting, ProcessPending,
       GenerateDependencies, ProcessDependency, ProcessTask, ReleaseLock
  <2> QED
    BY <2>1, SameRuns DEF Runs
<1> QED
  BY <1>1, <1>2, <1>3

\* Requests begin and end no run, and cancels of running jobs change no status.
LEMMA UserRuns ==
    ASSUME Known, UserStep
    PROVE  AbstractStep
<1> USE DEF Known
<1>1. deliv' = deliv
  BY DEF UserStep, JobCancel, JobStart, CleanOrphanJob, ReadJob, Cancel, SignalStart,
     SaveOrphan, MarkAsToUpdate
<1>2. \A k \in Job : row'[k].status = row[k].status
  <2>1. CASE Cancel
    <3>1. api.seen.status = "running"
      BY <2>1 DEF Cancel, CalmInv, Uncanceled
    <3>2. \A r \in Row : CancelFields(r, api.seen).status = r.status
      BY <3>1 DEF CancelFields, Row
    <3> QED
      BY <2>1, <3>2 DEF Cancel, TypeOK
  <2>2. CASE SignalStart \/ SaveOrphan
    BY <2>2 DEF SignalStart, SaveOrphan, CalmInv, Uncanceled
  <2>3. CASE ~Cancel /\ ~SignalStart /\ ~SaveOrphan
    BY <2>3 DEF UserStep, JobCancel, JobStart, CleanOrphanJob, ReadJob, MarkAsToUpdate
  <2> QED
    BY <2>1, <2>2, <2>3
<1> QED
  BY <1>1, <1>2, SameRuns DEF Runs

-----------------------------------------------------------------------------
\* Under Calm TaskManager implements ExclusiveRuns: conflicting jobs never run
\* together, and the passes, for all the older copies they save, never take up a
\* backup, catalog or prune job that has run or was called off.
THEOREM Refinement ==
    ASSUME Calm
    PROVE  Spec => ImplementsRuns
<1> DEFINE Inv == TypeOK /\ PassShape /\ CalmInv
<1>1. Init => FirstStart /\ Abstract!RunInit
  BY DEF Init, FirstStart, Abstract!RunInit, Running, Runs, NoDelivery, Over
<1>2. Inv /\ FirstStart /\ [Next]_vars => FirstStart'
  BY FirstStartStep DEF Understood, Known
<1>3. Inv /\ FirstStart /\ [Next]_vars => [Abstract!RunNext]_<<Running, Over>>
  <2> SUFFICES ASSUME Understood, [Next]_vars
               PROVE  AbstractStep
    BY DEF Understood, Known, AbstractStep
  <2>1. CASE UNCHANGED vars
    BY <2>1, SameRuns DEF vars, Runs
  <2>2. CASE Next
    BY <2>2, PassRuns, WorkerRuns, UserRuns DEF Next, Understood
  <2> QED
    BY <2>1, <2>2
<1> QED
  BY <1>1, <1>2, <1>3, CalmInvariant, PTL DEF Spec, ImplementsRuns, Abstract!RunSpec

-----------------------------------------------------------------------------
(***************************************************************************)
(* No dependency is overtaken.  Chained adds two facts to Calm: the jobs   *)
(* of type check are preparations (a policy that only checks would have    *)
(* one that is taken for a preparation and prepared in its turn), and a    *)
(* row waits for nothing at first but for a job that is none and has its   *)
(* repository or its client, as create_job makes them.  The 'starting' row *)
(* that dependent_jobs_finished lets pass is then one of the two counts.   *)
(***************************************************************************)
Linked(x, r) ==
    r.dep # None => /\ r.dep \notin Dependency
                    /\ RepoOf[x] = PolicyRepo[r.dep] \/ ClientOf[x] = ClientOf[r.dep]
Chained ==
    /\ Calm
    /\ \A j \in Job : TypeOf[j] = "check" => j \in Dependency
    /\ \A o \in Origins : \A x \in Job : Linked(x, o.row[x])

\* Still to come, or under way.
Live == ActiveStates \cup {"starting"}

Links ==
    /\ \A x \in Job : Linked(x, row[x])
    /\ \A s \in Scheduler : \A x \in dirty[s] : Linked(x, obj[s][x])
\* The copies a pass may start a job from say what the job waits for.
Copied ==
    \A s \in Scheduler : \A j \in Job :
        /\ j \in dirty[s] /\ row[j].status # "absent" => obj[s][j].dep = row[j].dep
        /\ \/ pc[s] \in Inside /\ obj[s][j].status \in {"pending", "waiting"}
           \/ pc[s] = "deps" /\ j \in left[s]
           => obj[s][j].dep = View(s)[j].dep
\* Only a preparation is visited after it was started, as a dependency.
Unmarked ==
    \A s \in Scheduler : pc[s] \in {"pending", "deps"} =>
        \A j \in todo[s] : j \in Marked(s) => TypeOf[j] = "check"
\* NoOvertaking, as a pass sees the table.
Kept ==
    \A s \in Scheduler : \A x, y \in Job :
        View(s)[x].dep = y /\ Busy(View(s)[y]) => View(s)[x].status \notin Live
\* A dependency that may still be started comes before the job it is for.
Awaited ==
    \A s \in Scheduler : pc[s] = "deps" =>
        \A x \in left[s], y \in Job : View(s)[x].dep = y => ~Busy(View(s)[y])
DepInv == Links /\ Copied /\ Unmarked /\ Kept /\ Awaited

Waits == Known /\ Chained /\ DepInv

LEMMA ViewLinked ==
    ASSUME Links, NEW s \in Scheduler, NEW x \in Job
    PROVE  Linked(x, View(s)[x])
  BY DEF Links, View

\* A preparation does not wait for itself.
LEMMA NotItsOwn ==
    ASSUME Links, NEW s \in Scheduler, NEW x \in Job, x \in Dependency
    PROVE  View(s)[x].dep # x
<1>1. None \notin Job
  BY JobAssumption
<1> QED
  BY <1>1, ViewLinked DEF Linked

\* What a pass has saved overtakes nothing in the table it has not reached yet.
LEMMA RowsKept ==
    ASSUME Waits, NEW s \in Scheduler, NEW x \in Job, NEW y \in Job,
           row[x].dep = y, Busy(row[y])
    PROVE  row[x].status \notin Live
<1> USE DEF Waits, Known, DepInv
<1>1. y \notin dirty[s]
  BY DEF CalmInv, Current, Busy, Startable
<1>2. View(s)[y] = row[y]
  BY <1>1 DEF View
<1>3. CASE x \notin dirty[s]
  <2>1. View(s)[x] = row[x]
    BY <1>3 DEF View
  <2> QED
    BY <1>2, <2>1 DEF Kept
<1>4. CASE x \in dirty[s]
  <2>1. View(s)[x] = obj[s][x] /\ obj[s][x].status \in Live
    BY <1>4 DEF View, CalmInv, Current, Live, ActiveStates
  <2>2. obj[s][x].dep # y
    BY <1>2, <2>1 DEF Kept
  <2>3. row[x].status = "absent"
    BY <1>4, <2>2 DEF Copied
  <2> QED
    BY <2>3 DEF Live, ActiveStates
<1> QED
  BY <1>3, <1>4

\* A step that starts nothing.
LEMMA MildWaits ==
    ASSUME Waits, NEW s \in Scheduler, Links', Copied', Unmarked',
           \A k \in Job : /\ View(s)'[k].dep = View(s)[k].dep
                          /\ Busy(View(s)'[k]) => Busy(View(s)[k])
                          /\ View(s)'[k].status \in Live => View(s)[k].status \in Live,
           pc'[s] = "deps" => pc[s] = "deps" /\ left'[s] \in SUBSET left[s]
    PROVE  DepInv'
<1> USE DEF Waits, Known, DepInv
<1>0. Scheduler = {s}
  BY OneScheduler
<1>1. Kept'
  BY <1>0 DEF Kept
<1>2. Awaited'
  BY <1>0 DEF Awaited, TypeOK
<1> QED
  BY <1>1, <1>2

LEMMA RollbackWaits ==
    ASSUME Waits, NEW s \in Scheduler, Rollback(s), UNCHANGED Others
    PROVE  DepInv'
<1> USE DEF Waits, Known, DepInv, Others
<1>0. Scheduler = {s}
  BY OneScheduler
<1>1. pc'[s] = "idle" /\ dirty'[s] = {}
  BY DEF Rollback, TypeOK
<1>2. \A k \in Job : View(s)'[k] = row[k]
  BY <1>1 DEF View
<1>3. Links' /\ Copied' /\ Unmarked' /\ Awaited'
  BY <1>0, <1>1 DEF Links, Copied, Unmarked, Awaited, Inside
<1>4. Kept'
  BY <1>0, <1>2, RowsKept DEF Kept
<1> QED
  BY <1>3, <1>4

LEMMA StartWaits ==
    ASSUME Waits, NEW s \in Scheduler, NEW j \in Job, NEW F \in SUBSET Job,
           StartTask(s, j, obj[s][j], F), row' = row,
           ~RaisesNoClient(View(s), Marked(s), j),
           ~IsJobBlocked(View(s), Marked(s), j),
           pc[s] = "deps", pc'[s] \in {"deps", "pending"},
           left'[s] \in SUBSET left[s], todo'[s] \in SUBSET todo[s],
           TypeOf[j] # "check" => j \notin todo'[s],
           pc'[s] = "deps" => j \in Dependency,
           obj[s][j].dep = View(s)[j].dep, View(s)[j].dep # j,
           \A y \in Job : View(s)[j].dep = y => ~Busy(View(s)[y])
    PROVE  DepInv'
<1> USE DEF Waits, Known, DepInv
<1> DEFINE r == [obj[s][j] EXCEPT !.status = "starting"]
<1>0. Scheduler = {s}
  BY OneScheduler
<1>1. r.status = "starting" /\ r.dep = obj[s][j].dep
  BY DEF TypeOK, Row
<1>2. /\ dirty'[s] = dirty[s] \cup {j}
      /\ \A k \in Job : obj'[s][k] = IF k = j THEN r ELSE obj[s][k]
      /\ sends'[s] = sends[s] \cup {[job |-> j, fail |-> F]}
  BY DEF StartTask, Save, TypeOK
<1>3. \A k \in Job : View(s)'[k] = IF k = j THEN r ELSE View(s)[k]
  BY <1>2 DEF View
<1>4. \A k \in Job : View(s)'[k].dep = View(s)[k].dep
  BY <1>1, <1>3
<1>5. Links'
  <2>1. Linked(j, r)
    BY <1>1, ViewLinked DEF Linked
  <2>2. \A x \in dirty'[s] : x \in Job /\ (x = j \/ x \in dirty[s])
    BY <1>2 DEF TypeOK
  <2>3. ASSUME NEW x \in dirty'[s]
        PROVE  Linked(x, obj'[s][x])
    <3>1. CASE x = j
      BY <1>2, <2>1, <3>1
    <3>2. CASE x # j
      BY <1>2, <2>2, <3>2 DEF Links
    <3> QED
      BY <3>1, <3>2
  <2>4. \A x \in Job : Linked(x, row'[x])
    BY DEF Links
  <2> QED
    BY <1>0, <2>3, <2>4 DEF Links, Linked
<1>6. Copied'
  <2>1. ASSUME NEW k \in Job, k \in dirty'[s], row[k].status # "absent"
        PROVE  obj'[s][k].dep = row[k].dep
    <3>1. CASE k = j
      <4>1. View(s)[j].dep = row[j].dep
        BY <2>1, <3>1 DEF View, Copied
      <4> QED
        BY <1>1, <1>2, <3>1, <4>1
    <3>2. CASE k # j
      BY <1>2, <2>1, <3>2 DEF Copied
    <3> QED
      BY <3>1, <3>2
  <2>2. ASSUME NEW k \in Job,
               \/ pc'[s] \in Inside /\ obj'[s][k].status \in {"pending", "waiting"}
               \/ pc'[s] = "deps" /\ k \in left'[s]
        PROVE  obj'[s][k].dep = View(s)'[k].dep
    <3>1. CASE k = j
      BY <1>1, <1>2, <1>3, <3>1
    <3>2. CASE k # j
      BY <1>2, <1>3, <2>2, <3>2 DEF Copied, Inside
    <3> QED
      BY <3>1, <3>2
  <2>3. ASSUME NEW k \in Job
        PROVE  /\ k \in dirty'[s] /\ row'[k].status # "absent"
                     => obj'[s][k].dep = row'[k].dep
               /\ \/ pc'[s] \in Inside /\ obj'[s][k].status \in {"pending", "waiting"}
                  \/ pc'[s] = "deps" /\ k \in left'[s]
                  => obj'[s][k].dep = View(s)'[k].dep
    BY <2>1, <2>2
  <2> QED
    BY <1>0, <2>3 DEF Copied
<1>7. Unmarked'
  <2>1. Marked(s)' \subseteq Marked(s) \cup {j}
    BY <1>2 DEF Marked
  <2> QED
    BY <1>0, <2>1 DEF Unmarked
<1>8. ~Busy(View(s)[j]) /\ j \notin Marked(s)
  BY UnblockedJob
<1>9. Kept'
  <2> SUFFICES ASSUME NEW x \in Job, NEW y \in Job,
                      View(s)[x].dep = y, Busy(View(s)'[y]),
                      View(s)'[x].status \in Live
               PROVE  FALSE
    BY <1>0, <1>4 DEF Kept
  <2>1. CASE x = j
    BY <1>3, <2>1
  <2>2. CASE y = j /\ x # j
    <3>1. View(s)[x].status = "starting"
      BY <1>3, <1>8, <2>2 DEF IsJobBlocked, DependentJobsFinished, Live
    <3>2. RepoOf[x] = PolicyRepo[j] \/ ClientOf[x] = ClientOf[j]
      BY <2>2, ViewLinked, JobAssumption DEF Linked
    <3> QED
      BY <3>1, <3>2 DEF IsJobBlocked, SameRepoJobs, SameClientJobs, Busy
  <2>3. CASE x # j /\ y # j
    BY <1>3, <2>3 DEF Kept
  <2> QED
    BY <2>1, <2>2, <2>3
<1>10. Awaited'
  <2> SUFFICES ASSUME pc'[s] = "deps", NEW x \in left'[s], NEW y \in Job,
                      View(s)[x].dep = y, Busy(View(s)'[y])
               PROVE  FALSE
    BY <1>0, <1>4 DEF Awaited, TypeOK
  <2>1. x \in left[s] /\ x \in Job
    BY DEF TypeOK
  <2>2. y \notin Dependency
    BY <2>1, ViewLinked, JobAssumption DEF Linked
  <2>3. View(s)'[y] = View(s)[y]
    BY <1>3, <2>2
  <2> QED
    BY <2>1, <2>3 DEF Awaited
<1> QED
  BY <1>5, <1>6, <1>7, <1>9, <1>10
LEMMA ProcessWaitingWaits ==
    ASSUME Waits, NEW s \in Scheduler, ProcessWaiting(s)
    PROVE  DepInv'
<1> USE DEF Waits, Known, DepInv, Others
<1> DEFINE j == First(todo[s])
           r == [obj[s][j] EXCEPT !.status = "pending"]
<1>0. Scheduler = {s}
  BY OneScheduler
<1>1. CASE Rollback(s)
  BY <1>1, RollbackWaits DEF ProcessWaiting
<1>2. CASE ~Rollback(s)
  <2>1. j \in todo[s] /\ j \in Job
    BY FirstTodo DEF ProcessWaiting
  <2>2. /\ pc[s] = "waiting" /\ pc' = pc /\ row' = row
        /\ \/ UNCHANGED <<obj, dirty>>
           \/ /\ obj'[s] = [obj[s] EXCEPT ![j] = r]
              /\ dirty'[s] = dirty[s] \cup {j}
    BY <1>2 DEF ProcessWaiting, Save, TypeOK
  <2>3. j \notin dirty[s] /\ obj[s][j].status = "waiting" /\ row[j].status = "waiting"
    BY <2>1, <2>2 DEF CalmInv, Current, Inside
  <2>4. r.status = "pending" /\ r.dep = obj[s][j].dep /\ r.dep = row[j].dep
    BY <2>1, <2>2, <2>3 DEF TypeOK, Row, Copied, Inside, View
  <2>5. CASE UNCHANGED <<obj, dirty>>
    <3>1. \A k \in Job : View(s)'[k] = View(s)[k]
      BY <2>2, <2>5 DEF View
    <3>2. Links'
      BY <2>2, <2>5 DEF Links, Linked
    <3>3. Copied' /\ Unmarked'
      BY <1>0, <2>2, <2>5, <3>1 DEF Copied, Unmarked
    <3> QED
      BY <2>2, <3>1, <3>2, <3>3, MildWaits
  <2>6. CASE /\ obj'[s] = [obj[s] EXCEPT ![j] = r]
             /\ dirty'[s] = dirty[s] \cup {j}
    <3>1. \A k \in Job : obj'[s][k] = IF k = j THEN r ELSE obj[s][k]
      BY <2>1, <2>6 DEF TypeOK
    <3>2. \A k \in Job : View(s)'[k] = IF k = j THEN r ELSE View(s)[k]
      BY <2>2, <2>6, <3>1 DEF View
    <3>3. View(s)[j] = row[j]
      BY <2>1, <2>3 DEF View
    <3>4. \A k \in Job :
            /\ View(s)'[k].dep = View(s)[k].dep
            /\ Busy(View(s)'[k]) => Busy(View(s)[k])
            /\ View(s)'[k].status \in Live => View(s)[k].status \in Live
      BY <2>3, <2>4, <3>2, <3>3 DEF Busy, Live, ActiveStates
    <3>5. \A x \in dirty'[s] : Linked(x, obj'[s][x])
      <4>1. Linked(j, r)
        BY <2>1, <2>4 DEF Links, Linked
      <4>2. ASSUME NEW x \in dirty'[s]
            PROVE  x \in Job /\ (x = j \/ x \in dirty[s])
        BY <2>1, <2>6, <4>2 DEF TypeOK
      <4>3. \A x \in dirty[s] : Linked(x, obj[s][x])
        BY DEF Links
      <4> QED
        BY <3>1, <4>1, <4>2, <4>3
    <3>6. Links'
      BY <1>0, <2>2, <3>5 DEF Links, Linked
    <3>7. ASSUME NEW k \in Job
          PROVE  /\ k \in dirty'[s] /\ row[k].status # "absent"
                       => obj'[s][k].dep = row[k].dep
                 /\ obj'[s][k].status \in {"pending", "waiting"}
                       => obj'[s][k].dep = View(s)'[k].dep
      <4>1. CASE k = j
        BY <2>4, <3>1, <3>2, <4>1
      <4>2. CASE k # j
        BY <2>2, <2>6, <3>1, <3>2, <4>2 DEF Copied, Inside
      <4> QED
        BY <4>1, <4>2
    <3>8. Copied' /\ Unmarked'
      BY <1>0, <2>2, <3>7 DEF Copied, Unmarked
    <3> QED
      BY <2>2, <3>4, <3>6, <3>8, MildWaits
  <2> QED
    BY <2>2, <2>5, <2>6
<1> QED
  BY <1>1, <1>2

LEMMA GenerateDependenciesWaits ==
    ASSUME Waits, NEW s \in Scheduler, GenerateDependencies(s)
    PROVE  DepInv'
<1> USE DEF Waits, Known, DepInv, Others
<1> DEFINE j == First(todo[s])
           new(D) == {p \in D : View(s)[p].status = "absent"}
<1>0. Scheduler = {s}
  BY OneScheduler
<1>1. j \in Job /\ j \in todo[s] /\ pc[s] = "pending"
  BY FirstTodo DEF GenerateDependencies
<1>2. row' = row /\ Marked(s)' = Marked(s)
  BY DEF GenerateDependencies, Marked
<1>3. CASE DependencyChoices(s, j) = {}
  <2>1. /\ pc' = pc /\ obj' = obj /\ dirty' = dirty
        /\ todo'[s] = todo[s] \ {j}
    BY <1>3 DEF GenerateDependencies, TypeOK
  <2>2. \A k \in Job : View(s)'[k] = View(s)[k]
    BY <1>2, <2>1 DEF View
  <2>3. Links'
    BY <1>2, <2>1 DEF Links, Linked
  <2>4. Copied' /\ Unmarked'
    BY <1>0, <1>1, <1>2, <2>1, <2>2 DEF Copied, Unmarked
  <2> QED
    BY <1>1, <2>1, <2>2, <2>3, <2>4, MildWaits
<1>4. CASE DependencyChoices(s, j) # {}
  <2>1. PICK D \in DependencyChoices(s, j) :
          /\ left' = [left EXCEPT ![s] = D]
          /\ obj' = [obj EXCEPT ![s] = [k \in Job |->
                        IF k \in new(D) THEN PrepRow(j)
                        ELSE IF k \in D THEN View(s)[k] ELSE @[k]]]
          /\ dirty' = [dirty EXCEPT ![s] = @ \cup new(D)]
          /\ pc' = [pc EXCEPT ![s] = "deps"]
          /\ UNCHANGED todo
    BY <1>4 DEF GenerateDependencies
  <2>2. D \in SUBSET {k \in Job : TypeOf[k] = "check"}
    BY <1>1, DependenciesAreChecks
  <2>3. /\ pc'[s] = "deps" /\ left'[s] = D /\ dirty'[s] = dirty[s] \cup new(D)
        /\ \A k \in Job : obj'[s][k] = IF k \in new(D) THEN PrepRow(j)
                              ELSE IF k \in D THEN View(s)[k] ELSE obj[s][k]
    BY <2>1 DEF TypeOK
  <2>4. \A k \in Job :
          View(s)[k] = IF k \in dirty[s] THEN obj[s][k] ELSE row[k]
    BY DEF View
  <2>5. \A k \in new(D) : k \notin dirty[s] /\ row[k].status = "absent"
    BY <2>2, <2>4 DEF CalmInv, Current
  <2>6. \A k \in Job : View(s)'[k] = IF k \in new(D) THEN PrepRow(j) ELSE View(s)[k]
    BY <1>2, <2>3, <2>4, <2>5 DEF View
  <2>7. PrepRow(j).status = "pending" /\ PrepRow(j).dep = j
    BY DEF PrepRow
  <2>8. ASSUME NEW k \in new(D)
        PROVE  /\ Linked(k, PrepRow(j)) /\ ~Busy(View(s)[j]) /\ j \notin new(D)
    <3>2. HasDependencies(j)
      BY <2>8 DEF DependencyChoices
    <3>3. k \in FreeRepositoryPreps(View(s), j) \cup FreeClientPreps(View(s), j)
      BY <1>1, <2>8, ChosenDependencies DEF Queued
    <3>4. RepoOf[k] = PolicyRepo[j] \/ ClientOf[k] = ClientOf[j]
      BY <3>3 DEF FreeRepositoryPreps, FreeClientPreps
    <3>5. j \notin Dependency /\ TypeOf[j] # "check"
      BY <1>1, <3>2 DEF HasDependencies, Chained
    <3>6. obj[s][j].status = "pending"
      BY <1>1, <3>5 DEF CalmInv, Current, Unmarked
    <3>7. View(s)[j].status = "pending"
      BY <1>1, <3>6 DEF View, CalmInv, Current, Inside
    <3> QED
      BY <2>7, <3>4, <3>5, <3>7 DEF Linked, Busy
  <2>9. Links'
    <3>1. \A k \in Job : Linked(k, View(s)[k]) /\ Linked(k, row[k])
      BY ViewLinked DEF Links
    <3>2. \A k \in dirty'[s] : k \in Job /\ obj'[s][k] \in {PrepRow(j), View(s)[k]}
                             /\ \/ obj'[s][k] = PrepRow(j) /\ k \in new(D)
                                \/ obj'[s][k] = View(s)[k]
      BY <2>2, <2>3, <2>4 DEF TypeOK
    <3>3. \A k \in dirty'[s] : Linked(k, obj'[s][k])
      BY <2>8, <3>1, <3>2
    <3> QED
      BY <1>0, <1>2, <3>1, <3>3 DEF Links, Linked
  <2>10. Copied'
    <3>1. ASSUME NEW k \in Job
          PROVE  /\ k \in dirty'[s] /\ row[k].status # "absent"
                       => obj'[s][k].dep = row[k].dep
                 /\ \/ obj'[s][k].status \in {"pending", "waiting"}
                    \/ k \in D
                    => obj'[s][k].dep = View(s)'[k].dep
      <4>1. /\ k \in dirty[s] /\ row[k].status # "absent" => obj[s][k].dep = row[k].dep
            /\ obj[s][k].status \in {"pending", "waiting"}
                  => obj[s][k].dep = View(s)[k].dep
        BY <1>1 DEF Copied, Inside
      <4>2. CASE k \in new(D)
        BY <2>3, <2>5, <2>6, <4>2
      <4>3. CASE k \in D \ new(D)
        BY <2>3, <2>4, <2>6, <4>1, <4>3
      <4>4. CASE k \notin D
        BY <2>3, <2>6, <4>1, <4>4
      <4> QED
        BY <4>2, <4>3, <4>4
    <3> QED
      BY <1>0, <1>2, <2>3, <3>1 DEF Copied
  <2>11. Unmarked'
    BY <1>0, <1>1, <1>2, <2>1, <2>3 DEF Unmarked
  <2>12. Kept'
    <3> SUFFICES ASSUME NEW x \in Job, NEW y \in Job, View(s)'[x].dep = y,
                        Busy(View(s)'[y]), View(s)'[x].status \in Live
                 PROVE  FALSE
      BY <1>0 DEF Kept
    <3>1. y \notin new(D) /\ Busy(View(s)[y])
      BY <2>6, <2>7 DEF Busy
    <3>2. CASE x \in new(D)
      <4>1. y = j
        BY <2>6, <2>7, <3>2
      <4> QED
        BY <2>8, <3>1, <3>2, <4>1
    <3>3. CASE x \notin new(D)
      BY <2>6, <3>1, <3>3 DEF Kept
    <3> QED
      BY <3>2, <3>3
  <2>13. Awaited'
    <3> SUFFICES ASSUME NEW x \in D, NEW y \in Job, View(s)'[x].dep = y,
                        Busy(View(s)'[y])
                 PROVE  FALSE
      BY <1>0, <2>3 DEF Awaited
    <3>0. x \in Job
      BY <2>2
    <3>1. y \notin new(D) /\ Busy(View(s)[y])
      BY <2>6, <2>7 DEF Busy
    <3>2. CASE x \in new(D)
      <4>1. y = j
        BY <2>6, <2>7, <3>0, <3>2
      <4> QED
        BY <2>8, <3>1, <3>2, <4>1
    <3>3. CASE x \notin new(D)
      <4>1. View(s)[x].status \in Live
        BY <1>1, <3>3, DependenciesAreQueued DEF Queued, Live, ActiveStates
      <4> QED
        BY <2>6, <3>0, <3>1, <3>3, <4>1 DEF Kept
    <3> QED
      BY <3>2, <3>3
  <2> QED
    BY <2>9, <2>10, <2>11, <2>12, <2>13
<1> QED
  BY <1>3, <1>4
\* A step that leaves the rows and the copies of them as they are.
LEMMA SkipWaits ==
    ASSUME Waits, NEW s \in Scheduler, UNCHANGED <<row, obj, dirty>>,
           pc'[s] \in Inside => pc[s] \in Inside,
           pc'[s] = "deps" => pc[s] = "deps" /\ left'[s] \in SUBSET left[s],
           pc'[s] \in {"pending", "deps"} =>
               \A j \in todo'[s] : j \in Marked(s)' => TypeOf[j] = "check"
    PROVE  DepInv'
<1> USE DEF Waits, Known, DepInv
<1>0. Scheduler = {s}
  BY OneScheduler
<1>1. \A k \in Job : View(s)'[k] = View(s)[k]
  BY DEF View
<1>2. Links'
  BY DEF Links, Linked
<1>3. Copied'
  BY <1>0, <1>1 DEF Copied
<1>4. Unmarked'
  BY <1>0 DEF Unmarked
<1> QED
  BY <1>1, <1>2, <1>3, <1>4, MildWaits

LEMMA ProcessDependencyWaits ==
    ASSUME Waits, NEW s \in Scheduler, ProcessDependency(s)
    PROVE  DepInv'
<1> USE DEF Waits, Known, DepInv, Others
<1> DEFINE d == NextDependency(left[s])
           F == deps[s] \cup {d, First(todo[s])}
<1>1. CASE RaisesNoClient(View(s), Marked(s), d)
  BY <1>1, RollbackWaits DEF ProcessDependency
<1>2. CASE ~RaisesNoClient(View(s), Marked(s), d)
  <2>1. /\ pc[s] = "deps" /\ pc' = pc /\ todo' = todo
        /\ left'[s] = left[s] \ {d}
        /\ row' = row /\ d \in left[s] /\ d \in Job
    BY <1>2, NextDependencyIsMember DEF ProcessDependency, TypeOK
  <2>2. CASE IsJobBlocked(View(s), Marked(s), d)
    <3>1. UNCHANGED <<obj, dirty, sends>>
      BY <1>2, <2>2 DEF ProcessDependency
    <3>2. Marked(s)' = Marked(s)
      BY <3>1 DEF Marked
    <3> QED
      BY <2>1, <3>1, <3>2, SkipWaits DEF Unmarked
  <2>3. CASE ~IsJobBlocked(View(s), Marked(s), d)
    <3>1. StartTask(s, d, obj[s][d], F)
      BY <1>2, <2>3 DEF ProcessDependency
    <3>2. F \in SUBSET Job
      BY <2>1, FirstTodo DEF PassShape, TypeOK
    <3>3. TypeOf[d] = "check" /\ d \in Dependency
      BY <2>1 DEF CalmInv, Current, Chained
    <3>4. obj[s][d].dep = View(s)[d].dep
      BY <2>1 DEF Copied
    <3>5. View(s)[d].dep # d
      BY <2>1, <3>3, NotItsOwn
    <3>6. \A y \in Job : View(s)[d].dep = y => ~Busy(View(s)[y])
      BY <2>1 DEF Awaited
    <3> QED
      BY <1>2, <2>1, <2>3, <3>1, <3>2, <3>3, <3>4, <3>5, <3>6, StartWaits
  <2> QED
    BY <2>2, <2>3
<1> QED
  BY <1>1, <1>2

LEMMA ProcessTaskWaits ==
    ASSUME Waits, NEW s \in Scheduler, ProcessTask(s)
    PROVE  DepInv'
<1> USE DEF Waits, Known, DepInv, Others
<1> DEFINE j == First(todo[s])
<1>1. CASE Rollback(s)
  BY <1>1, RollbackWaits DEF ProcessTask
<1>2. CASE ~Rollback(s)
  <2>1. /\ pc[s] = "deps" /\ pc'[s] = "pending"
        /\ todo'[s] \in {{}, todo[s] \ {j}} /\ left' = left
        /\ row' = row /\ ~RaisesNoClient(View(s), Marked(s), j)
    BY <1>2 DEF ProcessTask, TypeOK
  <2>2. j \in todo[s] /\ j \in Job
    BY <2>1, FirstTodo DEF PassShape
  <2>3. CASE IsJobBlocked(View(s), Marked(s), j)
    <3>1. UNCHANGED <<obj, dirty, sends>>
      BY <1>2, <2>3 DEF ProcessTask
    <3>2. Marked(s)' = Marked(s)
      BY <3>1 DEF Marked
    <3> QED
      BY <2>1, <3>1, <3>2, SkipWaits DEF Unmarked, Inside
  <2>4. CASE ~IsJobBlocked(View(s), Marked(s), j)
    <3>1. StartTask(s, j, obj[s][j], {j})
      BY <1>2, <2>4 DEF ProcessTask
    <3>2. obj[s][j].status = "pending"
      BY <2>1, <2>2, <2>4, UnblockedJob DEF CalmInv, Current
    <3>3. obj[s][j].dep = View(s)[j].dep
      BY <2>1, <2>2, <3>2 DEF Copied, Inside
    <3>4. View(s)[j].status = "pending"
      BY <2>1, <2>2, <3>2 DEF View, CalmInv, Current, Inside
    <3>5. View(s)[j].dep # j
      BY <2>2, <2>4, <3>4 DEF IsJobBlocked, DependentJobsFinished, ActiveStates
    <3>6. \A y \in Job : View(s)[j].dep = y => ~Busy(View(s)[y])
      BY <2>2, <3>4 DEF Kept, Live, ActiveStates
    <3> QED
      BY <2>1, <2>2, <2>4, <3>1, <3>3, <3>5, <3>6, StartWaits
  <2> QED
    BY <2>3, <2>4
<1> QED
  BY <1>1, <1>2

LEMMA PassWaits ==
    ASSUME Waits, NEW s \in Scheduler, PassStep(s) \/ SchedulerCrash(s)
    PROVE  DepInv'
<1> USE DEF Waits, Known, DepInv, Others
<1>0. Scheduler = {s}
  BY OneScheduler
<1>1. CASE BeginPass(s)
  <2>1. /\ pc[s] = "idle" /\ pc'[s] = "waiting" /\ dirty' = dirty
        /\ dirty[s] = {} /\ row' = row
        /\ obj'[s] = [j \in Job |-> IF row[j].status \in {"pending", "waiting"}
                                   THEN row[j] ELSE NoRow]
    BY <1>1 DEF BeginPass, TypeOK, PassShape, Inside
  <2>2. \A k \in Job : View(s)'[k] = row[k] /\ View(s)[k] = row[k]
    BY <2>1 DEF View
  <2>3. Links'
    BY <1>0, <2>1 DEF Links, Linked
  <2>4. Copied' /\ Unmarked'
    BY <1>0, <2>1, <2>2 DEF Copied, Unmarked, NoRow
  <2> QED
    BY <2>1, <2>2, <2>3, <2>4, MildWaits
<1>2. CASE ProcessPending(s)
  <2>1. CASE Rollback(s)
    BY <1>2, <2>1, RollbackWaits DEF ProcessPending
  <2>2. CASE ~Rollback(s)
    <3>1. /\ pc[s] = "waiting" /\ pc'[s] = "pending"
          /\ todo'[s] = {j \in Job : obj[s][j].status = "pending"}
          /\ UNCHANGED <<row, obj, dirty, sends>>
      BY <1>2, <2>2 DEF ProcessPending, TypeOK
    <3>2. \A j \in Marked(s)' : obj[s][j].status = "starting"
      BY <3>1 DEF Marked, CalmInv, Sent
    <3> QED
      BY <3>1, <3>2, SkipWaits DEF Inside
  <2> QED
    BY <2>1, <2>2
<1>3. CASE ReleaseLock(s)
  BY <1>3, SkipWaits DEF ReleaseLock, TypeOK, Inside
<1>4. CASE Commit(s)
  <2>1. row' = View(s) /\ dirty'[s] = {} /\ pc'[s] \in {"idle", "send"}
    BY <1>4 DEF Commit, TypeOK
  <2>2. \A k \in Job : View(s)'[k] = View(s)[k]
    BY <2>1 DEF View
  <2>3. Links'
    BY <1>0, <2>1, ViewLinked DEF Links, Linked
  <2>4. Copied' /\ Unmarked'
    BY <1>0, <2>1 DEF Copied, Unmarked, Inside
  <2> QED
    BY <2>1, <2>2, <2>3, <2>4, MildWaits
<1>5. CASE SendTask(s)
  <2>1. UNCHANGED <<row, obj, dirty>> /\ pc'[s] \in {"idle", "send"}
    BY <1>5 DEF SendTask, TypeOK
  <2> QED
    BY <2>1, SkipWaits DEF Inside
<1>6. CASE SchedulerCrash(s)
  BY <1>6, RollbackWaits DEF SchedulerCrash
<1> QED
  BY <1>1, <1>2, <1>3, <1>4, <1>5, <1>6, ProcessWaitingWaits,
     GenerateDependenciesWaits, ProcessDependencyWaits, ProcessTaskWaits DEF PassStep

\* Workers and users start no job and bring none back.
LEMMA RowsCalm ==
    ASSUME Known, NEW k \in Job,
           \/ \E d \in Job \X Slot :
                WorkerStep(d) \/ ReportReady(d) \/ WorkerCrash(d) \/ Redeliver(d)
           \/ UserStep
    PROVE  /\ row'[k].dep = row[k].dep
           /\ Busy(row'[k]) => Busy(row[k])
           /\ row'[k].status \in Live => row[k].status \in Live
           /\ row'[k].status # "absent" => row[k].status # "absent"
           /\ row[k].status \in {"absent", "new", "pending", "waiting"}
                 => row'[k].status = row[k].status
           /\ row[k].status \in Finished => row'[k].status \in Finished
           /\ row[k].status # "absent" => row'[k].status # "absent"
<1> USE DEF Known
<1> DEFINE Mild == /\ row'[k].dep = row[k].dep
                   /\ Busy(row'[k]) => Busy(row[k])
                   /\ row'[k].status \in Live => row[k].status \in Live
                   /\ row'[k].status # "absent" => row[k].status # "absent"
                   /\ row[k].status \in {"absent", "new", "pending", "waiting"}
                         => row'[k].status = row[k].status
                   /\ row[k].status \in Finished => row'[k].status \in Finished
                   /\ row[k].status # "absent" => row'[k].status # "absent"
<1>s. ASSUME NEW j \in Job, NEW st, SetStatus(j, st)
      PROVE  /\ k # j => row'[k] = row[k]
             /\ k = j => row'[k].dep = row[k].dep /\ row'[k].status = st
  BY <1>s DEF SetStatus, TypeOK, Row
<1>f. \A st \in {"successful", "failed", "error", "canceled"} :
        st \notin Live \cup {"starting", "running", "absent"} /\ st \in Finished
  BY DEF Live, ActiveStates, Finished
<1>1. ASSUME NEW d \in Job \X Slot,
             WorkerStep(d) \/ ReportReady(d) \/ WorkerCrash(d) \/ Redeliver(d)
      PROVE  Mild
  <2>0. d[1] \in Job /\ (Alive(d) => Recorded(d) /\ Checked(d))
    BY DEF CalmInv, Messages
  <2>1. CASE PickUp(d)
    BY <1>s, <2>0, <2>1 DEF PickUp, Alive, Recorded, Busy, Live, ActiveStates,
       Finished
  <2>2. CASE StopCanceled(d)
    BY <1>f, <1>s, <2>0, <2>2 DEF StopCanceled, Alive, Recorded, Busy, Finished
  <2>3. CASE SaveResult(d)
    BY <1>f, <1>s, <2>0, <2>3 DEF SaveResult, Alive, Recorded, Busy, Finished
  <2>4. CASE HandleWorkError(d)
    <3>1. PICK j \in deliv[d].fail : SetStatus(j, "failed") \/ row' = row
      BY <2>4 DEF HandleWorkError
    <3>2. j = d[1] /\ row[j].status \notin {"absent", "new", "pending", "waiting"}
      BY <2>0, <2>4, <3>1 DEF HandleWorkError, Alive, Recorded, Checked
    <3> QED
      BY <1>f, <1>s, <2>0, <3>1, <3>2 DEF Busy
  <2>5. CASE BuildArgs(d) \/ RunBorg(d) \/ ReportReady(d) \/ WorkerCrash(d)
             \/ Redeliver(d)
    BY <2>5 DEF BuildArgs, RunBorg, ReportReady, WorkerCrash, Redeliver
  <2> QED
    BY <1>1, <2>1, <2>2, <2>3, <2>4, <2>5 DEF WorkerStep
<1>2. CASE UserStep
  <2>1. CASE Cancel
    <3>1. api.seen.status = "running"
      BY <2>1 DEF Cancel, CalmInv, Uncanceled
    <3>2. \A r \in Row : /\ CancelFields(r, api.seen).status = r.status
                         /\ CancelFields(r, api.seen).dep = r.dep
      BY <3>1 DEF CancelFields, Row
    <3>3. row'[k].status = row[k].status /\ row'[k].dep = row[k].dep
      BY <2>1, <3>2 DEF Cancel, TypeOK
    <3> QED
      BY <3>3 DEF Busy
  <2>2. CASE SignalStart \/ SaveOrphan
    BY <2>2 DEF SignalStart, SaveOrphan, CalmInv, Uncanceled
  <2>3. CASE row' = row
    BY <2>3
  <2> QED
    BY <1>2, <2>1, <2>2, <2>3 DEF UserStep, JobCancel, JobStart, CleanOrphanJob,
       ReadJob, MarkAsToUpdate
<1> QED
  BY <1>1, <1>2

LEMMA OutsideWaits ==
    ASSUME Waits, UNCHANGED pass,
           \A k \in Job : /\ row'[k].dep = row[k].dep
                          /\ Busy(row'[k]) => Busy(row[k])
                          /\ row'[k].status \in Live => row[k].status \in Live
                          /\ row'[k].status # "absent" => row[k].status # "absent"
    PROVE  DepInv'
<1> USE DEF Waits, Known, DepInv, pass
<1>0. PICK s \in Scheduler : Scheduler = {s}
  BY DEF Calm
<1>1. \A k \in Job : View(s)[k] = IF k \in dirty[s] THEN obj[s][k] ELSE row[k]
  BY DEF View
<1>2. \A k \in Job : View(s)'[k] = IF k \in dirty[s] THEN obj[s][k] ELSE row'[k]
  BY DEF View
<1>3. \A k \in Job : /\ View(s)'[k].dep = View(s)[k].dep
                     /\ Busy(View(s)'[k]) => Busy(View(s)[k])
                     /\ View(s)'[k].status \in Live => View(s)[k].status \in Live
  BY <1>1, <1>2
<1>4. Links'
  BY <1>0 DEF Links, Linked
<1>5. Copied'
  BY <1>0, <1>3 DEF Copied
<1>6. Unmarked'
  BY <1>0 DEF Unmarked, Marked
<1> QED
  BY <1>3, <1>4, <1>5, <1>6, MildWaits

LEMMA WaitsStep ==
    ASSUME Waits, [Next]_vars
    PROVE  DepInv'
<1>1. ASSUME NEW s \in Scheduler, PassStep(s) \/ SchedulerCrash(s)
      PROVE  DepInv'
  BY <1>1, PassWaits
<1>2. ASSUME \/ \E d \in Job \X Slot : WorkerStep(d) \/ ReportReady(d)
                                        \/ WorkerCrash(d) \/ Redeliver(d)
             \/ UserStep
      PROVE  DepInv'
  <2>1. Known
    BY DEF Waits
  <2>2. UNCHANGED pass
    BY <1>2, PassesUnchanged
  <2> QED
    BY <1>2, <2>1, <2>2, RowsCalm, OutsideWaits
<1>3. CASE UNCHANGED vars
  <2>1. row' = row /\ UNCHANGED pass
    BY <1>3 DEF vars, pass
  <2> QED
    BY <2>1, OutsideWaits
<1>4. CASE Next
  BY <1>1, <1>2, <1>4 DEF Next
<1> QED
  BY <1>3, <1>4

LEMMA WaitsInit ==
    ASSUME Chained, Init
    PROVE  FirstStart /\ DepInv
<1>1. PICK o \in Origins : row = o.row
  BY DEF Init
<1>2. Links
  BY <1>1 DEF Init, Links, Chained
<1>3. Kept
  BY <1>1 DEF Init, Kept, View, Chained, Calm
<1>4. Copied /\ Unmarked /\ Awaited /\ FirstStart
  BY DEF Init, Copied, Unmarked, Awaited, FirstStart, Inside
<1> QED
  BY <1>2, <1>3, <1>4 DEF DepInv

LEMMA WaitsInvariant ==
    ASSUME Chained
    PROVE  Spec => [](TypeOK /\ PassShape /\ CalmInv /\ DepInv)
<1>0. Calm
  BY DEF Chained
<1>1. Init => DepInv
  BY WaitsInit
<1>2. TypeOK /\ PassShape /\ CalmInv /\ DepInv /\ [Next]_vars => DepInv'
  BY <1>0, WaitsStep DEF Waits, Known
<1> QED
  BY <1>0, <1>1, <1>2, CalmInvariant, PTL DEF Spec

\* Under Chained a job never starts, or runs, before everything that was to come
\* before it is over, in whatever order passes, workers, crashes and cancels of
\* running jobs come, although dependent_jobs_finished lets a 'starting' row pass.
THEOREM DependenciesComeFirst ==
    ASSUME Chained
    PROVE  Spec => []NoOvertaking
<1>1. TypeOK /\ PassShape /\ CalmInv /\ DepInv => NoOvertaking
  <2> SUFFICES ASSUME Waits PROVE NoOvertaking
    BY DEF Chained, Waits, Known
  <2>1. PICK s \in Scheduler : TRUE
    BY DEF Waits, Known, Calm
  <2> QED
    BY <2>1, RowsKept DEF NoOvertaking, Live
<1> QED
  BY <1>1, WaitsInvariant, PTL
-----------------------------------------------------------------------------
(***************************************************************************)
(* No job runs unprepared, when every client has one chain of jobs.  A     *)
(* preparation is made for one job, which waits for it.  Another job of    *)
(* the client would be given the same one and not wait: if what blocks the *)
(* preparation does not block that job, or has ended when the pass comes   *)
(* to it, the job starts unprepared.  OneChain says that there is no other *)
(* such job: of the jobs of a client that are to come one is the head, the *)
(* rest wait for each other, and only the head is pending or under way.    *)
(***************************************************************************)
Head(table, y) ==
    /\ y \in Job \ Dependency
    /\ table[y].status \in Live
    /\ \A x \in Job \ Dependency : table[x].dep = y => table[x].status \notin Live

\* k prepares what j needs.
Serves(k, j) == /\ TypeOf[k] = "check" /\ ClientOf[k] = ClientOf[j]
                /\ HypervisorOf[k] = HypervisorOf[j]
\* The job that waits for k is pending.
IsAwaited(table, k) ==
    \E j \in Job : /\ table[k].dep = j /\ table[j].status = "pending"
                   /\ HasDependencies(j) /\ Serves(k, j)

OneHead(table) ==
    \A y, z \in Job : /\ Head(table, y) /\ Head(table, z)
                      /\ ClientOf[y] = ClientOf[z] /\ ClientOf[y] # None
                      => y = z
HeadsFirst(table) ==
    \A y \in Job \ Dependency :
        table[y].status \in {"pending", "starting", "running"} => Head(table, y)
OwnClient(table) ==
    \A x \in Job \ Dependency, y \in Job :
        table[x].dep = y => ClientOf[x] = ClientOf[y]
PrepsAwaited(table) ==
    \A k \in Dependency :
        ClientOf[k] # None /\ table[k].status \in Live => IsAwaited(table, k)
OneChain(table) ==
    OneHead(table) /\ HeadsFirst(table) /\ OwnClient(table) /\ PrepsAwaited(table)

\* A client that is known on a host is on no other that a job needs.
OneHost(reported) ==
    \A c \in Client, h \in Hypervisor, k \in Job :
        /\ <<c, h>> \in reported
        /\ ClientOf[k] = c /\ HypervisorOf[k] # None /\ HypervisorOf[k] # h
        => \A j \in Job : HypervisorOf[j] # h

(***************************************************************************)
(* Beside the chains: the preparation of a client has the policy of its    *)
(* job (create_prepare_client), a virtual machine stays on its host, and   *)
(* the keys of `ready` are told apart.                                     *)
(***************************************************************************)
SingleChains ==
    /\ Chained
    /\ \A p \in Dependency, j \in Job :
          Prepares[p] = j /\ ClientOf[p] = ClientOf[j]
              => HypervisorOf[p] = HypervisorOf[j]
    /\ \A j, k \in Job :
          ClientOf[j] = ClientOf[k] /\ HypervisorOf[j] # None /\ HypervisorOf[k] # None
              => HypervisorOf[j] = HypervisorOf[k]
    /\ (Repo \cup Client) \cap (Client \X Hypervisor) = {}
    /\ \A o \in Origins : OneChain(o.row) /\ OneHost(o.ready)

\* Rows that end, or go on under way, leave the chains as they are.
LEMMA ChainGoesOn ==
    ASSUME NEW T, NEW U, OneChain(T),
           \A k \in Job : /\ U[k].dep = T[k].dep
                          /\ Busy(U[k]) => Busy(T[k])
                          /\ U[k].status \in Live => T[k].status \in Live
                          /\ T[k].status \in {"new", "pending", "waiting"}
                                => U[k].status = T[k].status
    PROVE  OneChain(U)
<1> USE DEF OneChain
<1>1. OwnClient(U)
  BY DEF OwnClient
<1>2. ASSUME NEW y \in Job, Head(T, y), U[y].status \in Live
      PROVE  Head(U, y)
  BY <1>2 DEF Head
<1>3. HeadsFirst(U)
  <2> SUFFICES ASSUME NEW y \in Job \ Dependency,
                      U[y].status \in {"pending", "starting", "running"}
               PROVE  Head(U, y)
    BY DEF HeadsFirst
  <2>1. U[y].status \in Live /\ T[y].status \in Live
    BY DEF Live, ActiveStates
  <2>2. T[y].status \in {"pending", "starting", "running"}
    BY <2>1 DEF Live, ActiveStates
  <2> QED
    BY <1>2, <2>1, <2>2 DEF HeadsFirst
\* A job becomes the head when the head is over that it waited for.
<1>4. ASSUME NEW y \in Job, Head(U, y), ~Head(T, y)
      PROVE  \E x \in Job : /\ Head(T, x) /\ T[x].dep = y /\ U[x].status \notin Live
                            /\ ClientOf[x] = ClientOf[y]
  <2>1. PICK x \in Job \ Dependency : T[x].dep = y /\ T[x].status \in Live
    BY <1>4 DEF Head
  <2>2. U[x].status \notin Live
    BY <1>4, <2>1 DEF Head
  <2>3. T[x].status \in {"pending", "starting", "running"}
    BY <2>1, <2>2 DEF Live, ActiveStates
  <2> QED
    BY <2>1, <2>2, <2>3 DEF HeadsFirst, OwnClient
<1>5. OneHead(U)
  <2> SUFFICES ASSUME NEW y \in Job, NEW z \in Job, Head(U, y), Head(U, z),
                      ClientOf[y] = ClientOf[z], ClientOf[y] # None
               PROVE  y = z
    BY DEF OneHead
  <2>1. CASE Head(T, y) /\ Head(T, z)
    BY <2>1 DEF OneHead
  <2>2. ASSUME NEW u \in Job, NEW v \in Job, Head(T, u), Head(U, u), Head(U, v), ~Head(T, v),
               ClientOf[u] = ClientOf[v], ClientOf[u] # None
        PROVE  FALSE
    <3>1. PICK x \in Job : /\ Head(T, x) /\ U[x].status \notin Live
                           /\ ClientOf[x] = ClientOf[v]
      BY <1>4, <2>2
    <3>2. x = u
      BY <2>2, <3>1 DEF OneHead
    <3> QED
      BY <2>2, <3>1, <3>2 DEF Head
  <2>3. CASE ~Head(T, y) /\ ~Head(T, z)
    <3>1. PICK x \in Job : Head(T, x) /\ T[x].dep = y /\ ClientOf[x] = ClientOf[y]
      BY <1>4, <2>3
    <3>2. PICK w \in Job : Head(T, w) /\ T[w].dep = z /\ ClientOf[w] = ClientOf[z]
      BY <1>4, <2>3
    <3>3. x = w
      BY <3>1, <3>2 DEF OneHead
    <3> QED
      BY <3>1, <3>2, <3>3
  <2> QED
    BY <2>1, <2>2, <2>3
<1>6. PrepsAwaited(U)
  <2> SUFFICES ASSUME NEW k \in Dependency, ClientOf[k] # None, U[k].status \in Live
               PROVE  IsAwaited(U, k)
    BY DEF PrepsAwaited
  <2>1. k \in Job
    BY JobAssumption
  <2>2. IsAwaited(T, k)
    BY <2>1 DEF PrepsAwaited
  <2> QED
    BY <2>1, <2>2 DEF IsAwaited
<1> QED
  BY <1>1, <1>3, <1>5, <1>6

\* A job that is made pending, which nothing blocks, is the head of its chain.
LEMMA ChainPromoted ==
    ASSUME NEW T, NEW U, OneChain(T), NEW y \in Job,
           T[y].status = "waiting", U[y].status = "pending", U[y].dep = T[y].dep,
           \A k \in Job : k # y => U[k] = T[k],
           DependentJobsFinished(T, y), SameClientJobs(T, y) = {}
    PROVE  OneChain(U)
<1> USE DEF OneChain
<1>1. \A k \in Job : /\ U[k].dep = T[k].dep
                     /\ U[k].status \in Live <=> T[k].status \in Live
  BY DEF Live, ActiveStates
<1>2. \A k \in Job : Head(U, k) <=> Head(T, k)
  BY <1>1 DEF Head
<1>3. ASSUME y \notin Dependency
      PROVE  Head(T, y)
  <2>1. ASSUME NEW x \in Job \ Dependency, T[x].dep = y, T[x].status \in Live
        PROVE  FALSE
    <3>1. T[x].status = "starting"
      BY <2>1 DEF DependentJobsFinished, Live
    <3>2. ClientOf[x] = ClientOf[y]
      BY <2>1 DEF OwnClient
    <3> QED
      BY <3>1, <3>2 DEF SameClientJobs, Busy
  <2> QED
    BY <1>3, <2>1 DEF Head, Live, ActiveStates
<1>4. OwnClient(U) /\ OneHead(U)
  BY <1>1, <1>2 DEF OwnClient, OneHead
<1>5. HeadsFirst(U)
  BY <1>2, <1>3 DEF HeadsFirst
<1>6. PrepsAwaited(U)
  <2> SUFFICES ASSUME NEW k \in Dependency, ClientOf[k] # None, U[k].status \in Live
               PROVE  IsAwaited(U, k)
    BY DEF PrepsAwaited
  <2>1. k \in Job
    BY JobAssumption
  <2>2. IsAwaited(T, k)
    BY <1>1, <2>1 DEF PrepsAwaited
  <2> QED
    BY <1>1, <2>1, <2>2 DEF IsAwaited
<1> QED
  BY <1>4, <1>5, <1>6

\* So is one that is started; a preparation is for a pending job.
LEMMA ChainStarted ==
    ASSUME NEW T, NEW U, OneChain(T), NEW y \in Job,
           U[y].status = "starting", U[y].dep = T[y].dep,
           \A k \in Job : k # y => U[k] = T[k],
           DependentJobsFinished(T, y), SameClientJobs(T, y) = {},
           y \notin Dependency => T[y].status = "pending",
           y \in Dependency /\ ClientOf[y] # None => IsAwaited(T, y)
    PROVE  OneChain(U)
<1> USE DEF OneChain
<1>1. /\ \A k \in Job : U[k].dep = T[k].dep
      /\ \A k \in Job \ Dependency : U[k].status \in Live <=> T[k].status \in Live
  BY DEF Live, ActiveStates
<1>2. \A k \in Job : Head(U, k) <=> Head(T, k)
  BY <1>1 DEF Head
<1>3. OwnClient(U) /\ OneHead(U)
  BY <1>1, <1>2 DEF OwnClient, OneHead
<1>4. HeadsFirst(U)
  BY <1>2 DEF HeadsFirst
<1>5. PrepsAwaited(U)
  <2> SUFFICES ASSUME NEW k \in Dependency, ClientOf[k] # None, U[k].status \in Live
               PROVE  IsAwaited(U, k)
    BY DEF PrepsAwaited
  <2>1. k \in Job
    BY JobAssumption
  <2>2. IsAwaited(T, k)
    BY <2>1 DEF PrepsAwaited
  <2>3. PICK j \in Job : /\ T[k].dep = j /\ T[j].status = "pending"
                         /\ HasDependencies(j) /\ Serves(k, j)
    BY <2>2 DEF IsAwaited
  <2>4. j # y
    <3> SUFFICES ASSUME j = y PROVE FALSE
      OBVIOUS
    <3>1. k # y
      BY <2>3 DEF HasDependencies
    <3>2. T[k].status = "starting"
      BY <2>1, <2>3, <3>1 DEF DependentJobsFinished, Live
    <3> QED
      BY <2>1, <2>3, <3>2 DEF SameClientJobs, Busy, Serves
  <2> QED
    BY <1>1, <2>1, <2>3, <2>4 DEF IsAwaited
<1> QED
  BY <1>3, <1>4, <1>5

\* New preparations are for the pending job that is visited.
LEMMA ChainAdded ==
    ASSUME NEW T, NEW U, OneChain(T), NEW j \in Job, NEW N \in SUBSET Dependency,
           T[j].status = "pending", HasDependencies(j),
           \A k \in Job : U[k] = IF k \in N THEN PrepRow(j) ELSE T[k],
           \A k \in N : ClientOf[k] = None \/ Serves(k, j)
    PROVE  OneChain(U)
<1> USE DEF OneChain
<1>1. \A k \in Job \ Dependency : U[k] = T[k]
  OBVIOUS
<1>2. \A k \in Job : Head(U, k) <=> Head(T, k)
  BY <1>1 DEF Head
<1>3. OwnClient(U) /\ OneHead(U) /\ HeadsFirst(U)
  BY <1>1, <1>2 DEF OwnClient, OneHead, HeadsFirst
<1>4. PrepsAwaited(U)
  <2> SUFFICES ASSUME NEW k \in Dependency, ClientOf[k] # None, U[k].status \in Live
               PROVE  IsAwaited(U, k)
    BY DEF PrepsAwaited
  <2>1. k \in Job
    BY JobAssumption
  <2>2. CASE k \in N
    <3>1. U[k].dep = j /\ U[j].status = "pending"
      BY <1>1, <2>1, <2>2 DEF PrepRow, HasDependencies
    <3> QED
      BY <2>2, <3>1 DEF IsAwaited
  <2>3. CASE k \notin N
    <3>1. IsAwaited(T, k) /\ U[k] = T[k]
      BY <2>1, <2>3 DEF PrepsAwaited
    <3> QED
      BY <1>1, <3>1 DEF IsAwaited, HasDependencies
  <2> QED
    BY <2>2, <2>3
<1> QED
  BY <1>3, <1>4

-----------------------------------------------------------------------------
\* What a pass has still to start as a preparation, the job it visits, and the jobs
\* that are under way, as it sees the table.
LeftAwaited ==
    \A s \in Scheduler : pc[s] = "deps" =>
        \A k \in left[s] : ClientOf[k] # None => IsAwaited(View(s), k)
Provided ==
    \A s \in Scheduler, j \in Job :
        /\ pc[s] = "deps" /\ j = First(todo[s])
        /\ HasDependencies(j) /\ ClientOf[j] # None
        => \/ IsReady(j)
           \/ \E k \in Dependency : /\ Serves(k, j) /\ View(s)[k].dep = j
                                    /\ View(s)[k].status # "absent"
BusyPrepared ==
    \A s \in Scheduler, j \in Job :
        Busy(View(s)[j]) /\ HasDependencies(j)
            => /\ ClientOf[j] # None
               /\ \/ IsReady(j)
                  \/ \E k \in Job : Serves(k, j) /\ View(s)[k].status \in Finished
ChainsKept == OneChain(row) /\ \A s \in Scheduler : OneChain(View(s))
PrepInv == ChainsKept /\ OneHost(ready) /\ LeftAwaited /\ Provided /\ BusyPrepared

Orderly == Waits /\ SingleChains /\ PrepInv

\* A host, or a client, that is ready stays so: a report replaces what is known of
\* its own client.
LEMMA ReadyStays ==
    ASSUME SingleChains, TypeOK, OneHost(ready), [Next]_vars
    PROVE  /\ OneHost(ready)'
           /\ \A j \in Job : ClientOf[j] # None /\ IsReady(j) => IsReady(j)'
<1>1. ready' = ready \/ \E d \in Job \X Slot : ReportReady(d)
  BY DEF Next, vars, PassStep, BeginPass, ProcessWaiting, ProcessPending,
     GenerateDependencies, ProcessDependency, ProcessTask, ReleaseLock, Commit,
     SendTask, SchedulerCrash, Others, WorkerStep, PickUp, StopCanceled, BuildArgs,
     RunBorg, SaveResult, HandleWorkError, WorkerCrash, Redeliver, Unscheduled,
     UserStep, JobCancel, JobStart, CleanOrphanJob, ReadJob, Cancel, SignalStart,
     SaveOrphan, MarkAsToUpdate
<1>2. CASE ready' = ready
  BY <1>2 DEF OneHost, IsReady
<1>3. ASSUME NEW d \in Job \X Slot, ReportReady(d)
      PROVE  /\ OneHost(ready)'
             /\ \A j \in Job : ClientOf[j] # None /\ IsReady(j) => IsReady(j)'
  <2>1. PICK k \in Job : k = d[1] /\ ready' = (ready \ Replaced(k)) \cup Reported(k)
    BY <1>3 DEF ReportReady
  <2>2. /\ RepoOf[k] \in Repo \cup {None} /\ ClientOf[k] \in Client \cup {None}
        /\ HypervisorOf[k] \in Hypervisor \cup {None}
        /\ ClientOf[k] = None => HypervisorOf[k] = None
    BY JobAssumption
  <2>3. CASE HypervisorOf[k] = None
    <3>1. /\ ready \subseteq ready'
          /\ \A x \in ready' : x \in ready \/ x \in Repo \cup Client
      BY <2>1, <2>2, <2>3 DEF Replaced, Reported
    <3>2. \A c \in Client, h \in Hypervisor : <<c, h>> \in ready' => <<c, h>> \in ready
      BY <3>1 DEF SingleChains
    <3> QED
      BY <3>1, <3>2 DEF OneHost, IsReady
  <2>4. CASE HypervisorOf[k] # None
    <3>1. PICK c \in Client, h \in Hypervisor :
            c = ClientOf[k] /\ h = HypervisorOf[k] /\ h # None
      BY <2>2, <2>4
    <3>2. ready' = (ready \ ({c} \X Hypervisor)) \cup {<<c, h>>}
      BY <2>1, <2>4, <3>1 DEF Replaced, Reported
    <3>3. OneHost(ready)'
      <4> SUFFICES ASSUME NEW b \in Client, NEW g \in Hypervisor, NEW i \in Job,
                          <<b, g>> \in ready', ClientOf[i] = b, HypervisorOf[i] # None,
                          HypervisorOf[i] # g, NEW j \in Job, HypervisorOf[j] = g
                   PROVE  FALSE
        BY DEF OneHost
      <4>1. <<b, g>> \in ready \/ (b = c /\ g = h)
        BY <3>2
      <4>2. CASE <<b, g>> \in ready
        BY <4>2 DEF OneHost
      <4>3. CASE b = c /\ g = h
        BY <3>1, <4>3 DEF SingleChains
      <4> QED
        BY <4>1, <4>2, <4>3
    <3>4. ASSUME NEW j \in Job, ClientOf[j] # None, IsReady(j)
          PROVE  IsReady(j)'
      <4>1. CASE HypervisorOf[j] = None
        <5>1. ClientOf[j] \in Client /\ ClientOf[j] \in ready
          BY <3>4, <4>1, JobAssumption DEF IsReady
        <5>2. ClientOf[j] \notin {c} \X Hypervisor
          BY <5>1 DEF SingleChains
        <5> QED
          BY <3>2, <4>1, <5>1, <5>2 DEF IsReady
      <4>2. CASE HypervisorOf[j] # None
        <5>1. PICK b \in Client, g \in Hypervisor : <<b, g>> \in ready /\ g = HypervisorOf[j]
          BY <3>4, <4>2, JobAssumption DEF IsReady
        <5>2. b = c => g = h
          BY <3>1, <5>1 DEF OneHost
        <5>3. <<b, g>> \in ready'
          BY <3>2, <5>1, <5>2
        <5> QED
          BY <4>2, <5>1, <5>3 DEF IsReady
      <4> QED
        BY <4>1, <4>2
    <3> QED
      BY <3>3, <3>4
  <2> QED
    BY <2>3, <2>4
<1> QED
  BY <1>1, <1>2, <1>3

\* A step of a pass that leaves the rows it sees as they are.
LEMMA SkipPrepared ==
    ASSUME Orderly, NEW s \in Scheduler, UNCHANGED ready,
           \A k \in Job : View(s)'[k] = View(s)[k],
           row' = row \/ row' = View(s),
           pc'[s] = "deps" => /\ pc[s] = "deps" /\ left'[s] \in SUBSET left[s]
                              /\ todo'[s] = todo[s]
    PROVE  PrepInv'
<1> USE DEF Orderly, Waits, Known, PrepInv
<1>0. Scheduler = {s}
  BY OneScheduler
<1>v. View(s)' = View(s)
  BY DEF View
<1>1. ChainsKept'
  <2>1. OneChain(View(s)')
    BY <1>v DEF ChainsKept
  <2>2. OneChain(row')
    BY DEF ChainsKept
  <2> QED
    BY <1>0, <2>1, <2>2 DEF ChainsKept
<1>2. LeftAwaited'
  BY <1>0, <1>v DEF LeftAwaited, IsAwaited
<1>3. Provided'
  BY <1>0, <1>v DEF Provided, IsReady
<1>4. BusyPrepared'
  BY <1>0, <1>v DEF BusyPrepared, IsReady
<1>5. OneHost(ready)'
  BY DEF OneHost
<1> QED
  BY <1>1, <1>2, <1>3, <1>4, <1>5

\* A pass that ends without a commit: what is under way was so before it began.
LEMMA RollbackPrepared ==
    ASSUME Orderly, NEW s \in Scheduler, UNCHANGED <<row, ready>>,
           dirty'[s] = {}, pc'[s] # "deps"
    PROVE  PrepInv'
<1> USE DEF Orderly, Waits, Known, PrepInv
<1>0. Scheduler = {s}
  BY OneScheduler
<1>v. \A k \in Job : View(s)'[k] = row[k]
  BY DEF View
<1>1. ChainsKept'
  <2>1. View(s)' = row
    BY DEF View, TypeOK
  <2>2. OneChain(View(s)') /\ OneChain(row')
    BY <2>1 DEF ChainsKept
  <2> QED
    BY <1>0, <2>2 DEF ChainsKept
<1>2. LeftAwaited' /\ Provided'
  BY <1>0 DEF LeftAwaited, Provided
<1>3. BusyPrepared'
  <2>1. ASSUME NEW j \in Job, Busy(row[j])
        PROVE  View(s)[j] = row[j]
    BY <2>1 DEF View, CalmInv, Current, Startable, Busy, Finished
  <2>2. ASSUME NEW j \in Job, View(s)[j].status \in Finished
        PROVE  View(s)[j] = row[j]
    BY <2>2 DEF View, CalmInv, Current, Finished
  <2> SUFFICES ASSUME NEW j \in Job, Busy(row[j]), HasDependencies(j)
               PROVE  /\ ClientOf[j] # None
                      /\ \/ IsReady(j)
                         \/ \E k \in Job : Serves(k, j) /\ row[k].status \in Finished
    BY <1>0, <1>v DEF BusyPrepared, IsReady
  <2> QED
    BY <2>1, <2>2 DEF BusyPrepared
<1>4. OneHost(ready)'
  BY DEF OneHost
<1> QED
  BY <1>1, <1>2, <1>3, <1>4

\* What generate_dependencies makes of the client of a job: it is ready, or one of
\* the dependencies is new or queued and prepares it.
LEMMA ClientChoice ==
    ASSUME TypeOK, NEW s \in Scheduler, NEW j \in Job, ClientOf[j] # None,
           HasDependencies(j), NEW D \in DependencyChoices(s, j)
    PROVE  \/ IsReady(j)
           \/ \E k \in D : \/ k \in FreeClientPreps(View(s), j)
                           \/ /\ k \in Job /\ TypeOf[k] = "check"
                              /\ ClientOf[k] = ClientOf[j]
                              /\ View(s)[k].status \in Queued
<1> DEFINE Free == FreeClientPreps(View(s), j)
<1>1. PICK E \in ClientDependencies(s, View(s), j) : E \in SUBSET D
  BY DEF DependencyChoices
<1> SUFFICES ASSUME ~IsReady(j)
             PROVE  \E k \in E : \/ k \in Free
                                 \/ /\ k \in Job /\ TypeOf[k] = "check"
                                    /\ ClientOf[k] = ClientOf[j]
                                    /\ View(s)[k].status \in Queued
  BY <1>1
<1>2. CASE HypervisorOf[j] # None
  <2>1. E \in Prepare(View(s), LatestHypervisorPreparation(View(s), j), TRUE,
                      FreeHypervisorPreps(View(s), j))
    BY <1>1, <1>2 DEF ClientDependencies, HypervisorDependencies
  <2>2. LatestHypervisorPreparation(View(s), j) = {}
    <3>1. ASSUME NEW k \in LatestHypervisorPreparation(View(s), j)
          PROVE  FALSE
      <4>1. k \in Job /\ HypervisorOf[k] # None /\ <<ClientOf[k], HypervisorOf[j]>> \in ready
        BY <3>1 DEF LatestHypervisorPreparation, Latest, Checks
      <4>2. ClientOf[k] \in Client
        BY <4>1, JobAssumption
      <4> QED
        BY <1>2, <4>1, <4>2 DEF IsReady
    <3> QED
      BY <3>1
  <2>3. E \in {{p} : p \in FreeHypervisorPreps(View(s), j)}
    BY <2>1, <2>2 DEF Prepare
  <2>4. FreeHypervisorPreps(View(s), j) \in SUBSET Free
    BY DEF FreeHypervisorPreps
  <2> QED
    BY <2>3, <2>4
<1>3. CASE HypervisorOf[j] = None /\ MustUpdate(s, j)
  BY <1>1, <1>3 DEF ClientDependencies
<1>4. CASE HypervisorOf[j] = None /\ ~MustUpdate(s, j)
  <2>1. E \in Prepare(View(s), LatestClientPreparation(View(s), j),
                      ClientOf[j] \in ready, Free)
    BY <1>1, <1>4 DEF ClientDependencies
  <2>2. ClientOf[j] \notin ready
    BY <1>4 DEF IsReady
  <2>3. CASE LatestClientPreparation(View(s), j) = {}
    BY <2>1, <2>3 DEF Prepare
  <2>4. CASE LatestClientPreparation(View(s), j) # {}
    <3>1. PICK k \in LatestClientPreparation(View(s), j) :
            E \in IF View(s)[k].status \in Queued THEN {{k}}
                  ELSE IF ClientOf[j] \in ready THEN {{}} ELSE {{p} : p \in Free}
      BY <2>1, <2>4 DEF Prepare
    <3>2. k \in Job /\ TypeOf[k] = "check" /\ ClientOf[k] = ClientOf[j]
      BY DEF LatestClientPreparation, Latest, Checks
    <3> QED
      BY <2>2, <3>1, <3>2
  <2> QED
    BY <2>3, <2>4
<1> QED
  BY <1>2, <1>3, <1>4

LEMMA ProcessWaitingPrepared ==
    ASSUME Orderly, NEW s \in Scheduler, ProcessWaiting(s)
    PROVE  PrepInv'
<1> USE DEF Orderly, Waits, Known, PrepInv, Others
<1> DEFINE j == First(todo[s])
           r == [obj[s][j] EXCEPT !.status = "pending"]
<1>0. Scheduler = {s}
  BY OneScheduler
<1>1. CASE Rollback(s)
  <2>1. dirty'[s] = {} /\ pc'[s] = "idle" /\ UNCHANGED <<row, ready>>
    BY <1>1 DEF ProcessWaiting, Rollback, TypeOK
  <2> QED
    BY <2>1, RollbackPrepared
<1>2. CASE ~Rollback(s)
  <2>1. j \in todo[s] /\ j \in Job
    BY FirstTodo DEF ProcessWaiting
  <2>2. /\ pc[s] = "waiting" /\ pc' = pc /\ row' = row /\ ready' = ready
        /\ \/ UNCHANGED <<obj, dirty>>
           \/ /\ ~RaisesNoClient(View(s), {}, j) /\ ~IsJobBlocked(View(s), {}, j)
              /\ obj'[s] = [obj[s] EXCEPT ![j] = r]
              /\ dirty'[s] = dirty[s] \cup {j}
    BY <1>2 DEF ProcessWaiting, Save, TypeOK
  <2>3. CASE UNCHANGED <<obj, dirty>>
    <3>1. \A k \in Job : View(s)'[k] = View(s)[k]
      BY <2>2, <2>3 DEF View
    <3> QED
      BY <2>2, <3>1, SkipPrepared
  <2>4. CASE /\ ~IsJobBlocked(View(s), {}, j)
             /\ obj'[s] = [obj[s] EXCEPT ![j] = r]
             /\ dirty'[s] = dirty[s] \cup {j}
    <3>1. j \notin dirty[s] /\ obj[s][j].status = "waiting" /\ row[j].status = "waiting"
      BY <2>1, <2>2 DEF CalmInv, Current, Inside
    <3>2. View(s)[j] = row[j]
      BY <2>1, <3>1 DEF View
    <3>3. r.status = "pending" /\ r.dep = View(s)[j].dep
      BY <2>1, <2>2, <3>1, <3>2 DEF TypeOK, Row, DepInv, Copied, Inside
    <3>4. \A k \in Job : View(s)'[k] = IF k = j THEN r ELSE View(s)[k]
      BY <2>1, <2>2, <2>4 DEF View, TypeOK
    <3>5. DependentJobsFinished(View(s), j) /\ SameClientJobs(View(s), j) = {}
      BY <2>4 DEF IsJobBlocked
    <3>6. OneChain(View(s)')
      <4>1. PICK T, U : T = View(s) /\ U = View(s)'
        OBVIOUS
      <4>2. OneChain(T)
        BY <4>1 DEF ChainsKept
      <4>3. PICK y \in Job : y = j
        BY <2>1
      <4>4. /\ T[y].status = "waiting" /\ U[y].status = "pending" /\ U[y].dep = T[y].dep
            /\ \A k \in Job : k # y => U[k] = T[k]
        BY <2>1, <3>1, <3>2, <3>3, <3>4, <4>1, <4>3
      <4>5. DependentJobsFinished(T, y) /\ SameClientJobs(T, y) = {}
        BY <3>5, <4>1, <4>3
      <4>6. OneChain(U)
        BY <4>2, <4>4, <4>5, ChainPromoted
      <4> QED
        BY <4>1, <4>6
    <3>7. ChainsKept'
      BY <1>0, <2>2, <3>6 DEF ChainsKept
    <3>8. LeftAwaited' /\ Provided' /\ OneHost(ready)'
      BY <1>0, <2>2 DEF LeftAwaited, Provided, OneHost
    <3>9. \A k \in Job : /\ Busy(View(s)'[k]) => Busy(View(s)[k])
                         /\ View(s)[k].status \in Finished => View(s)'[k].status \in Finished
      BY <3>1, <3>2, <3>3, <3>4 DEF Busy, Finished
    <3>10. BusyPrepared'
      BY <1>0, <2>2, <3>9 DEF BusyPrepared, IsReady
    <3> QED
      BY <3>7, <3>8, <3>10
  <2> QED
    BY <2>2, <2>3, <2>4
<1> QED
  BY <1>1, <1>2

\* A round that starts a preparation, or the job that is visited: what was to prepare
\* that job is over then, for it waits for it.
LEMMA StartPrepared ==
    ASSUME Orderly, NEW s \in Scheduler, NEW j \in Job, NEW F \in SUBSET Job,
           StartTask(s, j, obj[s][j], F), UNCHANGED <<row, ready>>,
           ~RaisesNoClient(View(s), Marked(s), j),
           ~IsJobBlocked(View(s), Marked(s), j),
           pc[s] = "deps", left'[s] \in SUBSET left[s],
           pc'[s] = "deps" => j \in Dependency /\ todo'[s] = todo[s],
           obj[s][j].dep = View(s)[j].dep,
           j \notin Dependency => View(s)[j].status = "pending" /\ j = First(todo[s]),
           j \in Dependency /\ ClientOf[j] # None => IsAwaited(View(s), j)
    PROVE  PrepInv'
<1> USE DEF Orderly, Waits, Known, PrepInv
<1> DEFINE r == [obj[s][j] EXCEPT !.status = "starting"]
<1>0. Scheduler = {s}
  BY OneScheduler
<1>1. r.status = "starting" /\ r.dep = View(s)[j].dep
  BY DEF TypeOK, Row
<1>2. \A k \in Job : View(s)'[k] = IF k = j THEN r ELSE View(s)[k]
  BY DEF StartTask, Save, TypeOK, View
<1>3. /\ j \notin Marked(s) /\ DependentJobsFinished(View(s), j)
      /\ SameClientJobs(View(s), j) = {} /\ ClientOf[j] # None
  BY DEF RaisesNoClient, IsJobBlocked
<1>4. ASSUME NEW k \in Job, ClientOf[k] = ClientOf[j] PROVE ~Busy(View(s)[k])
  BY <1>3, <1>4 DEF SameClientJobs
<1>5. OneChain(View(s)')
  <2>1. PICK T, U : T = View(s) /\ U = View(s)'
    OBVIOUS
  <2>2. OneChain(T) /\ DependentJobsFinished(T, j) /\ SameClientJobs(T, j) = {}
    BY <1>3, <2>1 DEF ChainsKept
  <2>3. /\ U[j].status = "starting" /\ U[j].dep = T[j].dep
        /\ \A k \in Job : k # j => U[k] = T[k]
        /\ j \notin Dependency => T[j].status = "pending"
    BY <1>1, <1>2, <2>1
  <2>4. j \in Dependency /\ ClientOf[j] # None => IsAwaited(T, j)
    BY <2>1
  <2>5. OneChain(U)
    BY <2>2, <2>3, <2>4, ChainStarted
  <2> QED
    BY <2>1, <2>5
<1>6. ChainsKept' /\ OneHost(ready)'
  BY <1>0, <1>5 DEF ChainsKept, OneHost
<1>7. LeftAwaited'
  <2> SUFFICES ASSUME pc'[s] = "deps", NEW k \in left'[s], ClientOf[k] # None
               PROVE  IsAwaited(View(s)', k)
    BY <1>0 DEF LeftAwaited
  <2>1. k \in Job /\ IsAwaited(View(s), k)
    BY DEF LeftAwaited, TypeOK
  <2>2. PICK i \in Job : /\ View(s)[k].dep = i /\ View(s)[i].status = "pending"
                         /\ HasDependencies(i) /\ Serves(k, i)
    BY <2>1 DEF IsAwaited
  <2>3. View(s)'[i] = View(s)[i] /\ View(s)'[k].dep = View(s)[k].dep
    BY <1>1, <1>2, <2>1, <2>2 DEF HasDependencies
  <2> QED
    BY <2>2, <2>3 DEF IsAwaited
<1>8. Provided'
  <2> SUFFICES ASSUME NEW i \in Job, pc'[s] = "deps", i = First(todo[s]),
                      HasDependencies(i), ClientOf[i] # None, ~IsReady(i)
               PROVE  \E k \in Dependency : /\ Serves(k, i) /\ View(s)'[k].dep = i
                                            /\ View(s)'[k].status # "absent"
    BY <1>0 DEF Provided, IsReady
  <2>1. PICK k \in Dependency : /\ Serves(k, i) /\ View(s)[k].dep = i
                                /\ View(s)[k].status # "absent"
    BY DEF Provided
  <2>2. k \in Job
    BY JobAssumption
  <2>3. View(s)'[k].dep = View(s)[k].dep
    BY <1>1, <1>2, <2>2
  <2>4. View(s)'[k].status \in {"starting", View(s)[k].status}
    BY <1>1, <1>2, <2>2
  <2> QED
    BY <2>1, <2>3, <2>4
<1>9. BusyPrepared'
  <2> SUFFICES ASSUME NEW i \in Job, Busy(View(s)'[i]), HasDependencies(i)
               PROVE  /\ ClientOf[i] # None
                      /\ \/ IsReady(i)
                         \/ \E k \in Job : Serves(k, i) /\ View(s)'[k].status \in Finished
    BY <1>0 DEF BusyPrepared, IsReady
  <2>1. CASE i = j
    <3>1. View(s)[j].status = "pending" /\ j = First(todo[s])
      BY <2>1 DEF HasDependencies
    <3>2. ASSUME ~IsReady(j)
          PROVE  \E k \in Job : Serves(k, j) /\ View(s)'[k].status \in Finished
      <4>1. PICK k \in Dependency : /\ Serves(k, j) /\ View(s)[k].dep = j
                                    /\ View(s)[k].status # "absent"
        BY <1>3, <2>1, <3>1, <3>2 DEF Provided
      <4>2. k \in Job /\ View(s)[k].status \in Status
        BY JobAssumption, ViewType DEF Row
      <4>3. View(s)[k].status \notin ActiveStates
        BY <1>3, <4>1, <4>2 DEF DependentJobsFinished
      <4>4. ~Busy(View(s)[k])
        BY <1>4, <4>1, <4>2 DEF Serves
      <4>5. View(s)[k].status \in Finished
        BY <4>1, <4>2, <4>3, <4>4 DEF Status, ActiveStates, Busy, Finished
      <4>6. View(s)'[k] = View(s)[k]
        BY <1>2, <3>1, <4>2, <4>5 DEF Finished
      <4> QED
        BY <4>1, <4>2, <4>5, <4>6
    <3> QED
      BY <1>3, <2>1, <3>2
  <2>2. CASE i # j
    <3>1. Busy(View(s)[i])
      BY <1>2, <2>2
    <3>2. ASSUME NEW k \in Job, Serves(k, i)
          PROVE  View(s)'[k] = View(s)[k]
      BY <1>2, <1>4, <3>1, <3>2 DEF Serves
    <3> QED
      BY <3>1, <3>2 DEF BusyPrepared
  <2> QED
    BY <2>1, <2>2
<1> QED
  BY <1>6, <1>7, <1>8, <1>9

LEMMA GenerateDependenciesPrepared ==
    ASSUME Orderly, NEW s \in Scheduler, GenerateDependencies(s)
    PROVE  PrepInv'
<1> USE DEF Orderly, Waits, Known, PrepInv, Others
<1> DEFINE new(D) == {p \in D : View(s)[p].status = "absent"}
<1>0. Scheduler = {s}
  BY OneScheduler
<1>1. PICK j \in Job : j = First(todo[s]) /\ j \in todo[s] /\ pc[s] = "pending"
  BY FirstTodo DEF GenerateDependencies
<1>2. row' = row /\ ready' = ready
  BY DEF GenerateDependencies
<1>3. CASE DependencyChoices(s, j) = {}
  <2>1. pc' = pc /\ obj' = obj /\ dirty' = dirty
    BY <1>1, <1>3 DEF GenerateDependencies
  <2>2. \A k \in Job : View(s)'[k] = View(s)[k]
    BY <1>2, <2>1 DEF View
  <2> QED
    BY <1>1, <1>2, <2>1, <2>2, SkipPrepared
<1>4. CASE DependencyChoices(s, j) # {}
  <2>1. PICK D \in DependencyChoices(s, j) :
          /\ left' = [left EXCEPT ![s] = D]
          /\ obj' = [obj EXCEPT ![s] = [k \in Job |->
                        IF k \in new(D) THEN PrepRow(j)
                        ELSE IF k \in D THEN View(s)[k] ELSE @[k]]]
          /\ dirty' = [dirty EXCEPT ![s] = @ \cup new(D)]
          /\ pc' = [pc EXCEPT ![s] = "deps"]
          /\ UNCHANGED todo
    BY <1>1, <1>4 DEF GenerateDependencies
  <2>2. D \in SUBSET {k \in Job : TypeOf[k] = "check"} /\ D \in SUBSET Dependency
    BY <1>1, DependenciesAreChecks DEF Chained
  <2>3. /\ pc'[s] = "deps" /\ left'[s] = D /\ dirty'[s] = dirty[s] \cup new(D)
        /\ \A k \in Job : obj'[s][k] = IF k \in new(D) THEN PrepRow(j)
                              ELSE IF k \in D THEN View(s)[k] ELSE obj[s][k]
    BY <2>1 DEF TypeOK
  <2>4. \A k \in Job :
          View(s)[k] = IF k \in dirty[s] THEN obj[s][k] ELSE row[k]
    BY DEF View
  <2>5. \A k \in Job : View(s)'[k] = IF k \in new(D) THEN PrepRow(j) ELSE View(s)[k]
    BY <1>2, <2>3, <2>4 DEF View
  <2>6. PrepRow(j).status = "pending" /\ PrepRow(j).dep = j
    BY DEF PrepRow
  <2>7. ASSUME HasDependencies(j)
        PROVE  View(s)[j].status = "pending" /\ j \notin Dependency
    <3>1. j \notin Dependency /\ TypeOf[j] # "check"
      BY <1>1, <2>7 DEF HasDependencies, Chained
    <3>2. obj[s][j].status = "pending"
      BY <1>1, <3>1 DEF CalmInv, Current, DepInv, Unmarked
    <3> QED
      BY <1>1, <3>1, <3>2 DEF View, CalmInv, Current, Inside
\* A new preparation of a client has the client and the host of the job.
  <2>8. ASSUME NEW k \in FreeClientPreps(View(s), j)
        PROVE  k \in Dependency /\ View(s)[k].status = "absent" /\ Serves(k, j)
    BY <2>8, JobAssumption DEF FreeClientPreps, FreePreps, Serves, SingleChains
  <2>9. ASSUME NEW k \in new(D)
        PROVE  HasDependencies(j) /\ (ClientOf[k] = None \/ Serves(k, j))
    <3>1. HasDependencies(j)
      BY <2>9 DEF DependencyChoices
    <3>2. k \in FreeRepositoryPreps(View(s), j) \cup FreeClientPreps(View(s), j)
      BY <1>1, <2>9, ChosenDependencies DEF Queued
    <3> QED
      BY <2>8, <3>1, <3>2 DEF FreeRepositoryPreps
\* A queued one is awaited by the head of the chain, which the job is.
  <2>10. ASSUME NEW k \in Job, k \in Dependency, View(s)[k].status \in Queued,
                ClientOf[k] # None
         PROVE  IsAwaited(View(s), k)
    BY <2>10 DEF ChainsKept, OneChain, PrepsAwaited, Queued, Live, ActiveStates
  <2>11. ASSUME NEW k \in Job, IsAwaited(View(s), k), k \notin new(D)
         PROVE  IsAwaited(View(s)', k)
    <3>1. PICK i \in Job : /\ View(s)[k].dep = i /\ View(s)[i].status = "pending"
                           /\ HasDependencies(i) /\ Serves(k, i)
      BY <2>11 DEF IsAwaited
    <3>2. View(s)'[i] = View(s)[i] /\ View(s)'[k] = View(s)[k]
      BY <2>2, <2>5, <2>11, <3>1 DEF HasDependencies
    <3> QED
      BY <3>1, <3>2 DEF IsAwaited
  <2>12. OneChain(View(s)')
    <3>1. CASE new(D) = {}
      <4>1. View(s)' = View(s)
        BY <2>5, <3>1 DEF View
      <4> QED
        BY <4>1 DEF ChainsKept
    <3>2. CASE new(D) # {}
      <4>1. PICK T, U, N : T = View(s) /\ U = View(s)' /\ N = new(D)
        OBVIOUS
      <4>2. HasDependencies(j)
        BY <2>9, <3>2
      <4>3. OneChain(T) /\ T[j].status = "pending"
        BY <2>7, <4>1, <4>2 DEF ChainsKept
      <4>4. /\ N \in SUBSET Dependency
            /\ \A k \in Job : U[k] = IF k \in N THEN PrepRow(j) ELSE T[k]
            /\ \A k \in N : ClientOf[k] = None \/ Serves(k, j)
        BY <2>2, <2>5, <2>9, <4>1
      <4>5. OneChain(U)
        BY <4>2, <4>3, <4>4, ChainAdded
      <4> QED
        BY <4>1, <4>5
    <3> QED
      BY <3>1, <3>2
  <2>13. ChainsKept' /\ OneHost(ready)'
    BY <1>0, <1>2, <2>12 DEF ChainsKept, OneHost
  <2>14. LeftAwaited'
    <3> SUFFICES ASSUME NEW k \in D, ClientOf[k] # None
                 PROVE  IsAwaited(View(s)', k)
      BY <1>0, <2>3 DEF LeftAwaited
    <3>0. k \in Job /\ k \in Dependency
      BY <2>2
    <3>1. CASE k \in new(D)
      <4>1. HasDependencies(j) /\ Serves(k, j)
        BY <2>9, <3>1
      <4>2. View(s)'[k].dep = j /\ View(s)'[j].status = "pending"
        BY <2>2, <2>5, <2>6, <2>7, <3>0, <3>1, <4>1
      <4> QED
        BY <4>1, <4>2 DEF IsAwaited
    <3>2. CASE k \notin new(D)
      <4>1. View(s)[k].status \in Queued
        BY <1>1, <3>0, <3>2, DependenciesAreQueued
      <4> QED
        BY <2>10, <2>11, <3>0, <3>2, <4>1
    <3> QED
      BY <3>1, <3>2
  <2>15. Provided'
    <3> SUFFICES ASSUME HasDependencies(j), ClientOf[j] # None, ~IsReady(j)
                 PROVE  \E k \in Dependency : /\ Serves(k, j) /\ View(s)'[k].dep = j
                                              /\ View(s)'[k].status # "absent"
      BY <1>0, <1>1, <1>2, <2>1 DEF Provided, IsReady
    <3>1. PICK k \in D : \/ k \in FreeClientPreps(View(s), j)
                         \/ /\ k \in Job /\ TypeOf[k] = "check"
                            /\ ClientOf[k] = ClientOf[j]
                            /\ View(s)[k].status \in Queued
      BY ClientChoice
    <3>0. k \in Job /\ k \in Dependency
      BY <2>2
    <3>2. CASE k \in FreeClientPreps(View(s), j)
      <4>1. k \in new(D) /\ Serves(k, j)
        BY <2>8, <3>2
      <4> QED
        BY <2>5, <2>6, <3>0, <4>1
    <3>3. CASE ClientOf[k] = ClientOf[j] /\ View(s)[k].status \in Queued
      <4>1. PICK i \in Job : /\ View(s)[k].dep = i /\ View(s)[i].status = "pending"
                             /\ HasDependencies(i) /\ Serves(k, i)
        BY <2>10, <3>0, <3>3 DEF IsAwaited
      <4>2. Head(View(s), i) /\ Head(View(s), j)
        BY <2>7, <4>1 DEF ChainsKept, OneChain, HeadsFirst, HasDependencies
      <4>3. i = j
        BY <3>3, <4>1, <4>2 DEF ChainsKept, OneChain, OneHead, Serves
      <4>4. View(s)'[k] = View(s)[k] /\ View(s)[k].status # "absent"
        BY <2>5, <3>0, <3>3 DEF Queued
      <4> QED
        BY <3>0, <4>1, <4>3, <4>4
    <3> QED
      BY <3>1, <3>2, <3>3
  <2>16. BusyPrepared'
    <3>1. \A k \in Job : /\ Busy(View(s)'[k]) => Busy(View(s)[k])
                         /\ View(s)[k].status \in Finished => View(s)'[k].status \in Finished
      BY <2>5, <2>6 DEF Busy, Finished
    <3> QED
      BY <1>0, <1>2, <3>1 DEF BusyPrepared, IsReady
  <2> QED
    BY <2>13, <2>14, <2>15, <2>16
<1> QED
  BY <1>3, <1>4

LEMMA ProcessDependencyPrepared ==
    ASSUME Orderly, NEW s \in Scheduler, ProcessDependency(s)
    PROVE  PrepInv'
<1> USE DEF Orderly, Waits, Known, PrepInv, Others
<1> DEFINE d == NextDependency(left[s])
           F == deps[s] \cup {d, First(todo[s])}
<1>1. CASE RaisesNoClient(View(s), Marked(s), d)
  <2>1. dirty'[s] = {} /\ pc'[s] = "idle" /\ UNCHANGED <<row, ready>>
    BY <1>1 DEF ProcessDependency, Rollback, TypeOK
  <2> QED
    BY <2>1, RollbackPrepared
<1>2. CASE ~RaisesNoClient(View(s), Marked(s), d)
  <2>1. /\ pc[s] = "deps" /\ pc' = pc /\ todo' = todo
        /\ left'[s] = left[s] \ {d}
        /\ row' = row /\ ready' = ready /\ d \in left[s] /\ d \in Job
    BY <1>2, NextDependencyIsMember DEF ProcessDependency, TypeOK
  <2>2. CASE IsJobBlocked(View(s), Marked(s), d)
    <3>1. UNCHANGED <<obj, dirty>>
      BY <1>2, <2>2 DEF ProcessDependency
    <3>2. \A k \in Job : View(s)'[k] = View(s)[k]
      BY <2>1, <3>1 DEF View
    <3> QED
      BY <2>1, <3>2, SkipPrepared
  <2>3. CASE ~IsJobBlocked(View(s), Marked(s), d)
    <3>1. StartTask(s, d, obj[s][d], F)
      BY <1>2, <2>3 DEF ProcessDependency
    <3>2. F \in SUBSET Job
      BY <2>1, FirstTodo DEF PassShape, TypeOK
    <3>3. d \in Dependency
      BY <2>1 DEF CalmInv, Current, Chained
    <3>4. obj[s][d].dep = View(s)[d].dep
      BY <2>1 DEF DepInv, Copied
    <3>5. ClientOf[d] # None => IsAwaited(View(s), d)
      BY <2>1 DEF LeftAwaited
    <3> QED
      BY <1>2, <2>1, <2>3, <3>1, <3>2, <3>3, <3>4, <3>5, StartPrepared
  <2> QED
    BY <2>2, <2>3
<1> QED
  BY <1>1, <1>2

LEMMA ProcessTaskPrepared ==
    ASSUME Orderly, NEW s \in Scheduler, ProcessTask(s)
    PROVE  PrepInv'
<1> USE DEF Orderly, Waits, Known, PrepInv, Others
<1> DEFINE j == First(todo[s])
<1>1. CASE Rollback(s)
  <2>1. dirty'[s] = {} /\ pc'[s] = "idle" /\ UNCHANGED <<row, ready>>
    BY <1>1 DEF ProcessTask, Rollback, TypeOK
  <2> QED
    BY <2>1, RollbackPrepared
<1>2. CASE ~Rollback(s)
  <2>1. /\ pc[s] = "deps" /\ pc'[s] = "pending" /\ left' = left
        /\ row' = row /\ ready' = ready /\ ~RaisesNoClient(View(s), Marked(s), j)
    BY <1>2 DEF ProcessTask, TypeOK
  <2>2. j \in todo[s] /\ j \in Job
    BY <2>1, FirstTodo DEF PassShape
  <2>3. CASE IsJobBlocked(View(s), Marked(s), j)
    <3>1. UNCHANGED <<obj, dirty>>
      BY <1>2, <2>3 DEF ProcessTask
    <3>2. \A k \in Job : View(s)'[k] = View(s)[k]
      BY <2>1, <3>1 DEF View
    <3> QED
      BY <2>1, <3>2, SkipPrepared
  <2>4. CASE ~IsJobBlocked(View(s), Marked(s), j)
    <3>1. StartTask(s, j, obj[s][j], {j})
      BY <1>2, <2>4 DEF ProcessTask
    <3>2. obj[s][j].status = "pending"
      BY <2>1, <2>2, <2>4, UnblockedJob DEF CalmInv, Current
    <3>3. obj[s][j].dep = View(s)[j].dep
      BY <2>1, <2>2, <3>2 DEF DepInv, Copied, Inside
    <3>4. View(s)[j].status = "pending"
      BY <2>1, <2>2, <3>2 DEF View, CalmInv, Current, Inside
    <3>5. j \in Dependency /\ ClientOf[j] # None => IsAwaited(View(s), j)
      BY <3>4 DEF ChainsKept, OneChain, PrepsAwaited, Live, ActiveStates
    <3> QED
      BY <2>1, <2>2, <2>4, <3>1, <3>3, <3>4, <3>5, StartPrepared
  <2> QED
    BY <2>3, <2>4
<1> QED
  BY <1>1, <1>2

LEMMA PassPrepared ==
    ASSUME Orderly, NEW s \in Scheduler, PassStep(s) \/ SchedulerCrash(s)
    PROVE  PrepInv'
<1> USE DEF Orderly, Waits, Known, Others
<1>1. CASE BeginPass(s)
  <2>1. /\ dirty'[s] = {} /\ pc'[s] = "waiting" /\ UNCHANGED <<row, ready>>
    BY <1>1 DEF BeginPass, TypeOK, PassShape, Inside
  <2> QED
    BY <2>1, RollbackPrepared
<1>2. CASE ProcessPending(s)
  <2>1. CASE Rollback(s)
    <3>1. dirty'[s] = {} /\ pc'[s] = "idle" /\ UNCHANGED <<row, ready>>
      BY <1>2, <2>1 DEF ProcessPending, Rollback, TypeOK
    <3> QED
      BY <3>1, RollbackPrepared
  <2>2. CASE ~Rollback(s)
    <3>1. pc'[s] = "pending" /\ UNCHANGED <<row, ready, obj, dirty>>
      BY <1>2, <2>2 DEF ProcessPending, TypeOK
    <3>2. \A k \in Job : View(s)'[k] = View(s)[k]
      BY <3>1 DEF View
    <3> QED
      BY <3>1, <3>2, SkipPrepared
  <2> QED
    BY <2>1, <2>2
<1>3. CASE ReleaseLock(s) \/ SendTask(s)
  <2>1. /\ pc'[s] \in {"idle", "commit", "send"}
        /\ UNCHANGED <<row, ready, obj, dirty>>
    BY <1>3 DEF ReleaseLock, SendTask, TypeOK
  <2>2. \A k \in Job : View(s)'[k] = View(s)[k]
    BY <2>1 DEF View
  <2> QED
    BY <2>1, <2>2, SkipPrepared
<1>4. CASE Commit(s)
  <2>1. /\ row' = View(s) /\ ready' = ready /\ dirty'[s] = {}
        /\ pc'[s] \in {"idle", "send"}
    BY <1>4 DEF Commit, TypeOK
  <2>2. \A k \in Job : View(s)'[k] = View(s)[k]
    BY <2>1 DEF View
  <2> QED
    BY <2>1, <2>2, SkipPrepared
<1>5. CASE SchedulerCrash(s)
  <2>1. dirty'[s] = {} /\ pc'[s] = "idle" /\ UNCHANGED <<row, ready>>
    BY <1>5 DEF SchedulerCrash, Rollback, TypeOK
  <2> QED
    BY <2>1, RollbackPrepared
<1> QED
  BY <1>1, <1>2, <1>3, <1>4, <1>5, ProcessWaitingPrepared,
     GenerateDependenciesPrepared, ProcessDependencyPrepared, ProcessTaskPrepared
     DEF PassStep

\* Workers and users: what is awaited, and what is over, stays so.
LEMMA OutsidePrepared ==
    ASSUME Orderly, UNCHANGED pass, OneHost(ready)',
           \A j \in Job : ClientOf[j] # None /\ IsReady(j) => IsReady(j)',
           \A k \in Job : /\ row'[k].dep = row[k].dep
                          /\ Busy(row'[k]) => Busy(row[k])
                          /\ row'[k].status \in Live => row[k].status \in Live
                          /\ row[k].status \in {"absent", "new", "pending", "waiting"}
                                => row'[k].status = row[k].status
                          /\ row[k].status \in Finished => row'[k].status \in Finished
                          /\ row[k].status # "absent" => row'[k].status # "absent"
    PROVE  PrepInv'
<1> USE DEF Orderly, Waits, Known, PrepInv
<1>0. PICK s \in Scheduler : Scheduler = {s}
  BY DEF Calm
<1>p. UNCHANGED <<dirty, obj, pc, todo, left>>
  BY DEF pass
<1>1. \A k \in Job :
        /\ View(s)'[k].dep = View(s)[k].dep
        /\ Busy(View(s)'[k]) => Busy(View(s)[k])
        /\ View(s)'[k].status \in Live => View(s)[k].status \in Live
        /\ View(s)[k].status \in {"new", "pending", "waiting"}
              => View(s)'[k].status = View(s)[k].status
        /\ View(s)[k].status \in Finished => View(s)'[k].status \in Finished
        /\ View(s)[k].status # "absent" => View(s)'[k].status # "absent"
  BY <1>p DEF View
<1>2. OneChain(row')
  <2>1. PICK T, U : T = row /\ U = row'
    OBVIOUS
  <2>2. OneChain(T)
    BY <2>1 DEF ChainsKept
  <2>3. OneChain(U)
    BY <2>1, <2>2, ChainGoesOn
  <2> QED
    BY <2>1, <2>3
<1>3. OneChain(View(s)')
  <2>1. PICK T, U : T = View(s) /\ U = View(s)'
    OBVIOUS
  <2>2. OneChain(T)
    BY <2>1 DEF ChainsKept
  <2>3. OneChain(U)
    BY <1>1, <2>1, <2>2, ChainGoesOn
  <2> QED
    BY <2>1, <2>3
<1>4. ChainsKept'
  BY <1>0, <1>2, <1>3 DEF ChainsKept
<1>5. LeftAwaited'
  <2>1. ASSUME NEW k \in Job, IsAwaited(View(s), k)
        PROVE  IsAwaited(View(s)', k)
    BY <1>1, <2>1 DEF IsAwaited
  <2> QED
    BY <1>0, <1>p, <2>1 DEF LeftAwaited, TypeOK
<1>6. Provided'
  <2> SUFFICES ASSUME NEW j \in Job, pc[s] = "deps", j = First(todo[s]),
                      HasDependencies(j), ClientOf[j] # None, ~IsReady(j)'
               PROVE  \E k \in Dependency : /\ Serves(k, j) /\ View(s)'[k].dep = j
                                            /\ View(s)'[k].status # "absent"
    BY <1>0, <1>p DEF Provided
  <2>1. PICK k \in Dependency : /\ Serves(k, j) /\ View(s)[k].dep = j
                                /\ View(s)[k].status # "absent"
    BY DEF Provided
  <2>2. k \in Job
    BY JobAssumption
  <2> QED
    BY <1>1, <2>1, <2>2
<1>7. BusyPrepared'
  <2> SUFFICES ASSUME NEW j \in Job, Busy(View(s)'[j]), HasDependencies(j)
               PROVE  /\ ClientOf[j] # None
                      /\ \/ IsReady(j)'
                         \/ \E k \in Job : Serves(k, j) /\ View(s)'[k].status \in Finished
    BY <1>0 DEF BusyPrepared
  <2>1. /\ ClientOf[j] # None
        /\ \/ IsReady(j)
           \/ \E k \in Job : Serves(k, j) /\ View(s)[k].status \in Finished
    BY <1>1 DEF BusyPrepared
  <2> QED
    BY <1>1, <2>1
<1> QED
  BY <1>4, <1>5, <1>6, <1>7

LEMMA PreparedStep ==
    ASSUME Orderly, [Next]_vars
    PROVE  PrepInv'
<1>k. Known /\ Waits /\ TypeOK /\ SingleChains /\ OneHost(ready)
  BY DEF Orderly, Waits, Known, PrepInv
<1>r. /\ OneHost(ready)'
      /\ \A j \in Job : ClientOf[j] # None /\ IsReady(j) => IsReady(j)'
  BY <1>k, ReadyStays
<1>1. ASSUME NEW s \in Scheduler, PassStep(s) \/ SchedulerCrash(s)
      PROVE  PrepInv'
  BY <1>1, PassPrepared
<1>2. ASSUME \/ \E d \in Job \X Slot : WorkerStep(d) \/ ReportReady(d)
                                        \/ WorkerCrash(d) \/ Redeliver(d)
             \/ UserStep
      PROVE  PrepInv'
  <2>1. UNCHANGED pass
    BY <1>2, PassesUnchanged
  <2> QED
    BY <1>2, <1>k, <1>r, <2>1, RowsCalm, OutsidePrepared
<1>3. CASE UNCHANGED vars
  <2>1. row' = row /\ UNCHANGED pass
    BY <1>3 DEF vars, pass
  <2> QED
    BY <1>r, <2>1, OutsidePrepared
<1>4. CASE Next
  BY <1>1, <1>2, <1>4 DEF Next
<1> QED
  BY <1>3, <1>4

LEMMA PreparedInit ==
    ASSUME SingleChains, Init
    PROVE  PrepInv
<1>1. PICK o \in Origins : row = o.row /\ ready = o.ready
  BY DEF Init
<1>2. \A s \in Scheduler : View(s) = row
  BY <1>1, TaskManagerAssumption DEF Init, View
<1>3. ChainsKept /\ OneHost(ready)
  BY <1>1, <1>2 DEF SingleChains, ChainsKept
<1>4. BusyPrepared
  BY <1>1, <1>2 DEF SingleChains, Chained, Calm, BusyPrepared
<1>5. LeftAwaited /\ Provided
  BY DEF Init, LeftAwaited, Provided
<1> QED
  BY <1>3, <1>4, <1>5 DEF PrepInv

\* A job that needs preparations never runs before its client, or the host of its
\* client, is ready or a preparation of it has ended, whatever dies, is canceled or
\* remains unanswered meanwhile, if each client has one chain of jobs: an unfinished
\* preparation is then awaited by the job it was made for.
THEOREM PreparationsComeFirst ==
    ASSUME SingleChains
    PROVE  Spec => []PreparedFirst
<1>0. Chained
  BY DEF SingleChains
<1>1. Init => PrepInv
  BY PreparedInit
<1>2. TypeOK /\ PassShape /\ CalmInv /\ DepInv /\ PrepInv /\ [Next]_vars => PrepInv'
  BY <1>0, PreparedStep DEF Orderly, Waits, Known, Chained
<1>3. TypeOK /\ PassShape /\ CalmInv /\ DepInv /\ PrepInv => PreparedFirst
  <2> SUFFICES ASSUME TypeOK, CalmInv, PrepInv, NEW d \in Job \X Slot, Runs(d),
                      HasDependencies(d[1])
               PROVE  Prepared(d[1])
    BY DEF PreparedFirst
  <2>1. PICK j \in Job : j = d[1] /\ row[j].status = "running"
    BY DEF Runs, CalmInv, Messages, Alive, Recorded
  <2>2. PICK s \in Scheduler : TRUE
    BY <1>0 DEF Chained, Calm
  <2>3. Busy(View(s)[j])
    BY <2>1 DEF View, CalmInv, Current, Startable, Busy
  <2>4. \/ IsReady(j)
        \/ \E k \in Job : Serves(k, j) /\ View(s)[k].status \in Finished
    BY <2>1, <2>3 DEF PrepInv, BusyPrepared
  <2>5. ASSUME NEW k \in Job, View(s)[k].status \in Finished
        PROVE  row[k].status \in Finished
    BY <2>5 DEF View, CalmInv, Current, Finished
  <2> QED
    BY <2>1, <2>4, <2>5 DEF Prepared, Serves
<1> QED
  BY <1>0, <1>1, <1>2, <1>3, WaitsInvariant, PTL DEF Spec

=============================================================================
