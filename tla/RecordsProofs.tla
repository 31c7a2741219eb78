--------------------------- MODULE RecordsProofs ---------------------------
(***************************************************************************)
(* Theorems about Records, for any records, references between them, jobs, *)
(* users and requests.                                                     *)
(***************************************************************************)
EXTENDS Records, TLAPS

\* A request that has begun has an ask, of a user who was there.
AskInv == \A q \in Request : req[q].pc # "idle" => req[q].ask \in Asks[q]
AuthorInv ==
    \A q \in Request : req[q].pc # "idle" =>
        /\ \/ req[q].ask.op = "system" /\ req[q].ask.by = None
           \/ /\ req[q].ask.by \in User
              /\ There(req[q].ask.by) \/ req[q].ask.by \in removed
        /\ req[q].pc \in {"collected", "saved", "stored"} => req[q].ask.op # "system"

\* Jobs are there from the beginning, until they are removed.
SeenInv == \A j \in Job : There(j) \/ j \in removed

\* No foreign key dangles.
RefInv ==
    /\ \A x \in Row : There(x) => \A y \in Refs[x] : There(y)
    /\ \A x \in Row : row[x].by = None \/ There(row[x].by)

\* What a request depends on was there when it read it.
DependsOnInv ==
    \A q \in Request : req[q].pc # "idle" =>
        /\ req[q].copy.state \notin {"new", "gone"}
        /\ \A y \in Refs[req[q].ask.on] : There(y) \/ y \in removed
        /\ \/ req[q].copy.by = None \/ There(req[q].copy.by)
           \/ req[q].copy.by \in removed
        /\ req[q].pc = "saved" => There(req[q].ask.on) \/ req[q].ask.on \in removed

\* A job that a pass may start has no command, and a row that is there says what
\* its command does.
CommandInv ==
    \A j \in Job :
        /\ row[j].state = "waiting" \/ held[j].state = "waiting" => cmd[j] = "none"
        /\ There(j) /\ cmd[j] = "queued" => row[j].state = "starting"
        /\ There(j) /\ cmd[j] \in {"begun", "running"} => row[j].state = "running"

\* The rows that hold a repository or client are of jobs that do not conflict.
HolderInv ==
    \A j, k \in Job : Conflict(j, k) =>
        ~(row[j].state \in {"starting", "running"}
          /\ row[k].state \in {"starting", "running"})

RequestStep(q) == Read(q) \/ Save(q) \/ SavePassword(q) \/ Delete(q) \/ Log(q)
JobStep(j) == Begin(j) \/ Spawn(j) \/ Poll(j) \/ Finish(j)

\* The types of the pieces of a row and of a request.
LEMMA RowTypes ==
    ASSUME NEW v \in RowValue
    PROVE  /\ v.state \in RowState
           /\ v.by \in User \cup {None}
           /\ v.val \in [Field -> Request \cup {None}]
BY DEF RowValue

LEMMA NoValueType == NoValue \in RowValue /\ NoValue.state = "new"
BY DEF NoValue, RowValue, RowState, Field

LEMMA PcType ==
    ASSUME NEW r \in Serving, NEW p \in RequestPc
    PROVE  [r EXCEPT !.pc = p] \in Serving
BY DEF Serving

LEMMA StateType ==
    ASSUME NEW v \in RowValue, NEW s \in RowState
    PROVE  [v EXCEPT !.state = s] \in RowValue
BY DEF RowValue

LEMMA MovedType ==
    ASSUME TypeOK, NEW q \in Request, NEW p \in RequestPc,
           req' = [req EXCEPT ![q].pc = p]
    PROVE  req' \in [Request -> Serving]
<1>1. [req[q] EXCEPT !.pc = p] \in Serving
  BY PcType DEF TypeOK
<1>2. req' = [req EXCEPT ![q] = [req[q] EXCEPT !.pc = p]]
  OBVIOUS
<1>3. QED
  BY <1>1, <1>2 DEF TypeOK

LEMMA WrittenType ==
    ASSUME TypeOK, NEW q \in Request, req[q].ask \in Ask
    PROVE  /\ Written(q) \in RowValue
           /\ Written(q).by = req[q].copy.by
           /\ Written(q).state = req[q].copy.state
<1>1. req[q].copy \in RowValue
  BY DEF TypeOK, Serving
<1>2. \A f \in Field : req[q].copy.val[f] \in Request \cup {None}
  BY <1>1, RowTypes
<1>3. QED
  BY <1>1, <1>2, RowTypes DEF Written, RowValue

LEMMA FirstType ==
    ASSUME RecordsAssumption, NEW x, NEW author \in User \cup {None}
    PROVE  First(x, author) \in RowValue
<1>1. \A s \in RowState, u \in User \cup {None} :
         [NoValue EXCEPT !.state = s, !.by = u] \in RowValue
  BY DEF RowValue, NoValue
<1>2. QED
  BY <1>1 DEF First, RowState

LEMMA InitTypes == RecordsAssumption /\ Init => TypeOK
<1> SUFFICES ASSUME RecordsAssumption, Init PROVE TypeOK
  OBVIOUS
<1>1. PICK new \in SUBSET Creatable, author \in Authors :
        /\ author \notin new /\ \A x \in new, y \in Row : x \notin Refs[y]
        /\ row = [x \in Row |-> IF x \in new THEN NoValue ELSE First(x, author)]
  BY DEF Init
<1>2. author \in User \cup {None}
  BY DEF RecordsAssumption
<1>3. row \in [Row -> RowValue]
  BY <1>1, <1>2, FirstType, NoValueType
<1>4. req \in [Request -> Serving]
  BY NoValueType DEF Init, Serving, RequestPc
<1>5. QED
  BY <1>3, <1>4, NoValueType DEF Init, TypeOK

LEMMA TypeRequest ==
    ASSUME RecordsAssumption, TypeOK, AskInv, NEW q \in Request, RequestStep(q)
    PROVE  TypeOK'
<1>1. CASE Read(q)
  <2>1. PICK a \in Asks[q] : /\ a.op # "create" => There(a.on)
                             /\ req' = [req EXCEPT ![q] = Began(a)]
    BY <1>1 DEF Read
  <2>2. a \in Ask /\ a.on \in Row
    BY DEF RecordsAssumption, Ask, Row
  <2>3. Collected(a.on) \in SUBSET Row
    BY DEF Collected
  <2>4. Object(a) \in RowValue
    <3>1. row[a.on] \in RowValue
      BY <2>2 DEF TypeOK
    <3>2. \A u \in User \cup {None} :
             [NoValue EXCEPT !.state = "there", !.by = u] \in RowValue
      BY DEF NoValue, RowValue, RowState, Field
    <3>3. QED
      BY <2>2, <3>1, <3>2 DEF Object, Ask
  <2>5. Began(a) \in Serving
    BY <2>2, <2>3, <2>4 DEF Began, Serving, RequestPc
  <2>6. req' \in [Request -> Serving]
    BY <2>1, <2>5 DEF TypeOK
  <2>7. QED
    BY <1>1, <2>6 DEF Read, TypeOK
<1>2. CASE Save(q)
  <2>1. req[q].ask \in Ask /\ req[q].ask.on \in Row
    BY <1>2 DEF Save, AskInv, RecordsAssumption, Ask, Row
  <2>2. Written(q) \in RowValue
    BY <2>1, WrittenType
  <2>3. row' \in [Row -> RowValue]
    BY <1>2, <2>2 DEF Save, TypeOK
  <2>4. req' \in [Request -> Serving]
    <3>1. PICK p \in RequestPc : req' = [req EXCEPT ![q].pc = p]
      BY <1>2 DEF Save, Following, RequestPc
    <3>2. QED
      BY <3>1, MovedType
  <2>5. QED
    BY <1>2, <2>3, <2>4 DEF Save, TypeOK
<1>3. CASE SavePassword(q)
  <2>1. row' \in [Row -> RowValue]
    <3> DEFINE v == row[req[q].ask.on]
    <3>1. v \in RowValue
      BY <1>3 DEF SavePassword, AskInv, RecordsAssumption, Ask, Row, TypeOK
    <3>2. [v EXCEPT !.val["password"] = q] \in RowValue
      BY <3>1 DEF RowValue, Field
    <3>3. row' = [row EXCEPT ![req[q].ask.on] = [v EXCEPT !.val["password"] = q]]
             \/ row' = row
      BY <1>3 DEF SavePassword
    <3>4. QED
      BY <3>2, <3>3 DEF TypeOK
  <2>2. req' \in [Request -> Serving]
    <3>1. PICK p \in RequestPc : req' = [req EXCEPT ![q].pc = p]
      BY <1>3 DEF SavePassword, RequestPc
    <3>2. QED
      BY <3>1, MovedType
  <2>3. QED
    BY <1>3, <2>1, <2>2 DEF SavePassword, TypeOK
<1>4. CASE Delete(q)
  <2>1. Without(req[q].doomed) \in [Row -> RowValue]
    <3>1. [NoValue EXCEPT !.state = "gone"] \in RowValue
      BY NoValueType, StateType DEF RowState
    <3>2. \A v \in RowValue : [v EXCEPT !.by = None] \in RowValue
      BY DEF RowValue
    <3>3. QED
      BY <3>1, <3>2 DEF Without, TypeOK
  <2>2. req' \in [Request -> Serving]
    <3>1. PICK p \in RequestPc : req' = [req EXCEPT ![q].pc = p]
      BY <1>4 DEF Delete, RequestPc
    <3>2. QED
      BY <3>1, MovedType
  <2>3. removed' \subseteq Row /\ log' \subseteq Request
    BY <1>4 DEF Delete, TypeOK, Serving
  <2>4. QED
    BY <1>4, <2>1, <2>2, <2>3 DEF Delete, TypeOK
<1>5. CASE Log(q)
  <2>1. PICK p \in RequestPc : req' = [req EXCEPT ![q].pc = p]
    BY <1>5 DEF Log, RequestPc
  <2>2. req' \in [Request -> Serving]
    BY <2>1, MovedType
  <2>3. QED
    BY <1>5, <2>2 DEF Log, TypeOK
<1>6. QED
  BY <1>1, <1>2, <1>3, <1>4, <1>5 DEF RequestStep

LEMMA TypeJobs ==
    ASSUME RecordsAssumption, TypeOK,
           PassReads \/ PassCommits \/ \E j \in Job : JobStep(j)
    PROVE  TypeOK'
<1>1. CASE PassReads
  BY <1>1, NoValueType DEF PassReads, TypeOK, Row
<1>2. CASE PassCommits
  <2>1. held' \in [Job -> RowValue]
    BY <1>2, NoValueType DEF PassCommits
  <2>2. PICK S \in SUBSET Holding :
          IF \A j \in S : Accepted(j, held[j], None)
          THEN /\ row' = [x \in Row |-> IF x \in S
                                THEN [held[x] EXCEPT !.state = "starting"] ELSE row[x]]
               /\ cmd' = [j \in Job |-> IF j \in S THEN "queued" ELSE cmd[j]]
          ELSE UNCHANGED <<row, cmd>>
    BY <1>2 DEF PassCommits
  <2>3. \A x \in S : [held[x] EXCEPT !.state = "starting"] \in RowValue
    BY StateType DEF Holding, TypeOK, RowState
  <2>4. row' \in [Row -> RowValue]
    BY <2>2, <2>3 DEF TypeOK
  <2>5. cmd' \in [Job -> {"none", "queued", "begun", "running"}]
    BY <2>2 DEF TypeOK
  <2>6. QED
    BY <1>2, <2>1, <2>4, <2>5 DEF PassCommits, TypeOK
<1>3. ASSUME NEW j \in Job, JobStep(j) PROVE TypeOK'
  <2>1. \A s \in {"running", "ended"} : [row EXCEPT ![j].state = s] \in [Row -> RowValue]
    <3>1. j \in Row /\ row[j] \in RowValue
      BY DEF TypeOK, Row
    <3>2. \A s \in {"running", "ended"} : [row[j] EXCEPT !.state = s] \in RowValue
      BY <3>1, StateType DEF RowState
    <3>3. QED
      BY <3>1, <3>2 DEF TypeOK
  <2>2. row' \in [Row -> RowValue]
    BY <1>3, <2>1 DEF JobStep, Begin, Spawn, Poll, Finish, TypeOK
  <2>3. cmd' \in [Job -> {"none", "queued", "begun", "running"}]
    BY <1>3 DEF JobStep, Begin, Spawn, Poll, Finish, TypeOK
  <2>4. QED
    BY <1>3, <2>2, <2>3 DEF JobStep, Begin, Spawn, Poll, Finish, TypeOK
<1>4. QED
  BY <1>1, <1>2, <1>3

LEMMA TypeStep == RecordsAssumption /\ TypeOK /\ AskInv /\ Next => TypeOK'
BY TypeRequest, TypeJobs DEF Next, RequestStep, JobStep

-----------------------------------------------------------------------------
(***************************************************************************)
(* What each step does to the rows.                                        *)
(***************************************************************************)

\* A step of a request leaves held objects and commands alone; it inserts or
\* updates the one row it is about, or removes rows.
LEMMA RequestRows ==
    ASSUME RecordsAssumption, TypeOK, AskInv, NEW q \in Request, RequestStep(q)
    PROVE  /\ UNCHANGED <<held, cmd>>
           /\ removed \subseteq removed'
           /\ \/ row' = row /\ removed' = removed
              \/ /\ req[q].pc \in {"read", "saved"} /\ removed' = removed
                 /\ req[q].ask.on \in Record \cup User
                 /\ \A x \in Row \ {req[q].ask.on} : row'[x] = row[x]
                 /\ \/ req[q].pc = "read"
                    \/ row'[req[q].ask.on].state = row[req[q].ask.on].state
              \/ /\ ~Refused(req[q].doomed) /\ row' = Without(req[q].doomed)
                 /\ removed' = removed \cup {x \in req[q].doomed : There(x)}
<1>1. CASE Read(q)
  BY <1>1 DEF Read
<1>2. CASE Save(q)
  BY <1>2 DEF Save, AskInv, RecordsAssumption, Ask, Row, TypeOK
<1>3. CASE SavePassword(q)
  <2>1. req[q].ask.on \in Record \cup User /\ req[q].ask.on \in Row
    BY <1>3 DEF SavePassword, AskInv, RecordsAssumption, Ask, Row
  <2>2. row[req[q].ask.on] \in RowValue
    BY <2>1 DEF TypeOK
  <2>3. CASE ~There(req[q].ask.on)
    BY <1>3, <2>3 DEF SavePassword
  <2>4. CASE There(req[q].ask.on)
    <3>1. row' = [row EXCEPT ![req[q].ask.on].val["password"] = q]
      BY <1>3, <2>4 DEF SavePassword
    <3> DEFINE x == req[q].ask.on
               v == [row[x] EXCEPT !.val["password"] = q]
    <3>2. v.state = row[x].state
      BY <2>2 DEF RowValue
    <3>3. row' = [row EXCEPT ![x] = v]
      BY <3>1
    <3>4. row'[x].state = row[x].state
      BY <2>1, <3>2, <3>3 DEF TypeOK
    <3>5. \A y \in Row \ {x} : row'[y] = row[y]
      BY <3>3 DEF TypeOK
    <3>6. req[q].pc = "saved" /\ UNCHANGED <<held, cmd, removed>>
      BY <1>3 DEF SavePassword
    <3>7. QED
      BY <2>1, <3>4, <3>5, <3>6
  <2>5. QED
    BY <2>3, <2>4
<1>4. CASE Delete(q)
  BY <1>4 DEF Delete
<1>5. CASE Log(q)
  BY <1>5 DEF Log
<1>6. QED
  BY <1>1, <1>2, <1>3, <1>4, <1>5 DEF RequestStep

\* Removing S takes the rows of S that are there, and nothing else.
LEMMA WithoutRows ==
    ASSUME TypeOK, NEW S, row' = Without(S), NEW x \in Row
    PROVE  /\ There(x)' <=> There(x) /\ x \notin S
           /\ There(x)' => row'[x].state = row[x].state
           /\ row'[x].state = row[x].state \/ row'[x].state = "gone"
           /\ row'[x].by = None \/ (row'[x].by = row[x].by /\ row[x].by \notin S)
<1>1. row[x] \in RowValue
  BY DEF TypeOK
<1>2. row'[x] = IF x \in S /\ There(x) THEN [NoValue EXCEPT !.state = "gone"]
                ELSE IF row[x].by \in S THEN [row[x] EXCEPT !.by = None] ELSE row[x]
  BY DEF Without
<1>3. [NoValue EXCEPT !.state = "gone"].state = "gone"
      /\ [NoValue EXCEPT !.state = "gone"].by = None
  BY DEF NoValue
<1>4. [row[x] EXCEPT !.by = None].state = row[x].state
      /\ [row[x] EXCEPT !.by = None].by = None
  BY <1>1 DEF RowValue
<1>5. QED
  BY <1>2, <1>3, <1>4 DEF There

\* A whole-row save puts the copy's state and author there.
LEMMA SaveRows ==
    ASSUME RecordsAssumption, TypeOK, AskInv, NEW q \in Request, Save(q), row' # row
    PROVE  /\ Accepted(req[q].ask.on, req[q].copy, req[q].ask.by)
           /\ req[q].ask.on \in Record \cup User /\ req[q].ask.on \in Row
           /\ row' = [row EXCEPT ![req[q].ask.on] = Written(q)]
           /\ Written(q).state = req[q].copy.state
           /\ Written(q).by = req[q].copy.by
<1>1. req[q].ask \in Ask
  BY DEF Save, AskInv, RecordsAssumption
<1>2. QED
  BY <1>1, WrittenType DEF Save, Ask, Row

\* A pass that commits starts a set of jobs it has read, as they were.
LEMMA PassRows ==
    ASSUME TypeOK, PassCommits, row' # row \/ cmd' # cmd
    PROVE  \E S \in SUBSET Holding :
             /\ Startable(S) /\ S \subseteq Job
             /\ \A j \in S : Accepted(j, held[j], None)
             /\ cmd' = [j \in Job |-> IF j \in S THEN "queued" ELSE cmd[j]]
             /\ \A x \in Row \ S : row'[x] = row[x]
             /\ \A x \in S : row'[x].state = "starting" /\ row'[x].by = held[x].by
<1>1. PICK S \in SUBSET Holding :
        /\ Startable(S)
        /\ \A j \in S : Accepted(j, held[j], None)
        /\ row' = [x \in Row |-> IF x \in S
                      THEN [held[x] EXCEPT !.state = "starting"] ELSE row[x]]
        /\ cmd' = [j \in Job |-> IF j \in S THEN "queued" ELSE cmd[j]]
  BY DEF PassCommits
<1>2. S \subseteq Job /\ S \subseteq Row
  BY DEF Holding, Row
<1>3. \A x \in S : [held[x] EXCEPT !.state = "starting"].state = "starting"
                   /\ [held[x] EXCEPT !.state = "starting"].by = held[x].by
  BY <1>2 DEF TypeOK, RowValue
<1>4. QED
  BY <1>1, <1>2, <1>3

\* A step of a worker changes the state of its row only, if it is there.
LEMMA JobRows ==
    ASSUME TypeOK, NEW j \in Job, JobStep(j)
    PROVE  /\ UNCHANGED <<req, log, held, removed>>
           /\ \A k \in Job \ {j} : cmd'[k] = cmd[k]
           /\ \A x \in Row \ {j} : row'[x] = row[x]
           /\ row'[j].by = row[j].by
           /\ There(j)' <=> There(j)
           /\ cmd[j] # "none"
           /\ row'[j].state # row[j].state => /\ row'[j].state \in {"running", "ended"}
                                             /\ There(j)
<1>1. j \in Row /\ row[j] \in RowValue
  BY DEF TypeOK, Row
<1>2. \A s \in {"running", "ended"} :
         /\ [row EXCEPT ![j].state = s][j].state = s
         /\ [row EXCEPT ![j].state = s][j].by = row[j].by
         /\ \A x \in Row \ {j} : [row EXCEPT ![j].state = s][x] = row[x]
  BY <1>1 DEF TypeOK, RowValue
<1>3. CASE Begin(j)
  BY <1>1, <1>2, <1>3 DEF Begin, There, TypeOK
<1>4. CASE Spawn(j) \/ Poll(j)
  BY <1>1, <1>4 DEF Spawn, Poll, There, TypeOK
<1>5. CASE Finish(j)
  BY <1>1, <1>2, <1>5 DEF Finish, There, TypeOK
<1>6. QED
  BY <1>3, <1>4, <1>5 DEF JobStep

\* A step of a request begins it, or moves it on with what it has.
LEMMA RequestMoves ==
    ASSUME TypeOK, NEW q \in Request, RequestStep(q)
    PROVE  /\ \A p \in Request \ {q} : req'[p] = req[p]
           /\ req'[q].pc # "idle"
           /\ \/ /\ req[q].pc = "idle" /\ UNCHANGED <<row, log, removed>>
                 /\ \E a \in Asks[q] :
                       /\ Allowed(a) /\ req'[q] = Began(a)
                       /\ IF a.op = "create" THEN \A y \in Refs[a.on] : There(y)
                          ELSE There(a.on)
              \/ /\ req[q].pc # "idle"
                 /\ req'[q].pc \in {"collected", "saved", "stored"} =>
                       \/ req[q].pc \in {"collected", "saved", "stored"}
                       \/ req[q].ask.op # "system"
                 /\ req'[q].ask = req[q].ask /\ req'[q].copy = req[q].copy
                 /\ req'[q].doomed = req[q].doomed
<1>1. \A p \in RequestPc :
         /\ [req EXCEPT ![q].pc = p][q].pc = p
         /\ [req EXCEPT ![q].pc = p][q].ask = req[q].ask
         /\ [req EXCEPT ![q].pc = p][q].copy = req[q].copy
         /\ [req EXCEPT ![q].pc = p][q].doomed = req[q].doomed
         /\ \A r \in Request \ {q} : [req EXCEPT ![q].pc = p][r] = req[r]
  <2>1. req[q] \in Serving
    BY DEF TypeOK
  <2>2. QED
    BY <2>1 DEF TypeOK, Serving
<1>2. CASE Read(q)
  <2>1. PICK a \in Asks[q] :
          /\ Allowed(a) /\ req' = [req EXCEPT ![q] = Began(a)]
          /\ IF a.op = "create" THEN \A y \in Refs[a.on] : There(y)
             ELSE There(a.on)
    BY <1>2 DEF Read
  <2>2. req'[q] = Began(a) /\ \A p \in Request \ {q} : req'[p] = req[p]
    BY <2>1 DEF TypeOK
  <2>3. Began(a).pc # "idle"
    BY DEF Began
  <2>4. QED
    BY <1>2, <2>1, <2>2, <2>3 DEF Read
<1>3. CASE Save(q) \/ SavePassword(q) \/ Delete(q) \/ Log(q)
  <2>1. req[q].pc # "idle"
    BY <1>3 DEF Save, SavePassword, Delete, Log
  <2>2. PICK p \in RequestPc \ {"idle"} :
          /\ req' = [req EXCEPT ![q].pc = p]
          /\ p \in {"collected", "saved", "stored"} =>
                       \/ req[q].pc \in {"collected", "saved", "stored"}
                       \/ req[q].ask.op # "system"
    BY <1>3 DEF Save, SavePassword, Delete, Log, Following, RequestPc
  <2>3. QED
    BY <1>1, <2>1, <2>2
<1>4. QED
  BY <1>2, <1>3 DEF RequestStep

\* A step removes the rows a request has collected, or it removes none, and a row
\* that it inserts finds what it refers to.
LEMMA StepRows ==
    ASSUME RecordsAssumption, TypeOK, AskInv, DependsOnInv, Next
    PROVE  \/ \E q \in Request :
                 /\ ~Refused(req[q].doomed) /\ row' = Without(req[q].doomed)
                 /\ removed' = removed \cup {x \in req[q].doomed : There(x)}
           \/ /\ removed' = removed
              /\ \A x \in Row :
                    /\ There(x) => There(x)'
                    /\ There(x)' /\ ~There(x) => \A y \in Refs[x] : There(y)
                    /\ row'[x].by = row[x].by \/ Known(row'[x].by)
<1>1. ASSUME NEW q \in Request, Save(q), row' # row
      PROVE  removed' = removed
             /\ \A x \in Row :
                    /\ There(x) => There(x)'
                    /\ There(x)' /\ ~There(x) => \A y \in Refs[x] : There(y)
                    /\ row'[x].by = row[x].by \/ Known(row'[x].by)
  <2>1. /\ Accepted(req[q].ask.on, req[q].copy, req[q].ask.by)
        /\ row' = [row EXCEPT ![req[q].ask.on] = Written(q)]
        /\ Written(q).state = req[q].copy.state /\ Written(q).by = req[q].copy.by
        /\ req[q].ask.on \in Row
    BY <1>1, SaveRows
  <2>2. req[q].copy.state \notin {"new", "gone"}
    BY <1>1 DEF Save, DependsOnInv
  <2>3. removed' = removed
    BY <1>1 DEF Save
  <2>4. \A x \in Row : row'[x] = IF x = req[q].ask.on THEN Written(q) ELSE row[x]
    BY <2>1 DEF TypeOK
  <2>5. QED
    BY <2>1, <2>2, <2>3, <2>4 DEF There, Accepted
<1>2. ASSUME NEW q \in Request, SavePassword(q), row' # row
      PROVE  removed' = removed
             /\ \A x \in Row : (There(x) <=> There(x)') /\ row'[x].by = row[x].by
  <2> DEFINE o == req[q].ask.on
             v == [row[o] EXCEPT !.val["password"] = q]
  <2>1. row' = [row EXCEPT ![o] = v] /\ removed' = removed
    BY <1>2 DEF SavePassword
  <2>2. o \in Row
    BY <1>2 DEF SavePassword, AskInv, RecordsAssumption, Ask, Row
  <2>3. v.state = row[o].state /\ v.by = row[o].by
    BY <2>2 DEF TypeOK, RowValue
  <2>4. \A x \in Row : row'[x].state = row[x].state /\ row'[x].by = row[x].by
    BY <2>1, <2>2, <2>3 DEF TypeOK
  <2>5. QED
    BY <2>1, <2>4 DEF There
<1>3. ASSUME NEW q \in Request, RequestStep(q), row' = row, removed' = removed
      PROVE  \A x \in Row : (There(x) <=> There(x)') /\ row'[x].by = row[x].by
  BY <1>3 DEF There
<1>4. ASSUME NEW q \in Request, RequestStep(q)
      PROVE  \/ row' = row /\ removed' = removed
             \/ Save(q) \/ SavePassword(q)
             \/ /\ ~Refused(req[q].doomed) /\ row' = Without(req[q].doomed)
                /\ removed' = removed \cup {x \in req[q].doomed : There(x)}
  BY <1>4 DEF RequestStep, Read, Delete, Log
<1>5. ASSUME PassReads \/ PassCommits
      PROVE  removed' = removed
             /\ \A x \in Row :
                    /\ There(x) => There(x)'
                    /\ There(x)' /\ ~There(x) => \A y \in Refs[x] : There(y)
                    /\ row'[x].by = row[x].by \/ Known(row'[x].by)
  <2>1. removed' = removed
    BY <1>5 DEF PassReads, PassCommits
  <2>2. CASE row' = row
    BY <2>1, <2>2 DEF There
  <2>3. CASE row' # row
    <3>1. PICK S \in SUBSET Holding :
             /\ \A j \in S : Accepted(j, held[j], None)
             /\ \A x \in Row \ S : row'[x] = row[x]
             /\ \A x \in S : row'[x].state = "starting" /\ row'[x].by = held[x].by
      BY <1>5, <2>3, PassRows DEF PassReads
    <3>2. QED
      BY <2>1, <3>1 DEF There, Accepted
  <2>4. QED
    BY <2>2, <2>3
<1>6. ASSUME NEW j \in Job, JobStep(j)
      PROVE  removed' = removed
             /\ \A x \in Row : (There(x) <=> There(x)') /\ row'[x].by = row[x].by
  BY <1>6, JobRows DEF There
<1>7. QED
  <2>1. CASE \E q \in Request : RequestStep(q)
    <3>1. PICK q \in Request : RequestStep(q)
      BY <2>1
    <3>2. CASE row' = row /\ removed' = removed
      BY <3>1, <3>2, <1>3
    <3>3. CASE (Save(q) \/ SavePassword(q)) /\ row' # row
      BY <3>3, <1>1, <1>2
    <3>4. CASE (Save(q) \/ SavePassword(q)) /\ row' = row
      <4>1. removed' = removed
        BY <3>4 DEF Save, SavePassword
      <4>2. QED
        BY <3>1, <3>4, <4>1, <1>3
    <3>5. QED
      BY <3>1, <3>2, <3>3, <3>4, <1>4
  <2>2. CASE PassReads \/ PassCommits
    BY <2>2, <1>5
  <2>3. CASE \E j \in Job : JobStep(j)
    BY <2>3, <1>6
  <2>4. QED
    BY <2>1, <2>2, <2>3 DEF Next, RequestStep, JobStep

-----------------------------------------------------------------------------
(***************************************************************************)
(* The invariant.                                                          *)
(***************************************************************************)
IInv ==
    /\ TypeOK /\ AskInv /\ AuthorInv /\ SeenInv /\ RefInv
    /\ DependsOnInv /\ CommandInv /\ HolderInv

LEMMA InitInv == RecordsAssumption /\ Init => IInv
<1> SUFFICES ASSUME RecordsAssumption, Init PROVE IInv
  OBVIOUS
<1>1. TypeOK
  BY InitTypes
<1>2. PICK new \in SUBSET Creatable, author \in Authors :
        /\ author \notin new /\ \A x \in new, y \in Row : x \notin Refs[y]
        /\ row = [x \in Row |-> IF x \in new THEN NoValue ELSE First(x, author)]
  BY DEF Init
<1>3. author \in User \cup {None}
  BY DEF RecordsAssumption
<1>4. \A x \in Row \ new : /\ row[x].state = IF x \in Job THEN "waiting" ELSE "there"
                          /\ row[x].by = IF x \in User THEN None ELSE author
  BY <1>2 DEF First, NoValue
<1>5. \A x \in Row \cap new : row[x].state = "new" /\ row[x].by = None
  BY <1>2 DEF NoValue
<1>6. Job \cap new = {}
  <2>1. Creatable \subseteq Record \cup User
    BY DEF Creatable, RecordsAssumption, Ask
  <2>2. QED
    BY <2>1 DEF RecordsAssumption
<1>7. AskInv /\ AuthorInv /\ DependsOnInv
  BY DEF Init, AskInv, AuthorInv, DependsOnInv
<1>8. \A j \in Job : row[j].state = "waiting" /\ cmd[j] = "none"
  BY <1>4, <1>6 DEF Init, Row
<1>9. SeenInv /\ CommandInv /\ HolderInv
  BY <1>8 DEF SeenInv, CommandInv, HolderInv, There
<1>10. RefInv
  <2>1. \A x \in Row \ new : There(x)
    BY <1>4 DEF There
  <2>2. \A x \in Row : \A y \in Refs[x] : y \in Row \ new
    BY <1>2 DEF RecordsAssumption, Row
  <2>3. \A x \in Row : row[x].by = None \/ row[x].by = author
    BY <1>4, <1>5
  <2>4. author = None \/ author \in Row \ new
    BY <1>2, <1>3 DEF Row
  <2>5. QED
    BY <2>1, <2>2, <2>3, <2>4 DEF RefInv
<1>11. QED
  BY <1>1, <1>7, <1>9, <1>10 DEF IInv

LEMMA AskStep == RecordsAssumption /\ IInv /\ Next => AskInv' /\ AuthorInv'
<1> SUFFICES ASSUME RecordsAssumption, IInv, Next PROVE AskInv' /\ AuthorInv'
  OBVIOUS
<1>1. \A u \in User : There(u) => There(u)' \/ u \in removed'
  <2>1. CASE \E q \in Request :
               /\ row' = Without(req[q].doomed)
               /\ removed' = removed \cup {x \in req[q].doomed : There(x)}
    BY <2>1, WithoutRows DEF IInv, Row
  <2>2. CASE \A x \in Row : There(x) => There(x)'
    BY <2>2 DEF Row
  <2>3. QED
    BY <2>1, <2>2, StepRows DEF IInv
<1>2. removed \subseteq removed'
  BY StepRows DEF IInv
<1>3. ASSUME NEW q \in Request, RequestStep(q) PROVE AskInv' /\ AuthorInv'
  <2>1. CASE /\ req[q].pc # "idle"
             /\ req'[q].pc \in {"collected", "saved", "stored"} =>
                       \/ req[q].pc \in {"collected", "saved", "stored"}
                       \/ req[q].ask.op # "system"
             /\ req'[q].ask = req[q].ask
    <3>1. req[q].ask \in Asks[q]
      BY <2>1 DEF IInv, AskInv
    <3>2. AskInv'
      BY <1>3, <2>1, <3>1, RequestMoves DEF IInv, AskInv
    <3>3. \A p \in Request \ {q} : req'[p] = req[p]
      BY <1>3, RequestMoves DEF IInv
    <3>4. \A p \in Request : req'[p].pc # "idle" => req[p].pc # "idle"
                                                 /\ req'[p].ask = req[p].ask
      BY <2>1, <3>3
    <3>5. \A p \in Request : req'[p].pc \in {"collected", "saved", "stored"} =>
                                req[p].ask.op # "system"
      BY <2>1, <3>3 DEF IInv, AuthorInv
    <3>6. \A u \in User : There(u) \/ u \in removed
                          => row'[u].state \notin {"new", "gone"} \/ u \in removed'
      BY <1>1, <1>2 DEF There
    <3>7. ASSUME NEW p \in Request, req'[p].pc # "idle"
          PROVE  \/ req'[p].ask.op = "system" /\ req'[p].ask.by = None
                 \/ /\ req'[p].ask.by \in User
                    /\ \/ row'[req'[p].ask.by].state \notin {"new", "gone"}
                       \/ req'[p].ask.by \in removed'
      BY <3>4, <3>6, <3>7 DEF IInv, AuthorInv
    <3>8. AuthorInv'
      BY <3>4, <3>5, <3>7 DEF AuthorInv, There
    <3>9. QED
      BY <3>2, <3>8
  <2>2. CASE \E a \in Asks[q] : Allowed(a) /\ req'[q] = Began(a)
    <3>1. PICK a \in Asks[q] : Allowed(a) /\ req'[q] = Began(a)
      BY <2>2
    <3>2. req'[q].ask = a /\ (req'[q].pc = "read" \/ a.op = "delete")
          /\ req'[q].pc \in {"read", "collected"}
      BY <3>1 DEF Began
    <3>3. \/ a.op = "system" /\ a.by = None
          \/ a.op # "system" /\ a.by \in User /\ There(a.by)
      BY <3>1 DEF Allowed, IsTask, RecordsAssumption
    <3>4. QED
      BY <1>1, <1>2, <1>3, <3>2, <3>3, RequestMoves DEF IInv, AskInv, AuthorInv
  <2>3. QED
    BY <1>3, <2>1, <2>2, RequestMoves DEF IInv
<1>4. CASE req' = req
  BY <1>1, <1>2, <1>4 DEF IInv, AskInv, AuthorInv
<1>5. QED
  BY <1>3, <1>4, JobRows DEF Next, RequestStep, JobStep, PassReads, PassCommits, IInv

LEMMA SeenStep == RecordsAssumption /\ IInv /\ Next => SeenInv' /\ RefInv'
<1> SUFFICES ASSUME RecordsAssumption, IInv, Next PROVE SeenInv' /\ RefInv'
  OBVIOUS
<1> USE DEF IInv
<1>1. CASE \E q \in Request :
               /\ ~Refused(req[q].doomed) /\ row' = Without(req[q].doomed)
               /\ removed' = removed \cup {x \in req[q].doomed : There(x)}
  <2>1. PICK S \in SUBSET Row :
          /\ ~Refused(S) /\ row' = Without(S)
          /\ removed' = removed \cup {x \in S : There(x)}
    BY <1>1 DEF TypeOK, Serving
  <2>2. \A x \in Row :
           /\ There(x)' <=> There(x) /\ x \notin S
           /\ row'[x].by = None \/ (row'[x].by = row[x].by /\ row[x].by \notin S)
    BY <2>1, WithoutRows
  <2>3. SeenInv'
    BY <2>1, <2>2 DEF SeenInv, Row
  <2>4. ASSUME NEW x \in Row, There(x)', NEW y \in Refs[x] PROVE There(y)'
    <3>1. y \in Row
      BY DEF RecordsAssumption, Row
    <3>2. There(y) /\ y \notin S
      BY <2>1, <2>2, <2>4 DEF RefInv, Refused
    <3>3. QED
      BY <2>2, <3>1, <3>2
  <2>5. ASSUME NEW x \in Row PROVE (row[x].by = None \/ There(row[x].by))'
    <3>1. row[x].by \in User \cup {None}
      BY DEF TypeOK, RowValue
    <3>2. row[x].by = None \/ (row[x].by \in Row /\ There(row[x].by))
      BY <3>1 DEF RefInv, Row
    <3>3. CASE row'[x].by = None
      BY <3>3
    <3>4. CASE row'[x].by = row[x].by /\ row[x].by \notin S /\ row[x].by # None
      BY <2>2, <3>2, <3>4
    <3>5. QED
      BY <2>2, <3>3, <3>4
  <2>6. QED
    BY <2>3, <2>4, <2>5 DEF RefInv
<1>2. CASE /\ removed' = removed
           /\ \A x \in Row :
                    /\ There(x) => There(x)'
                    /\ There(x)' /\ ~There(x) => \A y \in Refs[x] : There(y)
                    /\ row'[x].by = row[x].by \/ Known(row'[x].by)
  <2>1. SeenInv'
    BY <1>2 DEF SeenInv, Row
  <2>2. ASSUME NEW x \in Row, There(x)', NEW y \in Refs[x] PROVE There(y)'
    <3>1. y \in Row
      BY DEF RecordsAssumption, Row
    <3>2. QED
      BY <1>2, <2>2, <3>1 DEF RefInv
  <2>3. ASSUME NEW x \in Row PROVE (row[x].by = None \/ There(row[x].by))'
    <3>1. row'[x].by \in User \cup {None}
      BY TypeStep DEF TypeOK, RowValue
    <3>2. QED
      BY <1>2, <3>1 DEF RefInv, Known, Row
  <2>4. QED
    BY <2>1, <2>2, <2>3 DEF RefInv
<1>3. QED
  BY <1>1, <1>2, StepRows

\* What was there is there or was removed.
LEMMA Kept ==
    ASSUME RecordsAssumption, IInv, Next
    PROVE  /\ removed \subseteq removed'
           /\ \A x \in Row : There(x) => There(x)' \/ x \in removed'
<1>1. CASE \E q \in Request :
               /\ row' = Without(req[q].doomed)
               /\ removed' = removed \cup {x \in req[q].doomed : There(x)}
  BY <1>1, WithoutRows DEF IInv
<1>2. CASE removed' = removed /\ \A x \in Row : There(x) => There(x)'
  BY <1>2
<1>3. QED
  BY <1>1, <1>2, StepRows DEF IInv

LEMMA DependsOnStep == RecordsAssumption /\ IInv /\ Next => DependsOnInv'
<1> SUFFICES ASSUME RecordsAssumption, IInv, Next PROVE DependsOnInv'
  OBVIOUS
<1> DEFINE Fine(r) ==
       /\ r.copy.state \notin {"new", "gone"}
       /\ \A y \in Refs[r.ask.on] : There(y) \/ y \in removed
       /\ r.copy.by = None \/ There(r.copy.by) \/ r.copy.by \in removed
           FineNext(r) ==
       /\ r.copy.state \notin {"new", "gone"}
       /\ \A y \in Refs[r.ask.on] : There(y)' \/ y \in removed'
       /\ r.copy.by = None \/ row'[r.copy.by].state \notin {"new", "gone"}
          \/ r.copy.by \in removed'
<1>1. ASSUME NEW p \in Request, req[p].pc # "idle" PROVE FineNext(req[p])
  <2>1. Fine(req[p])
    BY <1>1 DEF IInv, DependsOnInv
  <2>2. req[p].ask \in Ask /\ req[p].ask.on \in Row
    BY <1>1 DEF IInv, AskInv, RecordsAssumption, Ask, Row
  <2>3. Refs[req[p].ask.on] \subseteq Row
    BY <2>2 DEF RecordsAssumption, Row
  <2>4. req[p].copy.by \in User \cup {None}
    BY DEF IInv, TypeOK, Serving, RowValue
  <2>5. QED
    BY <2>1, <2>3, <2>4, Kept DEF Row, There
<1>2. ASSUME NEW q \in Request, NEW a \in Asks[q], Allowed(a),
             UNCHANGED <<row, removed>>,
             IF a.op = "create" THEN \A y \in Refs[a.on] : There(y) ELSE There(a.on)
      PROVE  FineNext(Began(a))
  <2>1. a \in Ask /\ a.on \in Row
    BY DEF RecordsAssumption, Ask, Row
  <2>2. Began(a).copy = Object(a) /\ Began(a).ask = a
    BY DEF Began
  <2>3. CASE a.op = "create"
    <3>1. Object(a).state = "there" /\ Object(a).by \in {None, a.by}
      BY <2>3 DEF Object, NoValue
    <3>2. There(a.by)
      BY <1>2, <2>3 DEF Allowed, IsTask
    <3>3. QED
      BY <1>2, <2>2, <2>3, <3>1, <3>2 DEF There
  <2>4. CASE a.op # "create"
    <3>1. Object(a) = row[a.on]
      BY <2>4 DEF Object
    <3>2. QED
      BY <1>2, <2>1, <2>2, <2>4, <3>1 DEF IInv, RefInv, There
  <2>5. QED
    BY <2>3, <2>4
<1>3. ASSUME NEW p \in Request, req'[p].pc # "idle" PROVE FineNext(req'[p])
  <2>1. CASE \E q \in Request : RequestStep(q)
    BY <1>1, <1>2, <1>3, <2>1, RequestMoves DEF IInv
  <2>2. CASE req' = req
    BY <1>1, <1>3, <2>2
  <2>3. QED
    BY <2>1, <2>2, JobRows DEF Next, RequestStep, JobStep, PassReads, PassCommits, IInv
<1>4. ASSUME NEW p \in Request, req'[p].pc = "saved"
      PROVE  \/ row'[req'[p].ask.on].state \notin {"new", "gone"}
             \/ req'[p].ask.on \in removed'
  <2>1. CASE req'[p] = req[p]
    <3>1. There(req[p].ask.on) \/ req[p].ask.on \in removed
      BY <1>4, <2>1 DEF IInv, DependsOnInv
    <3>2. req[p].ask.on \in Row
      BY <1>4, <2>1 DEF IInv, AskInv, RecordsAssumption, Ask, Row
    <3>3. QED
      BY <2>1, <3>1, <3>2, Kept DEF There
  <2>2. CASE RequestStep(p) /\ req'[p] # req[p]
    <3> req[p] \in Serving /\ p \in DOMAIN req
      BY DEF IInv, TypeOK
    <3>1. ~Read(p)
      BY <1>4 DEF Read, Began, IInv, TypeOK
    <3>2. ~SavePassword(p) /\ ~Delete(p) /\ ~Log(p)
      BY <1>4 DEF SavePassword, Delete, Log, Serving
    <3>3. Save(p)
      BY <2>2, <3>1, <3>2 DEF RequestStep
    <3>4. req'[p].ask = req[p].ask /\ req[p].copy.state \notin {"new", "gone"}
          /\ req[p].ask.on \in Row /\ req[p].ask \in Ask
      <4>1. req[p].pc # "idle"
        BY <3>3 DEF Save
      <4>2. req'[p].ask = req[p].ask
        BY <2>2, <4>1, RequestMoves DEF IInv
      <4>3. QED
        BY <4>1, <4>2 DEF IInv, DependsOnInv, AskInv, RecordsAssumption, Ask, Row
    <3>5. row' = [row EXCEPT ![req[p].ask.on] = Written(p)]
      <4>1. \/ row' = [row EXCEPT ![req[p].ask.on] = Written(p)]
            \/ req' = [req EXCEPT ![p].pc = "failed"]
        BY <3>3 DEF Save
      <4>2. req' # [req EXCEPT ![p].pc = "failed"]
        <5>1. req[p] \in Serving
          BY DEF IInv, TypeOK
        <5>2. QED
          BY <1>4, <5>1 DEF IInv, TypeOK, Serving
      <4>3. QED
        BY <4>1, <4>2
    <3>6. row'[req[p].ask.on].state = req[p].copy.state
      BY <3>4, <3>5, WrittenType DEF IInv, TypeOK
    <3>7. QED
      BY <3>4, <3>6
  <2>3. QED
    BY <2>1, <2>2, RequestMoves, JobRows
       DEF Next, RequestStep, JobStep, PassReads, PassCommits, IInv
<1>5. QED
  BY <1>3, <1>4 DEF DependsOnInv, There

LEMMA CommandStep == RecordsAssumption /\ IInv /\ Next => CommandInv'
<1> SUFFICES ASSUME RecordsAssumption, IInv, Next, NEW j \in Job
             PROVE  /\ row'[j].state = "waiting" \/ held'[j].state = "waiting"
                       => cmd'[j] = "none"
                    /\ There(j)' /\ cmd'[j] = "queued" => row'[j].state = "starting"
                    /\ There(j)' /\ cmd'[j] \in {"begun", "running"}
                       => row'[j].state = "running"
  BY DEF CommandInv
<1> USE DEF IInv
<1>1. j \in Row /\ j \notin Record \cup User
  BY DEF Row, RecordsAssumption
<1>2. /\ row[j].state = "waiting" \/ held[j].state = "waiting" => cmd[j] = "none"
      /\ There(j) /\ cmd[j] = "queued" => row[j].state = "starting"
      /\ There(j) /\ cmd[j] \in {"begun", "running"} => row[j].state = "running"
  BY DEF CommandInv
<1>3. ASSUME NEW q \in Request, RequestStep(q)
      PROVE  /\ UNCHANGED <<held, cmd>>
             /\ row'[j].state = row[j].state \/ row'[j].state = "gone"
  BY <1>1, <1>3, RequestRows, WithoutRows
<1>4. CASE \E q \in Request : RequestStep(q)
  BY <1>2, <1>3, <1>4 DEF There
<1>5. CASE PassReads
  BY <1>2, <1>5, NoValueType DEF PassReads, There
<1>6. CASE PassCommits
  <2>1. held'[j].state = "new"
    BY <1>6, NoValueType DEF PassCommits
  <2>2. CASE row' = row /\ cmd' = cmd
    BY <1>2, <2>1, <2>2 DEF There
  <2>3. CASE ~(row' = row /\ cmd' = cmd)
    <3>1. PICK S \in SUBSET Holding :
             /\ cmd' = [k \in Job |-> IF k \in S THEN "queued" ELSE cmd[k]]
             /\ \A x \in Row \ S : row'[x] = row[x]
             /\ \A x \in S : row'[x].state = "starting"
      BY <1>6, <2>3, PassRows
    <3>2. QED
      BY <1>1, <1>2, <2>1, <3>1 DEF There
  <2>4. QED
    BY <2>2, <2>3
<1>7. CASE JobStep(j)
  <2>1. row[j] \in RowValue
    BY <1>1 DEF TypeOK
  <2>2. \A s \in {"running", "ended"} : [row EXCEPT ![j].state = s][j].state = s
    BY <1>1, <2>1 DEF TypeOK, RowValue
  <2>3. CASE Begin(j)
    BY <1>2, <2>2, <2>3 DEF Begin, There, TypeOK
  <2>4. CASE Spawn(j) \/ Poll(j)
    BY <1>2, <2>4 DEF Spawn, Poll, There, TypeOK
  <2>5. CASE Finish(j)
    BY <1>2, <2>2, <2>5 DEF Finish, There, TypeOK
  <2>6. QED
    BY <1>7, <2>3, <2>4, <2>5 DEF JobStep
<1>8. CASE \E k \in Job \ {j} : JobStep(k)
  <2>1. held' = held /\ cmd'[j] = cmd[j] /\ row'[j] = row[j]
    BY <1>1, <1>8, JobRows
  <2>2. QED
    BY <1>2, <2>1 DEF There
<1>9. QED
  BY <1>4, <1>5, <1>6, <1>7, <1>8 DEF Next, RequestStep, JobStep

LEMMA HolderStep == RecordsAssumption /\ IInv /\ Next => HolderInv'
<1> SUFFICES ASSUME RecordsAssumption, IInv, Next PROVE HolderInv'
  OBVIOUS
<1> USE DEF IInv
<1> DEFINE Holds(j) == row[j].state \in {"starting", "running"}
           HoldsNext(j) == row'[j].state \in {"starting", "running"}
<1>1. \A j \in Job : j \in Row /\ j \notin Record \cup User
  BY DEF Row, RecordsAssumption
<1>2. CASE \E q \in Request : RequestStep(q)
  <2>1. \A j \in Job : row'[j].state = row[j].state \/ row'[j].state = "gone"
    BY <1>1, <1>2, RequestRows, WithoutRows
  <2>2. QED
    BY <2>1 DEF HolderInv, Conflict
<1>3. CASE \E k \in Job : JobStep(k)
  <2>1. PICK k \in Job : JobStep(k)
    BY <1>3
  <2>2. \A j \in Job \ {k} : row'[j] = row[j]
    BY <1>1, <2>1, JobRows
  <2>3. HoldsNext(k) => Holds(k)
    <3>1. row[k] \in RowValue
      BY <1>1 DEF TypeOK
    <3>2. CASE Begin(k)
      BY <3>2 DEF Begin, CommandInv
    <3>3. CASE Spawn(k) \/ Poll(k)
      BY <3>3 DEF Spawn, Poll
    <3>4. CASE Finish(k)
      BY <1>1, <3>1, <3>4 DEF Finish, TypeOK, RowValue
    <3>5. QED
      BY <2>1, <3>2, <3>3, <3>4 DEF JobStep
  <2>4. QED
    BY <2>2, <2>3 DEF HolderInv, Conflict
<1>4. CASE row' = row
  BY <1>4 DEF HolderInv, Conflict
<1>5. CASE PassCommits /\ row' # row
  <2>1. PICK S \in SUBSET Holding :
           /\ Startable(S) /\ S \subseteq Job
           /\ \A x \in Row \ S : row'[x] = row[x]
    BY <1>5, PassRows
  <2>2. \A j, k \in Job : Conflict(j, k) <=> Conflict(k, j)
    BY DEF Conflict
  <2>3. \A j \in S, k \in Job : Conflict(j, k) => k \notin S /\ ~Holds(k)
    BY <2>1 DEF Startable, Blocked
  <2>4. ASSUME NEW j \in Job, NEW k \in Job, Conflict(j, k), HoldsNext(j), HoldsNext(k)
        PROVE  FALSE
    <3>1. CASE j \in S
      BY <1>1, <2>1, <2>3, <2>4, <3>1
    <3>2. CASE k \in S
      BY <1>1, <2>1, <2>2, <2>3, <2>4, <3>2
    <3>3. CASE j \notin S /\ k \notin S
      BY <1>1, <2>1, <2>4, <3>3 DEF HolderInv
    <3>4. QED
      BY <3>1, <3>2, <3>3
  <2>5. QED
    BY <2>4 DEF HolderInv, Conflict
<1>6. QED
  BY <1>2, <1>3, <1>4, <1>5 DEF Next, RequestStep, JobStep, PassReads

LEMMA NextInv == RecordsAssumption /\ IInv /\ [Next]_vars => IInv'
<1>1. RecordsAssumption /\ IInv /\ Next => IInv'
  BY TypeStep, AskStep, SeenStep, DependsOnStep, CommandStep, HolderStep DEF IInv
<1>2. IInv /\ UNCHANGED vars => IInv'
  BY DEF vars, IInv, TypeOK, AskInv, AuthorInv, SeenInv, RefInv, DependsOnInv,
         CommandInv, HolderInv, There, Conflict
<1>3. QED
  BY <1>1, <1>2

-----------------------------------------------------------------------------
(***************************************************************************)
(* The values of records and users.                                        *)
(***************************************************************************)

\* What each stage of a request says of what was asked.
StageInv ==
    \A q \in Request :
        /\ req[q].pc = "read" => req[q].ask.op # "delete"
        /\ req[q].pc = "collected" => req[q].ask.op = "delete"
        /\ req[q].pc = "saved" => req[q].ask.op # "delete" /\ Named(q) = "password"

\* A change of q that another request has overwritten.
Overlapped(q) ==
    \E p \in Request \ {q} :
        /\ Updating(p) /\ Done(p) /\ req[p].ask.on = req[q].ask.on
        /\ \/ req[p].ask.op # "system" /\ Named(p) = Named(q)
           \/ req[p].ask.op = "put" /\ Named(q) = "option"
           \/ req[p].copy.val[Named(q)] # q
\* The value is in the row as soon as it is stored, before the answer.
Stored(q) ==
    /\ Updating(q) /\ req[q].ask.op # "system"
    /\ req[q].pc \in {"stored", "ok"}
    /\ req[q].ask.on \notin removed
Found(q) == row[req[q].ask.on].val[Named(q)] = q \/ Overlapped(q)
ChangeInv == \A q \in Request : Stored(q) => Found(q)

\* What a request that has begun asks does not change, nor what it has read.
LEMMA RequestKeeps ==
    ASSUME RecordsAssumption, IInv, Next, NEW p \in Request, req[p].pc # "idle"
    PROVE  /\ req'[p].pc # "idle" /\ req'[p].ask = req[p].ask /\ req'[p].copy = req[p].copy
           /\ Done(p) => Done(p)'
           /\ RequestStep(p) \/ req'[p] = req[p]
<1>1. CASE \E q \in Request : RequestStep(q)
  <2>1. PICK q \in Request : RequestStep(q)
    BY <1>1
  <2>2. CASE q = p
    <3>1. req'[p].ask = req[p].ask /\ req'[p].copy = req[p].copy /\ req'[p].pc # "idle"
      BY <2>1, <2>2, RequestMoves DEF IInv
    <3>2. ASSUME Done(p) PROVE Done(p)'
      <4>1. ~Read(p) /\ ~Save(p) /\ ~Delete(p)
        BY <3>2 DEF Done, Read, Save, Delete
      <4>2. req[p] \in Serving /\ req \in [Request -> Serving]
        BY DEF IInv, TypeOK
      <4>3. req'[p].pc \in {"stored", "ok", "failed"}
        BY <2>1, <2>2, <4>1, <4>2 DEF RequestStep, SavePassword, Log, Serving
      <4> QED
        BY <4>3 DEF Done
    <3> QED
      BY <2>1, <2>2, <3>1, <3>2
  <2>3. CASE q # p
    <3>1. req'[p] = req[p]
      BY <2>1, <2>3, RequestMoves DEF IInv
    <3> QED
      BY <3>1 DEF Done
  <2> QED
    BY <2>2, <2>3
<1>2. CASE req' = req
  BY <1>2 DEF Done
<1> QED
  BY <1>1, <1>2, JobRows DEF Next, RequestStep, JobStep, PassReads, PassCommits, IInv

LEMMA StageStep ==
    ASSUME RecordsAssumption, IInv, StageInv, Next
    PROVE  StageInv'
<1> SUFFICES ASSUME NEW q \in Request
             PROVE  /\ req'[q].pc = "read" => req'[q].ask.op # "delete"
                    /\ req'[q].pc = "collected" => req'[q].ask.op = "delete"
                    /\ req'[q].pc = "saved" => /\ req'[q].ask.op # "delete"
                                              /\ req'[q].ask.field = "password"
  BY DEF StageInv, Named
<1>t. req \in [Request -> Serving] /\ req[q] \in Serving
  BY DEF IInv, TypeOK
<1>1. CASE req'[q] = req[q]
  BY <1>1 DEF StageInv, Named
<1>2. CASE Read(q)
  <2>1. PICK a \in Asks[q] : req'[q] = Began(a)
    BY <1>2, <1>t DEF Read
  <2> QED
    BY <2>1 DEF Began
<1>3. CASE Save(q)
  <2>1. req[q].ask.op # "delete" /\ req'[q].ask = req[q].ask
    BY <1>3, RequestKeeps DEF Save, StageInv
  <2>2. \/ req'[q].pc = "failed"
        \/ req'[q].pc = Following(req[q].ask)
    BY <1>3, <1>t DEF Save, Serving
  <2> QED
    BY <2>1, <2>2 DEF Following
<1>4. CASE SavePassword(q) \/ Delete(q) \/ Log(q)
  <2>1. req'[q].pc \in {"stored", "ok", "failed"}
    BY <1>4, <1>t DEF SavePassword, Delete, Log, Serving
  <2> QED
    BY <2>1
<1>5. CASE req[q].pc = "idle" /\ ~RequestStep(q)
  <2>1. req'[q] = req[q]
    BY <1>5, RequestMoves, JobRows
       DEF Next, RequestStep, JobStep, PassReads, PassCommits, IInv
  <2> QED
    BY <1>1, <2>1
<1> QED
  BY <1>1, <1>2, <1>3, <1>4, <1>5, RequestKeeps DEF RequestStep

\* Only a request on the record changes what its row says, until it is removed.
LEMMA ValueSteps ==
    ASSUME RecordsAssumption, IInv, Next, NEW x \in Record \cup User
    PROVE  \/ row'[x].val = row[x].val
           \/ x \in removed'
           \/ \E p \in Request : /\ Save(p) \/ SavePassword(p)
                                 /\ req[p].ask.on = x /\ row' # row
<1>1. x \in Row /\ x \notin Job /\ row \in [Row -> RowValue] /\ row[x] \in RowValue
  BY DEF Row, RecordsAssumption, IInv, TypeOK
<1>2. ASSUME NEW q \in Request, RequestStep(q)
      PROVE  \/ row'[x].val = row[x].val
             \/ x \in removed'
             \/ (Save(q) \/ SavePassword(q)) /\ req[q].ask.on = x /\ row' # row
  <2>1. CASE Save(q) /\ row' # row
    <3>1. row' = [row EXCEPT ![req[q].ask.on] = Written(q)]
      BY <2>1, SaveRows DEF IInv
    <3> QED
      BY <1>1, <2>1, <3>1
  <2>2. CASE SavePassword(q) /\ row' # row
    <3>1. row' = [row EXCEPT ![req[q].ask.on].val["password"] = q]
      BY <2>2 DEF SavePassword
    <3> QED
      BY <1>1, <2>2, <3>1
  <2>3. CASE Delete(q) /\ row' # row
    <3>1. /\ row' = Without(req[q].doomed)
          /\ removed' = removed \cup {y \in req[q].doomed : There(y)}
      BY <2>3 DEF Delete
    <3>2. row'[x] = IF x \in req[q].doomed /\ There(x) THEN [NoValue EXCEPT !.state = "gone"]
                    ELSE IF row[x].by \in req[q].doomed THEN [row[x] EXCEPT !.by = None]
                    ELSE row[x]
      BY <1>1, <3>1 DEF Without
    <3>3. [row[x] EXCEPT !.by = None].val = row[x].val
      BY <1>1 DEF RowValue
    <3> QED
      BY <3>1, <3>2, <3>3
  <2> QED
    BY <1>2, <2>1, <2>2, <2>3 DEF RequestStep, Read, Log
<1>3. CASE PassReads \/ PassCommits
  <2>1. CASE row' = row
    BY <2>1
  <2>2. CASE row' # row
    <3>1. PICK S \in SUBSET Holding : S \subseteq Job /\ \A y \in Row \ S : row'[y] = row[y]
      BY <1>3, <2>2, PassRows DEF PassReads, IInv
    <3> QED
      BY <1>1, <3>1
  <2> QED
    BY <2>1, <2>2
<1>4. ASSUME NEW j \in Job, JobStep(j) PROVE row'[x] = row[x]
  BY <1>1, <1>4, JobRows DEF IInv
<1> QED
  BY <1>2, <1>3, <1>4 DEF Next, RequestStep, JobStep

\* What the row of a record says once a request has written it.
Wrote(p, f, new) ==
    \/ /\ new = p /\ Named(p) = f
       /\ SavePassword(p) \/ req[p].ask.op # "system"
    \/ /\ f = "option" /\ req[p].ask.op = "put"
       /\ Save(p) /\ Named(p) # f
    \/ /\ Save(p) /\ new = req[p].copy.val[f]
       /\ Named(p) = f => req[p].ask.op = "system" \/ f = "password"
    \/ /\ SavePassword(p) /\ f # "password"
       /\ new = row[req[p].ask.on].val[f]
LEMMA WrittenValues ==
    ASSUME RecordsAssumption, IInv, StageInv, Next, NEW p \in Request,
           Save(p) \/ SavePassword(p), row' # row \/ req'[p].pc # "failed",
           NEW f \in Field
    PROVE  /\ Updating(p) /\ Done(p)'
           /\ Wrote(p, f, row'[req[p].ask.on].val[f])
<1>t. req \in [Request -> Serving] /\ req[p] \in Serving /\ row \in [Row -> RowValue]
  BY DEF IInv, TypeOK
<1>a. req[p].pc # "idle" /\ req[p].ask \in Ask /\ req[p].ask.on \in Row
  BY DEF Save, SavePassword, IInv, AskInv, RecordsAssumption, Ask, Row
<1>r. row[req[p].ask.on] \in RowValue
  BY <1>a, <1>t
<1>u. Updating(p)
  BY <1>a DEF Save, SavePassword, StageInv, Updating, Ask
<1>1. CASE Save(p)
  <2>1. row' = [row EXCEPT ![req[p].ask.on] = Written(p)]
    BY <1>1, <1>t DEF Save, Serving
  <2>2. row'[req[p].ask.on].val[f] = Written(p).val[f]
    BY <1>a, <1>t, <2>1
  <2>3. req[p].copy \in RowValue
    BY <1>t DEF Serving
  <2>4. Written(p).val[f] =
          IF f = Named(p) /\ req[p].ask.op # "system" /\ f # "password" THEN p
          ELSE IF req[p].ask.op = "put" /\ f = "option" THEN None
          ELSE req[p].copy.val[f]
    BY <2>3 DEF Written, Named, RowValue
  <2>5. Done(p)'
    BY <1>1, <1>t DEF Save, Following, Done, Serving
  <2> QED
    BY <1>1, <1>u, <2>2, <2>4, <2>5 DEF Wrote
<1>2. CASE SavePassword(p)
  <2>1. row' = [row EXCEPT ![req[p].ask.on].val["password"] = p]
    BY <1>2, <1>t DEF SavePassword, Serving
  <2>2. row'[req[p].ask.on].val[f] = IF f = "password" THEN p ELSE row[req[p].ask.on].val[f]
    BY <1>a, <1>t, <1>r, <2>1 DEF RowValue, Field
  <2>3. Named(p) = "password"
    BY <1>2 DEF SavePassword, StageInv
  <2>4. Done(p)'
    BY <1>2, <1>t DEF SavePassword, Done, Serving
  <2> QED
    BY <1>2, <1>u, <2>2, <2>3, <2>4 DEF Wrote
<1> QED
  BY <1>1, <1>2

\* What is overwritten stays overwritten: a request that is done stays done.
LEMMA OverlapStays ==
    ASSUME RecordsAssumption, IInv, Next, NEW q \in Request, req[q].pc # "idle",
           Overlapped(q)
    PROVE  Overlapped(q)'
<1>1. PICK p \in Request \ {q} :
        /\ Updating(p) /\ Done(p) /\ req[p].ask.on = req[q].ask.on
        /\ \/ req[p].ask.op # "system" /\ Named(p) = Named(q)
           \/ req[p].ask.op = "put" /\ Named(q) = "option"
           \/ req[p].copy.val[Named(q)] # q
  BY DEF Overlapped
<1>2. req[p].pc # "idle"
  BY <1>1 DEF Updating
<1>3. /\ Done(p)' /\ req'[p].pc # "idle"
      /\ req'[p].ask = req[p].ask /\ req'[p].copy = req[p].copy
      /\ req'[q].ask = req[q].ask
  BY <1>1, <1>2, RequestKeeps
<1> QED
  BY <1>1, <1>3 DEF Overlapped, Updating, Named

LEMMA ChangeStep ==
    ASSUME RecordsAssumption, IInv, IInv', StageInv, ChangeInv, Next
    PROVE  ChangeInv'
<1> SUFFICES ASSUME NEW q \in Request, Stored(q)' PROVE Found(q)'
  BY DEF ChangeInv
<1>t. req \in [Request -> Serving] /\ req[q] \in Serving
  BY DEF IInv, TypeOK
<1>s. /\ req'[q].pc \in {"stored", "ok"} /\ req'[q].ask.op # "system"
      /\ req'[q].ask.op \in {"create", "patch", "put", "system"}
      /\ req'[q].ask.on \notin removed'
  BY DEF Stored, Updating
<1>1. req[q].pc # "idle"
  <2> SUFFICES ASSUME req[q].pc = "idle" PROVE FALSE
    OBVIOUS
  <2>1. CASE req'[q] = req[q]
    BY <1>s, <2>1
  <2>2. CASE RequestStep(q)
    <3>1. Read(q)
      BY <2>2 DEF RequestStep, Save, SavePassword, Delete, Log
    <3>2. PICK a \in Asks[q] : req'[q] = Began(a)
      BY <1>t, <3>1 DEF Read
    <3> QED
      BY <1>s, <3>2 DEF Began
  <2> QED
    BY <2>1, <2>2, RequestMoves, JobRows
       DEF Next, RequestStep, JobStep, PassReads, PassCommits, IInv
<1>2. /\ req'[q].ask = req[q].ask /\ req'[q].copy = req[q].copy
      /\ RequestStep(q) \/ req'[q] = req[q]
  BY <1>1, RequestKeeps
<1> DEFINE x == req[q].ask.on
           f == req[q].ask.field
<1>3. x \in Record \cup User /\ x \in Row /\ x \notin removed /\ x \notin removed'
      /\ f \in Field /\ (f = "password" => x \in User)
  <2>1. req[q].ask \in Asks[q]
    BY <1>1 DEF IInv, AskInv
  <2>2. removed \subseteq removed'
    BY Kept
  <2> QED
    BY <1>2, <1>s, <2>1, <2>2 DEF RecordsAssumption, Ask, Row
<1>4. Updating(q) /\ req[q].ask.op # "system"
  BY <1>1, <1>2, <1>s DEF Updating
\* The step that stores the value of q.
<1>5. CASE Save(q) \/ SavePassword(q)
  <2>1. req'[q].pc # "failed"
    BY <1>s
  <2>2. SavePassword(q) \/ f # "password"
    <3> SUFFICES ASSUME Save(q), f = "password" PROVE FALSE
      BY <1>5
    <3>1. x \in User
      BY <1>3
    <3>2. Following(req[q].ask) = "saved"
      BY <1>4, <3>1 DEF Following
    <3>3. req'[q].pc \in {"saved", "failed"}
      BY <1>t, <3>2 DEF Save, Serving
    <3> QED
      BY <1>s, <3>3
  <2>3. SavePassword(q) => f = "password"
    BY DEF SavePassword, StageInv, Named
  <2>4. Wrote(q, f, row'[x].val[f])
    BY <1>3, <1>5, <2>1, WrittenValues
  <2>5. row'[x].val[f] = q
    <3>1. ~(Save(q) /\ SavePassword(q))
      BY DEF Save, SavePassword
    <3> QED
      BY <1>4, <2>2, <2>3, <2>4, <3>1 DEF Wrote, Named
  <2> QED
    BY <1>2, <2>5 DEF Found, Named
\* The value of q is there, or was overwritten, and this step may overwrite it.
<1>6. CASE Stored(q) /\ ~(Save(q) \/ SavePassword(q))
  <2>1. CASE Overlapped(q)
    BY <1>1, <2>1, OverlapStays DEF Found
  <2>2. CASE row[x].val[f] = q
    <3>1. CASE row'[x].val = row[x].val
      BY <1>2, <2>2, <3>1 DEF Found, Named
    <3>2. CASE row'[x].val # row[x].val
      <4>1. PICK p \in Request : /\ Save(p) \/ SavePassword(p)
                                 /\ req[p].ask.on = x /\ row' # row
        BY <1>3, <3>2, ValueSteps
      <4>2. p # q /\ req[p].pc # "idle"
        BY <1>6, <4>1 DEF Save, SavePassword
      <4>3. Updating(p) /\ Done(p)' /\ Wrote(p, f, row'[req[p].ask.on].val[f])
        BY <1>3, <4>1, WrittenValues
      <4>4. /\ req'[p].pc # "idle"
            /\ req'[p].ask = req[p].ask /\ req'[p].copy = req[p].copy
        BY <4>2, RequestKeeps
      <4>5. Updating(p)'
        BY <4>3, <4>4 DEF Updating
      <4>6. SavePassword(p) => req[p].ask.op # "system"
        BY DEF SavePassword, IInv, AuthorInv
      <4>7. CASE row'[x].val[f] = q
        BY <1>2, <4>7 DEF Found, Named
      <4>8. CASE row'[x].val[f] # q
        <5>1. \/ req'[p].ask.op # "system" /\ req'[p].ask.field = f
              \/ req'[p].ask.op = "put" /\ f = "option"
              \/ req'[p].copy.val[f] # q
          BY <2>2, <4>1, <4>3, <4>4, <4>6, <4>8 DEF Wrote, Named
        <5>2. req'[p].ask.on = req'[q].ask.on /\ p \in Request \ {q}
          BY <1>2, <4>1, <4>2, <4>4
        <5>3. Overlapped(q)'
          BY <1>2, <4>3, <4>5, <5>1, <5>2 DEF Overlapped, Named
        <5> QED
          BY <5>3 DEF Found
      <4> QED
        BY <4>7, <4>8
    <3> QED
      BY <3>1, <3>2
  <2> QED
    BY <1>6, <2>1, <2>2 DEF ChangeInv, Found, Named
<1>7. CASE ~Stored(q) /\ ~(Save(q) \/ SavePassword(q))
  <2>1. req[q].pc \notin {"stored", "ok"}
    BY <1>3, <1>4, <1>7 DEF Stored
  <2>2. req'[q] # req[q]
    BY <1>s, <2>1
  <2>3. Read(q) \/ Delete(q) \/ Log(q)
    BY <1>2, <1>7, <2>2 DEF RequestStep
  <2>4. Delete(q)
    BY <1>1, <2>1, <2>3 DEF Read, Log
  <2> QED
    BY <1>4, <2>4 DEF Delete, StageInv, Updating
<1> QED
  BY <1>5, <1>6, <1>7

-----------------------------------------------------------------------------
(***************************************************************************)
(* The theorems.                                                           *)
(***************************************************************************)

LEMMA Invariant == Spec => []IInv
<1>1. Init => IInv
  BY InitInv, RecordsAssumption
<1>2. IInv /\ [Next]_vars => IInv'
  BY NextInv, RecordsAssumption
<1>3. QED
  BY <1>1, <1>2, PTL DEF Spec

\* Rows, requests, held objects and commands keep their types.
THEOREM TypeCorrect == Spec => []TypeOK
<1>1. IInv => TypeOK
  BY DEF IInv
<1>2. QED
  BY <1>1, Invariant, PTL

\* Two commands use one repository or client only when the row of one of them was
\* removed while it ran (is_job_blocked sees rows, jobs.py's cascade hides them).
THEOREM RemovedConflict == Spec => []ConflictOnlyWithRemoved
<1>1. IInv => ConflictOnlyWithRemoved
  <2> SUFFICES ASSUME IInv, NEW j \in Job, NEW k \in Job, Conflict(j, k),
                      cmd[j] = "running", cmd[k] = "running",
                      j \notin removed, k \notin removed
               PROVE  FALSE
    BY DEF ConflictOnlyWithRemoved
  <2>1. There(j) /\ There(k)
    BY DEF IInv, SeenInv
  <2>2. row[j].state = "running" /\ row[k].state = "running"
    BY <2>1 DEF IInv, CommandInv
  <2>3. QED
    BY <2>2 DEF IInv, HolderInv
<1>2. QED
  BY <1>1, Invariant, PTL

\* What was answered can be found in the log, as long as its author is known
\* (api/mixins.py logs after the change, before the answer).
THEOREM LoggedAnswers == Spec => []AnsweredIsLogged
<1>1. Init => AnsweredIsLogged
  BY DEF Init, AnsweredIsLogged
<1>2. IInv /\ IInv' /\ AnsweredIsLogged /\ [Next]_vars => AnsweredIsLogged'
  <2> SUFFICES ASSUME IInv, IInv', AnsweredIsLogged, Next, NEW p \in Request,
                      req'[p].pc = "ok", req'[p].ask.op # "system"
               PROVE  p \in log' \/ req'[p].ask.by \in removed'
    BY DEF AnsweredIsLogged, vars
  <2> USE RecordsAssumption
  <2>1. removed \subseteq removed'
    BY Kept
  <2>2. \A q \in log \ log' : q \in Request /\ req[q].pc = "ok"
                              /\ req[q].ask.op # "system"
                              => req[q].ask.by \in removed'
    <3> SUFFICES ASSUME NEW q \in log \ log', q \in Request, req[q].pc = "ok",
                        req[q].ask.op # "system"
                 PROVE  req[q].ask.by \in removed'
      OBVIOUS
    <3>1. PICK d \in Request :
             /\ log' = {r \in log : req[r].ask.by \notin req[d].doomed}
             /\ removed' = removed \cup {x \in req[d].doomed : There(x)}
      BY DEF Next, Read, Save, SavePassword, Delete, Log, PassReads, PassCommits,
             Begin, Spawn, Poll, Finish
    <3>2. There(req[q].ask.by) \/ req[q].ask.by \in removed
      BY DEF IInv, AuthorInv
    <3>3. QED
      BY <3>1, <3>2
  <2>3. CASE req'[p] = req[p]
    BY <2>1, <2>2, <2>3 DEF AnsweredIsLogged
  <2>4. CASE RequestStep(p) /\ req'[p] # req[p]
    <3>1. req[p] \in Serving /\ p \in DOMAIN req
      BY DEF IInv, TypeOK
    <3>2. ~Read(p) /\ ~SavePassword(p) /\ ~Delete(p)
      BY <3>1 DEF Read, Began, SavePassword, Delete, Serving
    <3>3. ~Save(p)
      BY <3>1 DEF Save, Following, Serving
    <3>4. CASE Log(p)
      BY <3>1, <3>4 DEF Log, Serving
    <3>5. QED
      BY <2>4, <3>2, <3>3, <3>4 DEF RequestStep
  <2>5. QED
    BY <2>3, <2>4, RequestMoves, JobRows
       DEF Next, RequestStep, JobStep, PassReads, PassCommits, IInv
<1>3. QED
  BY <1>1, <1>2, Invariant, PTL DEF Spec

\* A request fails only because a row it depends on was removed since it began,
\* or because a row came to depend on what it deletes.
THEOREM FailedRequests == Spec => []FailsOnlyOnRemoval
<1>1. Init => FailsOnlyOnRemoval
  BY DEF Init, FailsOnlyOnRemoval
<1>2. IInv /\ IInv' /\ FailsOnlyOnRemoval /\ [Next]_vars => FailsOnlyOnRemoval'
  <2> DEFINE Touched(r) == {r.ask.by, r.copy.by, r.ask.on} \cup Refs[r.ask.on]
             Excused(r, S) == \/ Touched(r) \cap S # {}
                              \/ \E x \in Row \ r.doomed : Refs[x] \cap r.doomed # {}
  <2> SUFFICES ASSUME IInv, FailsOnlyOnRemoval, Next, NEW p \in Request,
                      req'[p].pc = "failed"
               PROVE  Excused(req'[p], removed')
    BY DEF FailsOnlyOnRemoval, vars
  <2> USE RecordsAssumption
  <2>1. removed \subseteq removed'
    BY Kept
  <2>2. CASE req'[p] = req[p]
    BY <2>1, <2>2 DEF FailsOnlyOnRemoval
  <2>3. CASE RequestStep(p) /\ req'[p] # req[p]
    <3>1. req[p].pc # "idle" /\ req'[p].ask = req[p].ask /\ req'[p].copy = req[p].copy
          /\ req'[p].doomed = req[p].doomed
      <4>1. req'[p].pc # "read" /\ req'[p].pc # "collected"
        OBVIOUS
      <4>2. ~\E a \in Asks[p] : req'[p] = Began(a)
        <5>1. \A a \in Asks[p] : Began(a).pc \in {"read", "collected"}
          BY DEF Began
        <5>2. QED
          BY <4>1, <5>1
      <4>3. \/ \E a \in Asks[p] : req'[p] = Began(a)
            \/ /\ req[p].pc # "idle" /\ req'[p].ask = req[p].ask
               /\ req'[p].copy = req[p].copy /\ req'[p].doomed = req[p].doomed
        <5>1. TypeOK /\ RequestStep(p)
          BY <2>3 DEF IInv
        <5>2. QED
          BY <5>1, RequestMoves
      <4>4. QED
        BY <4>2, <4>3
    <3>2. req[p] \in Serving /\ p \in DOMAIN req
      BY DEF IInv, TypeOK
    <3>3. CASE Save(p)
      <4>1. ~Accepted(req[p].ask.on, req[p].copy, req[p].ask.by)
        BY <3>2, <3>3 DEF Save, Following, Serving
      <4>2. \/ \E y \in Refs[req[p].ask.on] : y \in removed
            \/ req[p].copy.by \in removed \/ req[p].ask.by \in removed
        BY <3>1, <4>1 DEF Accepted, Known, IInv, DependsOnInv, AuthorInv
      <4>3. QED
        BY <2>1, <3>1, <4>2
    <3>4. CASE SavePassword(p)
      <4>1. ~There(req[p].ask.on) /\ req[p].pc = "saved"
        BY <3>2, <3>4 DEF SavePassword, Serving
      <4>2. req[p].ask.on \in removed
        BY <4>1 DEF IInv, DependsOnInv
      <4>3. QED
        BY <2>1, <3>1, <4>2
    <3>5. CASE Delete(p)
      <4>1. Refused(req[p].doomed)
        BY <3>2, <3>5 DEF Delete, Serving
      <4>2. QED
        BY <3>1, <4>1 DEF Refused
    <3>6. CASE Log(p)
      <4>1. ~There(req[p].ask.by) /\ req[p].pc = "stored"
        BY <3>2, <3>6 DEF Log, Serving
      <4>2. req[p].ask.by \in removed
        BY <4>1 DEF IInv, AuthorInv
      <4>3. QED
        BY <2>1, <3>1, <4>2
    <3>7. QED
      BY <2>3, <3>1, <3>3, <3>4, <3>5, <3>6 DEF RequestStep, Read
  <2>4. QED
    BY <2>2, <2>3, RequestMoves, JobRows
       DEF Next, RequestStep, JobStep, PassReads, PassCommits, IInv
<1>3. QED
  BY <1>1, <1>2, Invariant, PTL DEF Spec

\* A removed row is back only as a copy read before, and never with a reference to
\* a row that is not there (models/base.py saves whole objects).
THEOREM CopiesBringBack == Spec => BackOnlyAsCopy
<1> DEFINE Back ==
       \A x \in Row : x \in removed /\ There(x)' /\ ~There(x) =>
          /\ \/ \E q \in Request : /\ req[q].pc = "read" /\ req'[q].pc # "read"
                                   /\ req[q].ask.on = x
             \/ x \in Job /\ held[x].state = "waiting" /\ cmd[x] = "none"
          /\ \A y \in Refs[x] : There(y)'
<1>1. IInv /\ IInv' /\ [Next]_vars => [Back]_vars
  <2> SUFFICES ASSUME IInv, IInv', Next, NEW x \in Row, There(x)', ~There(x)
               PROVE  /\ \/ \E q \in Request : /\ req[q].pc = "read"
                                               /\ req'[q].pc # "read"
                                               /\ req[q].ask.on = x
                         \/ x \in Job /\ held[x].state = "waiting" /\ cmd[x] = "none"
                      /\ \A y \in Refs[x] : There(y)'
    OBVIOUS
  <2> USE RecordsAssumption
  <2>1. \A y \in Refs[x] : There(y)'
    BY DEF IInv, RefInv
  <2>2. row'[x] # row[x]
    BY DEF There
  <2>3. CASE \E q \in Request : RequestStep(q)
    <3>1. PICK q \in Request : RequestStep(q)
      BY <2>3
    <3>2. row' # row /\ row' # Without(req[q].doomed)
      BY <2>2, WithoutRows DEF IInv
    <3>3. /\ \A z \in Row \ {req[q].ask.on} : row'[z] = row[z]
          /\ req[q].pc = "read" \/ row'[req[q].ask.on].state = row[req[q].ask.on].state
      BY <3>1, <3>2, RequestRows DEF IInv
    <3>4. x = req[q].ask.on /\ req[q].pc = "read"
      BY <2>2, <3>3 DEF There
    <3>5. Save(q)
      BY <3>1, <3>2, <3>4 DEF RequestStep, Read, SavePassword, Delete, Log
    <3>6. req'[q].pc # "read"
      BY <3>5 DEF Save, Following, IInv, TypeOK, Serving
    <3>7. QED
      BY <2>1, <3>4, <3>6
  <2>4. CASE PassCommits
    <3>1. PICK S \in SUBSET Holding : \A z \in Row \ S : row'[z] = row[z]
      BY <2>2, <2>4, PassRows DEF IInv
    <3>2. x \in Job /\ held[x].state = "waiting"
      BY <2>2, <3>1 DEF Holding
    <3>3. QED
      BY <2>1, <3>2 DEF IInv, CommandInv
  <2>5. CASE \E j \in Job : JobStep(j)
    BY <2>2, <2>5, JobRows DEF IInv, There
  <2>6. QED
    BY <2>2, <2>3, <2>4, <2>5 DEF Next, RequestStep, JobStep, PassReads
<1>2. QED
  BY <1>1, Invariant, PTL DEF Spec, BackOnlyAsCopy

\* An answered change of a record is lost only to a request that overlaps it
\* (perform_update saves the whole object that get_object has read).
THEOREM LostChanges == Spec => []LostOnlyByOverlap
<1>1. Init => StageInv /\ ChangeInv
  BY DEF Init, StageInv, ChangeInv, Stored, Updating
<1>2. IInv /\ IInv' /\ StageInv /\ ChangeInv /\ [Next]_vars => StageInv' /\ ChangeInv'
  <2> SUFFICES ASSUME IInv, IInv', StageInv, ChangeInv, [Next]_vars
               PROVE  StageInv' /\ ChangeInv'
    OBVIOUS
  <2>1. CASE UNCHANGED vars
    BY <2>1 DEF vars, StageInv, ChangeInv, Named, Stored, Found, Overlapped, Updating, Done
  <2>2. CASE Next
    BY <2>2, StageStep, ChangeStep, RecordsAssumption
  <2> QED
    BY <2>1, <2>2
<1>3. ChangeInv => LostOnlyByOverlap
  BY DEF ChangeInv, Stored, Found, Overlapped, LostOnlyByOverlap
<1> QED
  BY <1>1, <1>2, <1>3, Invariant, PTL DEF Spec
=============================================================================
