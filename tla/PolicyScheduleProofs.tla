------------------------ MODULE PolicyScheduleProofs ------------------------
(***************************************************************************)
(* What TLAPS proves of PolicySchedule, for any number of policies, of     *)
(* overlapping runs, of edits and of faults, and any crontabs.             *)
(***************************************************************************)
EXTENDS PolicySchedule, TLAPS, WellFoundedInduction

-----------------------------------------------------------------------------
(* Types.                                                                  *)

\* The next instant of a crontab is an instant: there is a first one to come.
LEMMA NextInstantType ==
    ASSUME NEW c \in Crontab, NEW t \in Time
    PROVE  NextInstant(c, t) \in Instant
<1> DEFINE S == {i \in c : i > t}
<1>0. c \in SUBSET (1 .. MaxTime)
  BY ScheduleAssumption
<1>a. \A i \in 1 .. MaxTime : i \in Time /\ i \in Nat
  BY ScheduleAssumption DEF Time
<1>1. c \subseteq Time /\ S \subseteq Nat /\ S \subseteq Time /\ t \in Nat
  <2>1. c \subseteq Time /\ c \subseteq Nat
    BY <1>0, <1>a
  <2>2. t \in Nat
    BY ScheduleAssumption DEF Time
  <2> QED
    BY <2>1, <2>2
<1>2. CASE S = {}
  BY <1>2 DEF NextInstant, Instant
<1>3. CASE S # {}
  <2>1. PICK a \in S : \A b \in S : ~(<<b, a>> \in OpToRel(<, Nat))
    <3> HIDE DEF S
    <3> QED
      BY <1>1, <1>3, NatLessThanWellFounded, WFMin
  <2>2. \A b \in S : a <= b
    <3> SUFFICES ASSUME NEW b \in S PROVE a <= b
      OBVIOUS
    <3>1. ~(b < a)
      BY <1>1, <2>1 DEF OpToRel
    <3> QED
      BY <1>1, <3>1
  <2>3. \E i \in c : i > t /\ \A k \in c : k > t => i <= k
    BY <2>2
  <2>4. NextInstant(c, t) = CHOOSE i \in c : i > t /\ \A k \in c : k > t => i <= k
    BY <2>1 DEF NextInstant
  <2>5. NextInstant(c, t) \in c
    BY <2>3, <2>4
  <2> QED
    BY <1>1, <2>5 DEF Instant
<1> QED
  BY <1>2, <1>3

\* A policy whose object is saved has its fields, and an instant of the crontab.
LEMMA SavePolicyType ==
    ASSUME TypeOK, NEW p \in Policy, NEW r \in PolicyRow, SavePolicy(p, r)
    PROVE  policy' \in [Policy -> PolicyRow]
<1>1. NextInstant(crontab, time) \in Instant
  BY NextInstantType DEF TypeOK
<1>2. [r EXCEPT !.next = NextInstant(crontab, time)] \in PolicyRow
  BY <1>1 DEF PolicyRow
<1> QED
  BY <1>2 DEF SavePolicy, TypeOK

\* What is lost are instants that have come.
LEMMA ExcuseType ==
    ASSUME TypeOK, NEW S \in SUBSET Policy, Excuse(S) \/ UNCHANGED excused
    PROVE  excused' \in SUBSET (Policy \X Time)
<1> SUFFICES ASSUME Excuse(S) PROVE excused' \subseteq Policy \X Time
  BY DEF TypeOK
<1>1. \A p \in Policy : Due(p) => policy[p].next \in Time
  <2> SUFFICES ASSUME NEW p \in Policy, Due(p) PROVE policy[p].next \in Time
    OBVIOUS
  <2>1. policy[p].next \in Instant
    BY DEF TypeOK, PolicyRow
  <2> QED
    BY <2>1, ScheduleAssumption DEF Due, TypeOK, Instant, Never, Time
<1> QED
  BY <1>1 DEF Excuse, TypeOK

LEMMA NoRows ==
    /\ NoRow \in PolicyRow
    /\ NoRun \in Run
    /\ NoRun.pc = "idle"
  BY ScheduleAssumption DEF NoRow, NoRun, PolicyRow, Run, Instant, Time

-----------------------------------------------------------------------------
(* What the history of launches rests on.                                  *)

Active(s) == run[s].pc # "idle"
\* Between, of a run in progress.
Covers(s, i) == run[s].last < i /\ i < run[s].now

\* A change of the schedule is to a crontab it may have; the policies a run is
\* about to launch have an instant of its interval.
Within ==
    /\ change.on => change.to \in Crontab
    /\ \A s \in Runner : run[s].pc \in {"due", "create"} =>
          \A p \in run[s].todo : Covers(s, run[s].held[p].next)

Clock ==
    /\ lastRun <= time
    /\ \A s \in Runner : Active(s) => run[s].now <= time
\* A run that has saved its beginning is not ahead of what is saved.
Saved ==
    \A s \in Runner :
        /\ run[s].pc = "read" => lastRun <= run[s].now
        /\ Active(s) /\ run[s].pc # "read" => run[s].now <= lastRun
\* Two runs are never both between reading and saving; their intervals are apart.
Apart ==
    \A s, t \in Runner : s # t /\ Active(s) /\ Active(t) =>
        /\ ~(run[s].pc = "read" /\ run[t].pc = "read")
        /\ run[s].now <= run[t].last \/ run[t].now <= run[s].last
\* What is launched is behind the last run saved, and no run is to launch it again.
Past ==
    \A p \in Policy, i \in Time : launched[p][i] > 0 =>
        /\ i < lastRun
        /\ \A s \in Runner : Active(s) /\ Covers(s, i) =>
              run[s].pc \in {"due", "create"} /\ p \notin run[s].todo
Once == \A p \in Policy, i \in Time : launched[p][i] <= 1

Typed == TypeOK /\ Within
Follow == ~tangled => Saved /\ Apart /\ Past /\ Once
Inv == Clock /\ Follow

LEMMA TypedInit == Init => Typed
<1> SUFFICES ASSUME Init PROVE Typed
  OBVIOUS
<1>1. 0 \in Time
  BY ScheduleAssumption DEF Time
<1>2. NextInstant(crontab, 0) \in Instant
  BY <1>1, NextInstantType DEF Init
<1>3. policy \in [Policy -> PolicyRow]
  BY <1>2 DEF Init, PolicyRow
<1>4. NoChange \in [on : BOOLEAN, todo : SUBSET Policy, to : Crontab \cup {{}},
                      active : BOOLEAN, held : [Policy -> PolicyRow]]
  BY NoRows DEF NoChange
<1>5. launched \in [Policy -> [Time -> Nat]]
  BY DEF Init
<1>6. TypeOK
  <2>1. run \in [Runner -> Run]
    BY NoRows DEF Init
  <2>2. {active, usable, tangled} \subseteq BOOLEAN
    BY DEF Init
  <2>3. edits \in 0 .. MaxEdits /\ faults \in 0 .. MaxFaults
    BY ScheduleAssumption DEF Init
  <2>4. time \in Time /\ lastRun \in Time /\ crontab \in Crontab /\ change = NoChange
        /\ excused = {}
    BY <1>1 DEF Init
  <2> QED
    BY <1>3, <1>4, <1>5, <2>1, <2>2, <2>3, <2>4 DEF TypeOK
<1>7. Within
  BY NoRows DEF Init, Within, NoChange
<1> QED
  BY <1>6, <1>7 DEF Typed

\* The steps of a run that only read, or only end it.
LEMMA RunTyped ==
    ASSUME Typed, NEW s \in Runner,
           ReadState(s) \/ SaveState(s) \/ QueryOld(s) \/ QueryDue(s)
           \/ SkipPolicy(s) \/ NextPolicy(s) \/ EndRun(s) \/ Crash(s)
    PROVE  Typed'
<1> USE DEF Typed
<1>t. TypeOK /\ Within /\ run[s] \in Run /\ time \in Time /\ lastRun \in Time
  BY DEF TypeOK
<1>1. CASE ReadState(s)
  <2>1. run'[s] \in Run /\ run'[s].pc = "read"
    BY <1>1, <1>t, NoRows DEF ReadState, Run, TypeOK
  <2>2. excused' \subseteq Policy \X Time
    BY <1>1, <1>t DEF ReadState, TypeOK
  <2>3. tangled' \in BOOLEAN
    BY <1>1, <1>t DEF ReadState, TypeOK
  <2>4. TypeOK'
    BY <1>1, <1>t, <2>1, <2>2, <2>3 DEF ReadState, Others, TypeOK
  <2>5. Within'
    BY <1>1, <1>t, <2>1 DEF ReadState, Others, TypeOK, Within, Covers
  <2> QED
    BY <2>4, <2>5
<1>2. CASE SaveState(s)
  <2>1. run'[s] \in Run /\ run'[s].pc = "old" /\ lastRun' \in Time
    BY <1>2, <1>t DEF SaveState, SavedFirst, Run, TypeOK
  <2>4. TypeOK'
    BY <1>2, <1>t, <2>1 DEF SaveState, Others, history, TypeOK
  <2>5. Within'
    BY <1>2, <1>t, <2>1 DEF SaveState, Others, TypeOK, Within, Covers
  <2> QED
    BY <2>4, <2>5
<1>3. CASE QueryOld(s)
  <2>1. run'[s] \in Run /\ run'[s].pc = "saveOld"
    BY <1>3, <1>t, NoRows DEF QueryOld, Run, TypeOK
  <2>4. TypeOK'
    BY <1>3, <1>t, <2>1 DEF QueryOld, Others, history, TypeOK
  <2>5. Within'
    BY <1>3, <1>t, <2>1 DEF QueryOld, Others, TypeOK, Within, Covers
  <2> QED
    BY <2>4, <2>5
<1>4. CASE QueryDue(s)
  <2>1. run'[s] \in Run /\ run'[s].pc = "due"
    BY <1>4, <1>t, NoRows DEF QueryDue, Run, TypeOK
  <2>2. \A p \in run'[s].todo : Covers(s, run[s].held[p].next)'
    BY <1>4, <1>t DEF QueryDue, Run, TypeOK, Covers, Between
  <2>4. TypeOK'
    BY <1>4, <1>t, <2>1 DEF QueryDue, Others, history, TypeOK
  <2>5. Within'
    BY <1>4, <1>t, <2>1, <2>2 DEF QueryDue, Others, TypeOK, Within, Covers
  <2> QED
    BY <2>4, <2>5
<1>5. CASE SkipPolicy(s)
  <2>1. PICK p \in run[s].todo : /\ run' = [run EXCEPT ![s].todo = @ \ {p}]
                                 /\ Excuse({p})
    BY <1>5 DEF SkipPolicy
  <2>2. p \in Policy
    BY <1>t DEF Run
  <2>3. run'[s] \in Run
    BY <1>t, <2>1 DEF Run, TypeOK
  <2>4. TypeOK'
    BY <1>5, <1>t, <2>1, <2>2, <2>3, ExcuseType DEF SkipPolicy, Others, TypeOK
  <2>5. Within'
    BY <1>5, <1>t, <2>1 DEF SkipPolicy, Others, TypeOK, Within, Covers
  <2> QED
    BY <2>4, <2>5
<1>6. CASE NextPolicy(s)
  <2>1. run'[s] \in Run
    BY <1>6, <1>t DEF NextPolicy, Run, TypeOK
  <2>4. TypeOK'
    BY <1>6, <1>t, <2>1 DEF NextPolicy, Others, history, TypeOK
  <2>5. Within'
    BY <1>6, <1>t DEF NextPolicy, Step, Others, TypeOK, Within, Covers
  <2> QED
    BY <2>4, <2>5
<1>7. CASE EndRun(s)
  <2>1. lastRun' \in Time /\ tangled' \in BOOLEAN
    BY <1>7, <1>t DEF EndRun, Run, TypeOK
  <2>4. TypeOK'
    BY <1>7, <1>t, <2>1, NoRows DEF EndRun, Others, TypeOK
  <2>5. Within'
    BY <1>7, <1>t, NoRows DEF EndRun, Others, TypeOK, Within, Covers
  <2> QED
    BY <2>4, <2>5
<1>8. CASE Crash(s)
  <2>1. excused' \subseteq Policy \X Time
    BY <1>8, <1>t, ExcuseType DEF Crash
  <2>2. faults' \in 0 .. MaxFaults
    BY <1>8, <1>t, ScheduleAssumption DEF Crash, TypeOK
  <2>4. TypeOK'
    BY <1>8, <1>t, <2>1, <2>2, NoRows DEF Crash, Others, TypeOK
  <2>5. Within'
    BY <1>8, <1>t, NoRows DEF Crash, Others, TypeOK, Within, Covers
  <2> QED
    BY <2>4, <2>5
<1> QED
  BY <1>1, <1>2, <1>3, <1>4, <1>5, <1>6, <1>7, <1>8

\* The steps of a run that save a policy.
LEMMA RunSavesTyped ==
    ASSUME Typed, NEW s \in Runner, SaveOld(s) \/ SaveDue(s)
    PROVE  Typed'
<1> USE DEF Typed
<1>t. TypeOK /\ Within /\ run[s] \in Run /\ time \in Time /\ lastRun \in Time
  BY DEF TypeOK
<1>1. CASE SaveOld(s)
  <2>1. PICK p \in run[s].todo :
          /\ SavePolicy(p, run[s].held[p])
          /\ run' = [run EXCEPT ![s].todo = @ \ {p}]
          /\ Excuse({p}) \/ UNCHANGED excused
    BY <1>1 DEF SaveOld
  <2>2. p \in Policy /\ run[s].held[p] \in PolicyRow
    BY <1>t DEF Run
  <2>3. policy' \in [Policy -> PolicyRow]
    BY <1>t, <2>1, <2>2, SavePolicyType
  <2>4. excused' \in SUBSET (Policy \X Time)
    BY <1>t, <2>1, <2>2, ExcuseType
  <2>5. run'[s] \in Run
    BY <1>t, <2>1 DEF Run, TypeOK
  <2>6. TypeOK'
    BY <1>1, <1>t, <2>1, <2>3, <2>4, <2>5 DEF SaveOld, Others, TypeOK
  <2>7. Within'
    BY <1>1, <1>t, <2>1 DEF SaveOld, Step, Others, TypeOK, Within, Covers
  <2> QED
    BY <2>6, <2>7
<1>2. CASE SaveDue(s)
  <2>1. PICK p \in run[s].todo :
          /\ SavePolicy(p, run[s].held[p])
          /\ run' = [run EXCEPT ![s].pc = "create", ![s].todo = @ \ {p},
                        ![s].held = [q \in Policy |-> IF q = p THEN NoRow
                                                      ELSE run[s].held[q]]]
          /\ \/ /\ launched' = [launched EXCEPT ![p][run[s].held[p].next] = @ + 1]
                /\ UNCHANGED <<excused, faults>>
             \/ /\ faults < MaxFaults /\ faults' = faults + 1
                /\ excused' = excused \cup {<<p, run[s].held[p].next>>}
                /\ UNCHANGED launched
    BY <1>2 DEF SaveDue
  <2>2. p \in Policy /\ run[s].held[p] \in PolicyRow
    BY <1>t DEF Run
  <2>3. policy' \in [Policy -> PolicyRow]
    BY <1>t, <2>1, <2>2, SavePolicyType
  <2>4. run[s].held[p].next \in Time
    <3>1. Covers(s, run[s].held[p].next)
      BY <1>2, <1>t DEF SaveDue, Step, Within
    <3>2. run[s].held[p].next \in Instant /\ run[s].now \in Time
      BY <1>t, <2>2 DEF PolicyRow, Run
    <3> QED
      BY <3>1, <3>2, ScheduleAssumption DEF Covers, Instant, Never, Time
  <2>5. launched' \in [Policy -> [Time -> Nat]] /\ excused' \subseteq Policy \X Time
        /\ faults' \in 0 .. MaxFaults
    <3>1. launched' \in [Policy -> [Time -> Nat]]
      <4>1. \A i \in Time : [launched[p] EXCEPT ![i] = @ + 1] \in [Time -> Nat]
        BY <1>t, <2>2 DEF TypeOK
      <4>2. launched \in [Policy -> [Time -> Nat]]
        BY <1>t DEF TypeOK
      <4> QED
        BY <2>1, <2>2, <2>4, <4>1, <4>2
    <3>2. faults' \in 0 .. MaxFaults
      BY <1>t, <2>1, ScheduleAssumption DEF TypeOK
    <3>3. excused' \subseteq Policy \X Time
      BY <1>t, <2>1, <2>2, <2>4 DEF TypeOK
    <3> QED
      BY <3>1, <3>2, <3>3
  <2>6. run'[s] \in Run
    BY <1>t, <2>1, NoRows DEF Run, TypeOK
  <2>7. TypeOK'
    BY <1>2, <1>t, <2>1, <2>3, <2>5, <2>6 DEF SaveDue, Others, TypeOK
  <2>8. \A q \in run'[s].todo : /\ q \in run[s].todo /\ q # p /\ q \in Policy
                                /\ run'[s].held[q] = run[s].held[q]
    BY <1>t, <2>1 DEF TypeOK, Run
  <2>9. /\ run'[s].last = run[s].last /\ run'[s].now = run[s].now
        /\ \A t \in Runner : t # s => run'[t] = run[t]
    BY <1>t, <2>1 DEF TypeOK, Run
  <2>10. Within'
    BY <1>2, <1>t, <2>8, <2>9 DEF SaveDue, Step, Others, Within, Covers
  <2> QED
    BY <2>7, <2>10
<1> QED
  BY <1>1, <1>2

\* The clock and the users.
LEMMA OutsideTyped ==
    ASSUME Typed, Tick \/ UserStep \/ ChangeStep
    PROVE  Typed'
<1> USE DEF Typed
<1>t. TypeOK /\ Within
  OBVIOUS
<1>1. CASE Tick
  BY <1>1, <1>t, ScheduleAssumption DEF Tick, history, TypeOK, Within, Time, Covers
<1>e. ASSUME Edit PROVE edits' \in 0 .. MaxEdits
  BY <1>t, <1>e, ScheduleAssumption DEF Edit, TypeOK
<1>2. ASSUME NEW p \in Policy, SaveEdited(p) PROVE Typed'
  <2>1. PICK enabled \in BOOLEAN : SavePolicy(p, [policy[p] EXCEPT !.enabled = enabled])
    BY <1>2 DEF SaveEdited
  <2>2. [policy[p] EXCEPT !.enabled = enabled] \in PolicyRow
    BY <1>t DEF TypeOK, PolicyRow
  <2>3. policy' \in [Policy -> PolicyRow] /\ excused' \in SUBSET (Policy \X Time)
    BY <1>t, <1>2, <2>1, <2>2, SavePolicyType, ExcuseType DEF SaveEdited
  <2> QED
    BY <1>t, <1>2, <1>e, <2>3 DEF SaveEdited, Unedited, TypeOK, Within, Covers
<1>3. CASE Toggle
  BY <1>t, <1>3, <1>e DEF Toggle, Unedited, TypeOK, Within, Covers
<1>4. CASE BeginChange
  <2>1. PICK c \in Crontab, a \in BOOLEAN :
          change' = [on |-> TRUE, todo |-> Policy, to |-> c, active |-> a,
                     held |-> policy]
    BY <1>4 DEF BeginChange
  <2>2. /\ change' \in [on : BOOLEAN, todo : SUBSET Policy, to : Crontab \cup {{}},
                        active : BOOLEAN, held : [Policy -> PolicyRow]]
        /\ change'.to \in Crontab
    BY <1>t, <2>1 DEF TypeOK
  <2>3. TypeOK'
    BY <1>t, <1>4, <1>e, <2>2 DEF BeginChange, Unedited, TypeOK
  <2>4. Within'
    BY <1>t, <1>4, <2>2 DEF BeginChange, Unedited, Within, Covers
  <2> QED
    BY <2>3, <2>4
<1>5. CASE SaveRelated
  <2>1. PICK p \in change.todo :
          /\ SavePolicy(p, change.held[p])
          /\ Excuse({p})
          /\ change' = [change EXCEPT !.todo = @ \ {p}, !.held[p] = NoRow]
    BY <1>5 DEF SaveRelated
  <2>2. p \in Policy /\ change.held[p] \in PolicyRow
    BY <1>t DEF TypeOK
  <2>3. policy' \in [Policy -> PolicyRow] /\ excused' \in SUBSET (Policy \X Time)
    BY <1>t, <2>1, <2>2, SavePolicyType, ExcuseType
  <2>4. /\ change' \in [on : BOOLEAN, todo : SUBSET Policy, to : Crontab \cup {{}},
                        active : BOOLEAN, held : [Policy -> PolicyRow]]
        /\ change'.to = change.to /\ change'.on = change.on
    BY <1>t, <2>1, <2>2, NoRows DEF TypeOK
  <2>5. TypeOK'
    BY <1>t, <1>5, <2>3, <2>4 DEF SaveRelated, Unedited, TypeOK
  <2>6. Within'
    BY <1>t, <1>5, <2>4 DEF SaveRelated, Unedited, Within, Covers
  <2> QED
    BY <2>5, <2>6
<1>6. CASE EndChange
  <2>1. change' \in [on : BOOLEAN, todo : SUBSET Policy, to : Crontab \cup {{}},
                     active : BOOLEAN, held : [Policy -> PolicyRow]]
        /\ change'.on = FALSE
    BY <1>6, NoRows DEF EndChange, NoChange
  <2>2. crontab' \in Crontab /\ active' \in BOOLEAN
    BY <1>t, <1>6 DEF EndChange, Within, TypeOK
  <2> QED
    BY <1>t, <1>6, <2>1, <2>2 DEF EndChange, Unedited, TypeOK, Within, Covers
<1> QED
  BY <1>1, <1>2, <1>3, <1>4, <1>5, <1>6 DEF UserStep, ChangeStep

LEMMA TypedStep ==
    ASSUME Typed, [Next]_vars
    PROVE  Typed'
<1>1. CASE UNCHANGED vars
  BY <1>1 DEF Typed, TypeOK, Within, Covers, vars
<1>2. CASE Next
  BY <1>2, RunTyped, RunSavesTyped, OutsideTyped DEF Next, RunStep
<1> QED
  BY <1>1, <1>2

\* The variables have their types: whatever overlaps, a run launches a policy
\* only at an instant of its own interval (objects.between in the scheduler).
THEOREM TypeCorrect == Spec => []TypeOK
<1>1. Init => Typed
  BY TypedInit
<1>2. Typed /\ [Next]_vars => Typed'
  BY TypedStep
<1>3. Typed => TypeOK
  BY DEF Typed
<1> QED
  BY <1>1, <1>2, <1>3, PTL DEF Spec

-----------------------------------------------------------------------------
(* An instant is launched once.                                            *)

\* The instants are numbers.
LEMMA Instants ==
    ASSUME Typed
    PROVE  /\ \A s \in Runner : run[s].last \in Nat /\ run[s].now \in Nat
                                /\ run[s].now <= MaxTime
           /\ lastRun \in Nat /\ time \in Nat /\ Time \subseteq Nat /\ MaxTime \in Nat
           /\ \A i \in Nat : i <= MaxTime => i \in Time
<1>1. \A s \in Runner : run[s].last \in Time /\ run[s].now \in Time
  BY DEF Typed, TypeOK, Run
<1>2. lastRun \in Time /\ time \in Time
  BY DEF Typed, TypeOK
<1> QED
  BY <1>1, <1>2, ScheduleAssumption DEF Time

\* A step of a run that neither moves it in time nor creates a job.
LEMMA QuietStep ==
    ASSUME Typed, Inv, NEW s \in Runner,
           QueryOld(s) \/ SaveOld(s) \/ QueryDue(s) \/ SkipPolicy(s) \/ NextPolicy(s)
    PROVE  Inv'
<1>1. UNCHANGED <<time, lastRun, launched, tangled>>
  BY DEF QueryOld, SaveOld, QueryDue, SkipPolicy, NextPolicy, Others, history
<1>2. /\ \A t \in Runner : t # s => run'[t] = run[t]
      /\ run'[s].last = run[s].last /\ run'[s].now = run[s].now
      /\ run[s].pc \notin {"idle", "read"} /\ run'[s].pc \notin {"idle", "read"}
      /\ run[s].pc \in {"due", "create"} =>
            run'[s].pc \in {"due", "create"} /\ run'[s].todo \subseteq run[s].todo
  <2>t. run \in [Runner -> Run] /\ run[s] \in Run
    BY DEF Typed, TypeOK
  <2>1. CASE QueryOld(s)
    BY <2>1, <2>t DEF QueryOld, Step, Run
  <2>2. CASE SaveOld(s)
    <3>1. PICK p \in run[s].todo : run' = [run EXCEPT ![s].todo = @ \ {p}]
      BY <2>2 DEF SaveOld
    <3> QED
      BY <2>2, <2>t, <3>1 DEF SaveOld, Step, Run
  <2>3. CASE QueryDue(s)
    BY <2>3, <2>t DEF QueryDue, Step, Run
  <2>4. CASE SkipPolicy(s)
    <3>1. PICK p \in run[s].todo : run' = [run EXCEPT ![s].todo = @ \ {p}]
      BY <2>4 DEF SkipPolicy
    <3> QED
      BY <2>4, <2>t, <3>1 DEF SkipPolicy, Step, Run
  <2>5. CASE NextPolicy(s)
    BY <2>5, <2>t DEF NextPolicy, Step, Run
  <2> QED
    BY <2>1, <2>2, <2>3, <2>4, <2>5
<1>4. Clock'
  BY <1>1, <1>2 DEF Inv, Clock, Active
<1>5. ASSUME ~tangled' PROVE Saved' /\ Apart' /\ Past' /\ Once'
  <2>1. Saved /\ Apart /\ Past /\ Once
    BY <1>1, <1>5 DEF Inv, Follow
  <2>2. Saved'
    BY <1>1, <1>2, <2>1 DEF Saved, Active
  <2>3. Apart'
    BY <1>1, <1>2, <2>1 DEF Apart, Active
  <2>4. Past'
    <3> SUFFICES ASSUME NEW p \in Policy, NEW i \in Time, launched'[p][i] > 0
                 PROVE  i < lastRun' /\ \A t \in Runner : (Active(t) /\ Covers(t, i) =>
                           run[t].pc \in {"due", "create"} /\ p \notin run[t].todo)'
      BY DEF Past
    <3>1. i < lastRun /\ \A t \in Runner : Active(t) /\ Covers(t, i) =>
             run[t].pc \in {"due", "create"} /\ p \notin run[t].todo
      BY <1>1, <2>1 DEF Past
    <3>2. ASSUME NEW t \in Runner
          PROVE  (Active(t) /\ Covers(t, i) =>
                    run[t].pc \in {"due", "create"} /\ p \notin run[t].todo)'
      BY <1>2, <3>1 DEF Active, Covers
    <3> QED
      BY <1>1, <3>1, <3>2
  <2>5. Once'
    BY <1>1, <2>1 DEF Once
  <2> QED
    BY <2>2, <2>3, <2>4, <2>5
<1> QED
  BY <1>4, <1>5 DEF Inv, Follow

\* A run begins where the last run saved ended; one that was reading makes the
\* two read the same.
LEMMA ReadStateInv ==
    ASSUME Typed, Inv, NEW s \in Runner, ReadState(s)
    PROVE  Inv'
<1>1. /\ UNCHANGED <<time, lastRun, launched>>
      /\ tangled' = (tangled \/ \E t \in Runner : Step(t, "read"))
  BY DEF ReadState, Others
<1>2. /\ \A t \in Runner : t # s => run'[t] = run[t]
      /\ run'[s].last = lastRun /\ run'[s].now = time /\ run'[s].pc = "read"
  BY DEF ReadState, Typed, TypeOK, NoRun
<1>n. lastRun \in Nat /\ time \in Nat /\ Time \subseteq Nat /\ lastRun <= time
  BY Instants DEF Inv, Clock
<1>3. Clock'
  BY <1>1, <1>2, <1>n DEF Inv, Clock, Active
<1>4. ASSUME ~tangled' PROVE Saved' /\ Apart' /\ Past' /\ Once'
  <2>1. Saved /\ Apart /\ Past /\ Once /\ \A t \in Runner : run[t].pc # "read"
    BY <1>1, <1>4 DEF Inv, Follow, Step
  <2>2. Saved'
    BY <1>1, <1>2, <1>n, <2>1 DEF Saved, Active
  <2>3. Apart'
    BY <1>1, <1>2, <2>1 DEF Apart, Saved, Active
  <2>4. ASSUME NEW p \in Policy, NEW i \in Time, launched'[p][i] > 0
        PROVE  i < lastRun' /\ \A t \in Runner : (Active(t) /\ Covers(t, i) =>
                  run[t].pc \in {"due", "create"} /\ p \notin run[t].todo)'
    <3>1. i < lastRun /\ \A t \in Runner : Active(t) /\ Covers(t, i) =>
             run[t].pc \in {"due", "create"} /\ p \notin run[t].todo
      BY <1>1, <2>1, <2>4 DEF Past
    <3>2. ~Covers(s, i)'
      BY <1>2, <1>n, <3>1 DEF Covers
    <3>3. ASSUME NEW t \in Runner
          PROVE  (Active(t) /\ Covers(t, i) =>
                    run[t].pc \in {"due", "create"} /\ p \notin run[t].todo)'
      BY <1>2, <3>1, <3>2 DEF Active, Covers
    <3> QED
      BY <1>1, <3>1, <3>3
  <2>5. Past' /\ Once'
    BY <1>1, <2>1, <2>4 DEF Past, Once
  <2> QED
    BY <2>2, <2>3, <2>5
<1> QED
  BY <1>3, <1>4 DEF Inv, Follow

\* The beginning of the one run that was reading is saved: it is ahead of the others.
LEMMA SaveStateInv ==
    ASSUME Typed, Inv, NEW s \in Runner, SaveState(s)
    PROVE  Inv'
<1>1. /\ UNCHANGED <<time, launched, tangled>>
      /\ lastRun' = run[s].now
      /\ run[s].pc = "read"
  BY DEF SaveState, SavedFirst, Step, Others, history
<1>2. /\ \A t \in Runner : t # s => run'[t] = run[t]
      /\ run'[s].last = run[s].last /\ run'[s].now = run[s].now /\ run'[s].pc = "old"
  BY DEF SaveState, Typed, TypeOK, Run
<1>n. /\ lastRun \in Nat /\ time \in Nat /\ Time \subseteq Nat
      /\ \A t \in Runner : run[t].now \in Nat /\ run[t].last \in Nat
  BY Instants
<1>3. Clock'
  BY <1>1, <1>2, <1>n DEF Inv, Clock, Active
<1>4. ASSUME ~tangled' PROVE Saved' /\ Apart' /\ Past' /\ Once'
  <2>1. Saved /\ Apart /\ Past /\ Once
    BY <1>1, <1>4 DEF Inv, Follow
  <2>2. lastRun <= run[s].now /\ \A t \in Runner : t # s => run[t].pc # "read"
    BY <1>1, <2>1 DEF Saved, Apart, Active
  <2>3. Saved'
    BY <1>1, <1>2, <1>n, <2>1, <2>2 DEF Saved, Active
  <2>4. Apart'
    BY <1>1, <1>2, <2>1 DEF Apart, Active
  <2>5. ASSUME NEW p \in Policy, NEW i \in Time, launched'[p][i] > 0
        PROVE  i < lastRun' /\ \A t \in Runner : (Active(t) /\ Covers(t, i) =>
                  run[t].pc \in {"due", "create"} /\ p \notin run[t].todo)'
    <3>1. i < lastRun /\ \A t \in Runner : Active(t) /\ Covers(t, i) =>
             run[t].pc \in {"due", "create"} /\ p \notin run[t].todo
      BY <1>1, <2>1, <2>5 DEF Past
    <3>2. i < lastRun'
      BY <1>1, <1>n, <2>2, <3>1
    <3>3. ASSUME NEW t \in Runner
          PROVE  (Active(t) /\ Covers(t, i) =>
                    run[t].pc \in {"due", "create"} /\ p \notin run[t].todo)'
      BY <1>1, <1>2, <3>1 DEF Active, Covers
    <3> QED
      BY <3>2, <3>3
  <2>6. Past' /\ Once'
    BY <1>1, <2>1, <2>5 DEF Past, Once
  <2> QED
    BY <2>3, <2>4, <2>6
<1> QED
  BY <1>3, <1>4 DEF Inv, Follow

\* A run that is over holds nothing; one that ends behind another is noticed.
LEMMA LeaveInv ==
    ASSUME Typed, Inv, NEW s \in Runner, EndRun(s) \/ Crash(s)
    PROVE  Inv'
<1>1. /\ UNCHANGED <<time, launched>>
      /\ ~tangled' => ~tangled
  <2>1. tangled \in BOOLEAN
    BY DEF Typed, TypeOK
  <2> QED
    BY <2>1 DEF EndRun, Crash, Others
<1>2. /\ \A t \in Runner : t # s => run'[t] = run[t]
      /\ run'[s].pc = "idle"
      /\ run[s].pc # "idle"
  BY NoRows DEF EndRun, Crash, Step, Typed, TypeOK
<1>n. /\ lastRun \in Nat /\ time \in Nat /\ Time \subseteq Nat
      /\ \A t \in Runner : run[t].now \in Nat /\ run[t].last \in Nat
  BY Instants
<1>3. lastRun' <= time
  BY <1>2 DEF EndRun, Crash, Others, Inv, Clock, Active
<1>4. Clock'
  BY <1>1, <1>2, <1>3 DEF Inv, Clock, Active
<1>5. ASSUME ~tangled' PROVE Saved' /\ Apart' /\ Past' /\ Once'
  <2>1. Saved /\ Apart /\ Past /\ Once
    BY <1>1, <1>5 DEF Inv, Follow
  <2>2. lastRun' = lastRun
    <3>1. CASE EndRun(s)
      <4>1. run[s].now <= lastRun
        BY <1>2, <2>1, <3>1 DEF Saved, Active, EndRun, Step
      <4> QED
        <5>1. ~(run[s].now < lastRun)
          BY <1>5, <3>1 DEF EndRun
        <5> QED
          BY <1>n, <3>1, <4>1, <5>1 DEF EndRun
    <3> QED
      BY <3>1 DEF Crash
  <2>3. Saved' /\ Apart'
    BY <1>2, <2>1, <2>2 DEF Saved, Apart, Active
  <2>4. ASSUME NEW p \in Policy, NEW i \in Time, launched'[p][i] > 0
        PROVE  i < lastRun' /\ \A t \in Runner : (Active(t) /\ Covers(t, i) =>
                  run[t].pc \in {"due", "create"} /\ p \notin run[t].todo)'
    BY <1>1, <1>2, <2>1, <2>2, <2>4 DEF Past, Active, Covers
  <2>5. Past' /\ Once'
    BY <1>1, <2>1, <2>4 DEF Past, Once
  <2> QED
    BY <2>3, <2>5
<1> QED
  BY <1>4, <1>5 DEF Inv, Follow

\* A policy is launched for an instant of its run's interval, which no other run
\* covers, and for which this one had not launched it.
LEMMA SaveDueInv ==
    ASSUME Typed, Inv, NEW s \in Runner, SaveDue(s)
    PROVE  Inv'
<1>1. PICK p \in run[s].todo :
        /\ run' = [run EXCEPT ![s].pc = "create", ![s].todo = @ \ {p},
                      ![s].held = [q \in Policy |-> IF q = p THEN NoRow
                                                    ELSE run[s].held[q]]]
        /\ \/ launched' = [launched EXCEPT ![p][run[s].held[p].next] = @ + 1]
           \/ UNCHANGED launched
  BY DEF SaveDue
<1>2. UNCHANGED <<time, lastRun, tangled>> /\ run[s].pc = "due"
  BY DEF SaveDue, Others, Step
<1>3. /\ \A t \in Runner : t # s => run'[t] = run[t]
      /\ run'[s].last = run[s].last /\ run'[s].now = run[s].now
      /\ run'[s].pc = "create" /\ run'[s].todo = run[s].todo \ {p}
  BY <1>1 DEF Typed, TypeOK, Run
<1>4. p \in Policy /\ run[s].held[p].next \in Instant
  BY DEF Typed, TypeOK, Run, PolicyRow
<1>5. Covers(s, run[s].held[p].next)
  BY <1>2 DEF Typed, Within
<1>n. /\ lastRun \in Nat /\ time \in Nat /\ Time \subseteq Nat /\ MaxTime \in Nat
      /\ \A t \in Runner : run[t].now \in Nat /\ run[t].last \in Nat
      /\ run[s].now <= MaxTime
      /\ \A i \in Nat : i <= MaxTime => i \in Time
  BY Instants
<1>6. PICK i \in Time : i = run[s].held[p].next
  <2>1. run[s].held[p].next # Never
    BY <1>5, <1>n DEF Covers, Never
  <2> QED
    BY <1>4, <2>1 DEF Instant
<1>7. Clock'
  BY <1>2, <1>3 DEF Inv, Clock, Active
<1>8. ASSUME ~tangled' PROVE Saved' /\ Apart' /\ Past' /\ Once'
  <2>1. Saved /\ Apart /\ Past /\ Once
    BY <1>2, <1>8 DEF Inv, Follow
  <2>2. Saved'
    BY <1>2, <1>3, <2>1 DEF Saved, Active
  <2>3. Apart'
    BY <1>2, <1>3, <2>1 DEF Apart, Active
  <2>4. launched[p][i] = 0
    <3>1. ~(launched[p][i] > 0)
      BY <1>2, <1>4, <1>5, <1>6, <2>1 DEF Past, Active
    <3>2. launched[p][i] \in Nat
      BY <1>4 DEF Typed, TypeOK
    <3> QED
      BY <3>1, <3>2
  <2>5. \A q \in Policy, k \in Time :
          \/ launched'[q][k] = launched[q][k]
          \/ q = p /\ k = i /\ launched'[q][k] = 1
    <3>1. CASE UNCHANGED launched
      BY <3>1
    <3>2. CASE launched' = [launched EXCEPT ![p][i] = @ + 1]
      <4>1. launched \in [Policy -> [Time -> Nat]]
        BY DEF Typed, TypeOK
      <4> QED
        BY <1>4, <2>4, <3>2, <4>1
    <3> QED
      BY <1>1, <1>6, <3>1, <3>2
  <2>6. Once'
    BY <2>1, <2>5 DEF Once
  <2>7. i < lastRun
    <3>1. run[s].now <= lastRun
      BY <1>2, <2>1 DEF Saved, Active
    <3> QED
      BY <1>5, <1>6, <1>n, <3>1 DEF Covers
  <2>8. ASSUME NEW t \in Runner, t # s, Active(t) PROVE ~Covers(t, i)
    <3>1. run[s].now <= run[t].last \/ run[t].now <= run[s].last
      BY <1>2, <2>1, <2>8 DEF Apart, Active
    <3> QED
      BY <1>5, <1>6, <1>n, <3>1 DEF Covers
  <2>9. ASSUME NEW q \in Policy, NEW k \in Time, launched'[q][k] > 0
        PROVE  k < lastRun' /\ \A t \in Runner : (Active(t) /\ Covers(t, k) =>
                  run[t].pc \in {"due", "create"} /\ q \notin run[t].todo)'
    <3>1. CASE launched[q][k] > 0
      <4>1. k < lastRun /\ \A t \in Runner : Active(t) /\ Covers(t, k) =>
               run[t].pc \in {"due", "create"} /\ q \notin run[t].todo
        BY <2>1, <3>1 DEF Past
      <4>2. ASSUME NEW t \in Runner
            PROVE  (Active(t) /\ Covers(t, k) =>
                      run[t].pc \in {"due", "create"} /\ q \notin run[t].todo)'
        BY <1>2, <1>3, <4>1 DEF Active, Covers
      <4> QED
        BY <1>2, <4>1, <4>2
    <3>2. CASE q = p /\ k = i
      <4>1. ASSUME NEW t \in Runner
            PROVE  (Active(t) /\ Covers(t, k) =>
                      run[t].pc \in {"due", "create"} /\ q \notin run[t].todo)'
        BY <1>3, <2>8, <3>2 DEF Active, Covers
      <4> QED
        BY <1>2, <2>7, <3>2, <4>1
    <3> QED
      BY <2>5, <2>9, <3>1, <3>2
  <2>10. Past'
    BY <2>9 DEF Past
  <2> QED
    BY <2>2, <2>3, <2>6, <2>10
<1> QED
  BY <1>7, <1>8 DEF Inv, Follow

LEMMA InvStep ==
    ASSUME Typed, Inv, [Next]_vars
    PROVE  Inv'
<1>1. CASE Tick
  <2>1. UNCHANGED <<lastRun, run, launched, tangled>> /\ time' = time + 1
    BY <1>1 DEF Tick, history
  <2>2. Clock'
    BY <2>1, Instants DEF Inv, Clock, Active
  <2> QED
    BY <2>1, <2>2 DEF Inv, Follow, Saved, Apart, Past, Once, Active, Covers
<1>2. CASE UserStep \/ ChangeStep \/ UNCHANGED vars
  <2>1. UNCHANGED <<time, lastRun, run, launched, tangled>>
    BY <1>2 DEF UserStep, SaveEdited, Toggle, BeginChange, ChangeStep, SaveRelated,
                EndChange, Unedited, vars
  <2> QED
    BY <2>1 DEF Inv, Clock, Follow, Saved, Apart, Past, Once, Active, Covers
<1>3. ASSUME NEW s \in Runner, RunStep(s) \/ Crash(s) PROVE Inv'
  BY <1>3, QuietStep, ReadStateInv, SaveStateInv, LeaveInv, SaveDueInv DEF RunStep
<1> QED
  BY <1>1, <1>2, <1>3 DEF Next

\* No instant of a policy is launched twice, by one run or by two, whatever is
\* edited and whoever crashes: state.save() before the query of the policies puts
\* the intervals of runs that follow each other apart.
THEOREM NoSecondLaunch == Spec => []LaunchedOnce
<1>1. Init => Inv
  <2> SUFFICES ASSUME Init PROVE Inv
    OBVIOUS
  <2>1. \A s \in Runner : run[s].pc = "idle"
    BY NoRows DEF Init
  <2>2. \A p \in Policy, i \in Time : launched[p][i] = 0
    BY DEF Init
  <2> QED
    BY <2>1, <2>2 DEF Init, Inv, Clock, Follow, Saved, Apart, Past, Once, Active
<1>2. Typed /\ Inv /\ [Next]_vars => Typed' /\ Inv'
  BY TypedStep, InvStep
<1>3. Inv => LaunchedOnce
  BY DEF Inv, Follow, Once, LaunchedOnce
<1> QED
  BY <1>1, <1>2, <1>3, TypedInit, PTL DEF Spec
=============================================================================
