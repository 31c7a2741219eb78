--------------------------- MODULE PolicySchedule ---------------------------
(***************************************************************************)
(* Which policies are launched when: cyborgbackup_periodic_scheduler       *)
(* (main/tasks/shared.py), a celery task sent every 30 seconds, the saves  *)
(* of policies and schedules that recompute next_run                       *)
(* (main/models/policies.py, main/models/schedules.py), and the edits of   *)
(* users meanwhile.  What create_job does is PolicyLaunch.                 *)
(*                                                                         *)
(* Time is counted in steps; a crontab is the set of its instants.  There  *)
(* is one schedule and one repository, those of all the policies.          *)
(***************************************************************************)
EXTENDS Naturals, FiniteSets

CONSTANTS
    Policy,    \* the policies of the schedule
    Runner,    \* workers that may run the task at the same time
    MaxTime,   \* bound of the clock
    Crontab,   \* crontabs the schedule may have
    MaxEdits,  \* bound on the edits of users
    MaxFaults  \* bound on crashes and failing launches

Time == 0 .. MaxTime
Never == MaxTime + 1 \* an instant beyond the bound
Instant == Time \cup {Never}

ASSUME ScheduleAssumption ==
    /\ MaxTime \in Nat /\ MaxEdits \in Nat /\ MaxFaults \in Nat
    /\ Crontab \subseteq SUBSET (1 .. MaxTime) /\ Crontab # {}

VARIABLES
    time,
    crontab,   \* schedule.crontab
    active,    \* schedule.enabled
    usable,    \* repository.enabled
    policy,    \* the rows of table main_policy
    lastRun,   \* CyborgBackupScheduleState.schedule_last_run
    run,       \* the runs of the task in progress
    change,    \* a Schedule.save in progress
    edits, faults,
    launched,  \* history: the jobs created for each instant of each policy
    excused,   \* history: instants lost for a reason named where it is added
    tangled    \* history: two runs that do not follow each other
vars == <<time, crontab, active, usable, policy, lastRun, run, change, edits, faults,
          launched, excused, tangled>>
history == <<launched, excused, tangled>>

PolicyRow == [enabled : BOOLEAN, next : Instant]
Run == [pc : {"idle", "read", "old", "saveOld", "due", "create"},
        last : Time, now : Time, todo : SUBSET Policy,
        held : [Policy -> PolicyRow]]
NoRow == [enabled |-> FALSE, next |-> Never]
NoRun == [pc |-> "idle", last |-> 0, now |-> 0, todo |-> {},
          held |-> [p \in Policy |-> NoRow]]
NoChange == [on |-> FALSE, todo |-> {}, to |-> {}, active |-> FALSE,
             held |-> [p \in Policy |-> NoRow]]

\* next(tzcron.Schedule(...)): an instant to come.
NextInstant(c, t) == IF \E i \in c : i > t
                     THEN CHOOSE i \in c : i > t /\ \A k \in c : k > t => i <= k
                     ELSE Never

Init ==
    /\ time = 0
    /\ crontab \in Crontab
    /\ active = TRUE /\ usable = TRUE
    /\ policy = [p \in Policy |-> [enabled |-> TRUE,
                                    next |-> NextInstant(crontab, 0)]]
    /\ lastRun = 0
    /\ run = [s \in Runner |-> NoRun]
    /\ change = NoChange
    /\ edits = 0 /\ faults = 0
    /\ launched = [p \in Policy |-> [i \in Time |-> 0]]
    /\ excused = {}
    /\ tangled = FALSE

TypeOK ==
    /\ time \in Time /\ lastRun \in Time
    /\ crontab \in Crontab
    /\ {active, usable, tangled} \subseteq BOOLEAN
    /\ policy \in [Policy -> PolicyRow]
    /\ run \in [Runner -> Run]
    /\ change \in [on : BOOLEAN, todo : SUBSET Policy, to : Crontab \cup {{}},
                   active : BOOLEAN, held : [Policy -> PolicyRow]]
    /\ edits \in 0 .. MaxEdits /\ faults \in 0 .. MaxFaults
    /\ launched \in [Policy -> [Time -> Nat]]
    /\ excused \subseteq Policy \X Time

-----------------------------------------------------------------------------
Tick ==
    /\ time < MaxTime
    /\ time' = time + 1
    /\ UNCHANGED <<crontab, active, usable, policy, lastRun, run, change, edits,
                   faults, history>>

\* An instant that has come and that nobody has launched.
Due(p) == policy[p].next <= time
Excuse(S) == excused' = excused \cup {<<p, policy[p].next>> : p \in {q \in S : Due(q)}}

\* Policy.save() of an object: next_run is recomputed, all fields are written.
SavePolicy(p, r) ==
    policy' = [policy EXCEPT ![p] = [r EXCEPT !.next = NextInstant(crontab, time)]]

-----------------------------------------------------------------------------
(* A run of the periodic scheduler.                                        *)

Step(s, from) == run[s].pc = from
Others == <<time, crontab, active, usable, change, edits>>

\* run_now = now(), last_run is read.  An instant at which a run begins is
\* excluded by this run and by the next.
ReadState(s) ==
    /\ Step(s, "idle")
    /\ run' = [run EXCEPT ![s] = [NoRun EXCEPT !.pc = "read", !.last = lastRun,
                                     !.now = time]]
    /\ excused' = excused \cup {<<p, time>> : p \in {q \in Policy : policy[q].next = time}}
    /\ tangled' = (tangled \/ \E t \in Runner : Step(t, "read"))
    /\ UNCHANGED <<Others, policy, lastRun, launched, faults>>

\* Mutant: the last run is saved when the policies have been launched.
SavedLater(s) == lastRun
SavedFirst(s) == run[s].now
SaveState(s) ==
    /\ Step(s, "read")
    /\ lastRun' = SavedFirst(s)
    /\ run' = [run EXCEPT ![s].pc = "old"]
    /\ UNCHANGED <<Others, policy, faults, history>>

\* Mutant: what is older than this run is left over.
BeforeNow(s, i) == i < run[s].now
\* before(last_run), between(last_run, run_now).
BeforeLast(s, i) == i < run[s].last
Between(s, i) == run[s].last < i /\ i < run[s].now

\* objects.enabled().before(last_run): those left over are only saved again.
QueryOld(s) ==
    /\ Step(s, "old")
    /\ LET old == {p \in Policy : policy[p].enabled /\ BeforeLast(s, policy[p].next)}
       IN  run' = [run EXCEPT ![s].pc = "saveOld", ![s].todo = old,
                      ![s].held = [p \in Policy |-> IF p \in old THEN policy[p]
                                                    ELSE NoRow]]
    /\ UNCHANGED <<Others, policy, lastRun, faults, history>>

\* It may be one that a slower run has not come to yet.
SaveOld(s) ==
    /\ Step(s, "saveOld")
    /\ \E p \in run[s].todo :
          /\ SavePolicy(p, run[s].held[p])
          /\ run' = [run EXCEPT ![s].todo = @ \ {p}]
          /\ IF \E t \in Runner \ {s} : ~Step(t, "idle") /\ policy[p].next > run[t].last
             THEN Excuse({p}) ELSE UNCHANGED excused
    /\ UNCHANGED <<Others, lastRun, faults, launched, tangled>>

\* The policies whose instant has come since the last run.
QueryDue(s) ==
    /\ Step(s, "saveOld") /\ run[s].todo = {}
    /\ LET due == {p \in Policy : policy[p].enabled /\ Between(s, policy[p].next)}
       IN  run' = [run EXCEPT ![s].pc = "due", ![s].todo = due,
                      ![s].held = [p \in Policy |-> IF p \in due THEN policy[p]
                                                    ELSE NoRow]]
    /\ UNCHANGED <<Others, policy, lastRun, faults, history>>

\* The repository or the schedule is disabled: its instant is passed over.
SkipPolicy(s) ==
    /\ Step(s, "due") /\ ~(usable /\ active)
    /\ \E p \in run[s].todo :
          /\ run' = [run EXCEPT ![s].todo = @ \ {p}]
          /\ Excuse({p})
    /\ UNCHANGED <<Others, policy, lastRun, faults, launched, tangled>>

\* The object of the query is saved, with what it says of enabled.
SaveDue(s) ==
    /\ Step(s, "due") /\ usable /\ active
    /\ \E p \in run[s].todo :
          /\ SavePolicy(p, run[s].held[p])
          /\ run' = [run EXCEPT ![s].pc = "create", ![s].todo = @ \ {p},
                        ![s].held = [q \in Policy |-> IF q = p THEN NoRow
                                                      ELSE run[s].held[q]]]
          /\ \/ /\ launched' = [launched EXCEPT ![p][run[s].held[p].next] = @ + 1]
                /\ UNCHANGED <<excused, faults>>
             \/ /\ faults < MaxFaults /\ faults' = faults + 1
                /\ excused' = excused \cup {<<p, run[s].held[p].next>>}
                /\ UNCHANGED launched
    /\ UNCHANGED <<Others, lastRun, tangled>>

\* create_job and signal_start have returned or raised.
NextPolicy(s) ==
    /\ Step(s, "create")
    /\ run' = [run EXCEPT ![s].pc = "due"]
    /\ UNCHANGED <<Others, policy, lastRun, faults, history>>

\* state.save() once more: an earlier run that ends late moves it back.
EndRun(s) ==
    /\ Step(s, "due") /\ run[s].todo = {}
    /\ lastRun' = run[s].now
    /\ tangled' = (tangled \/ run[s].now < lastRun)
    /\ run' = [run EXCEPT ![s] = NoRun]
    /\ UNCHANGED <<Others, policy, faults, launched, excused>>

\* The worker dies: what its interval still held is lost.
Crash(s) ==
    /\ ~Step(s, "idle")
    /\ faults < MaxFaults /\ faults' = faults + 1
    /\ Excuse(Policy)
    /\ run' = [run EXCEPT ![s] = NoRun]
    /\ UNCHANGED <<Others, policy, lastRun, launched, tangled>>

RunStep(s) ==
    \/ ReadState(s) \/ SaveState(s) \/ QueryOld(s) \/ SaveOld(s) \/ QueryDue(s)
    \/ SkipPolicy(s) \/ SaveDue(s) \/ NextPolicy(s) \/ EndRun(s)

-----------------------------------------------------------------------------
(* Users.                                                                  *)

Edit == edits < MaxEdits /\ edits' = edits + 1
Unedited == <<time, lastRun, run, faults, launched, tangled>>

\* A policy is saved by the API: what was due and not launched is not any more.
SaveEdited(p) ==
    /\ Edit
    /\ \E enabled \in BOOLEAN : SavePolicy(p, [policy[p] EXCEPT !.enabled = enabled])
    /\ Excuse({p})
    /\ UNCHANGED <<Unedited, crontab, active, usable, change>>

\* The repository is saved, and nothing else.
Toggle ==
    /\ Edit
    /\ usable' = ~usable
    /\ UNCHANGED <<Unedited, crontab, active, policy, change, excused>>

\* Schedule.save, whatever was edited: its policies are saved before it is, with
\* its old crontab.
BeginChange ==
    /\ Edit /\ ~change.on
    /\ \E c \in Crontab, a \in BOOLEAN :
          change' = [on |-> TRUE, todo |-> Policy, to |-> c, active |-> a,
                     held |-> policy]
    /\ UNCHANGED <<Unedited, crontab, active, usable, policy, excused>>

SaveRelated ==
    /\ \E p \in change.todo :
          /\ SavePolicy(p, change.held[p])
          /\ Excuse({p})
          /\ change' = [change EXCEPT !.todo = @ \ {p}, !.held[p] = NoRow]
    /\ UNCHANGED <<Unedited, crontab, active, usable, edits>>

EndChange ==
    /\ change.on /\ change.todo = {}
    /\ crontab' = change.to /\ active' = change.active
    /\ change' = NoChange
    /\ UNCHANGED <<Unedited, usable, policy, edits, excused>>

UserStep == (\E p \in Policy : SaveEdited(p)) \/ Toggle \/ BeginChange
ChangeStep == SaveRelated \/ EndChange

Next ==
    \/ Tick \/ UserStep \/ ChangeStep
    \/ \E s \in Runner : RunStep(s) \/ Crash(s)

Spec == Init /\ [][Next]_vars

\* The clock goes on and beat sends the task again and again.
Fairness ==
    /\ WF_vars(Tick)
    /\ \A s \in Runner : WF_vars(RunStep(s))
FairSpec == Spec /\ Fairness
-----------------------------------------------------------------------------
\* However long runs last and overlap, whatever users edit meanwhile: an instant of
\* a policy is launched once.  Only runs that read the same last_run, or whose
\* ends are out of order, launch it twice.
LaunchedOnce ==
    ~tangled => \A p \in Policy, i \in Time : launched[p][i] <= 1

\* An instant that has come is launched in the end, unless the policy was saved
\* or disabled (a schedule that is saved saves its policies), the schedule or the
\* repository was disabled, a run crashed or overlapped another one, or a run began
\* at that very instant.
DueIsLaunched ==
    \A p \in Policy, i \in 1 .. MaxTime - 1 :
        policy[p].next = i /\ i <= time
            ~> launched[p][i] > 0 \/ <<p, i>> \in excused \/ ~policy[p].enabled
=============================================================================
