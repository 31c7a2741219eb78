----------------------------- MODULE JobOutput -----------------------------
(***************************************************************************)
(* The output of one job, from the command that writes it to what a reader *)
(* of the job sees: run_pexpect (main/expect/run.py) with its polling of   *)
(* the cancel flag, BaseTask.run after the command was built               *)
(* (main/tasks/basetask.py), OutputEventFilter (main/utils/common.py),     *)
(* then EventPipeline, and the tally and the stdout a request reads        *)
(* (main/models/jobs.py).                                                  *)
(*                                                                         *)
(* The output is a sequence of units; those in LineEnds end a line.  A unit*)
(* has some text, behind which a line end stands, or is a line end alone.  *)
(* A read takes any number of the units written, so that it may end inside *)
(* a line.                                                                 *)
(***************************************************************************)
EXTENDS EventPipeline, Functions

CONSTANTS
    Units,      \* bound: how much the command writes
    LineEnds,   \* the units that end a line
    JobTimeout  \* whether a job timeout is configured

ASSUME OutputAssumption ==
    /\ Units \in Nat /\ Units <= MaxEvents
    /\ LineEnds \subseteq 1 .. Units
    /\ JobTimeout \in BOOLEAN

VARIABLES
    child,   \* the spawned command: what it wrote, whether and how it ended
    pc,      \* where BaseTask.run is
    read,    \* how many units were read
    line,    \* OutputEventFilter._start_line
    emitted, \* the events emitted, by counter
    sent,    \* how many of them were dispatched
    verdict, \* canceled, timed_out, errored of run_pexpect
    result,  \* the status it returned
    row      \* the job's row: status, cancel flag, emitted_events
worker == <<child, pc, read, line, emitted, sent, verdict, result, row>>
vars == <<pipeline, worker>>

Over == {"successful", "failed", "error", "canceled"}
\* The units of a piece, and the last one whose text the event carries.
Emission == [start : Nat, first : 1 .. Units, last : 1 .. Units, kept : 0 .. Units]

Init ==
    /\ PipelineInit
    /\ child = [wrote |-> 0, state |-> "alive", term |-> FALSE]
    /\ pc = "test"
    /\ read = 0
    /\ line = 0
    /\ emitted = <<>>
    /\ sent = 0
    /\ verdict = [canceled |-> FALSE, timedOut |-> FALSE, errored |-> FALSE]
    /\ result = "error"
    /\ row = [status |-> "running", cancel |-> FALSE, emitted |-> 0]

JobTypeOK ==
    /\ child \in [wrote : 0 .. Units, state : {"alive", "zero", "nonzero"},
                  term : BOOLEAN]
    /\ pc \in {"test", "expect", "poll", "close", "read", "save", "done", "raised"}
    /\ read \in 0 .. Units
    /\ line \in 0 .. Units
    /\ emitted \in Seq(Emission) /\ Len(emitted) <= Units
    /\ sent \in 0 .. Len(emitted)
    /\ verdict \in [canceled : BOOLEAN, timedOut : BOOLEAN, errored : BOOLEAN]
    /\ result \in Over
    /\ row \in [status : Over \cup {"running"}, cancel : BOOLEAN,
                emitted : 0 .. Units]
TypeOK == PipelineTypeOK /\ JobTypeOK

-----------------------------------------------------------------------------
(* The command.                                                            *)

ChildWrites ==
    /\ child.state = "alive" /\ child.wrote < Units
    /\ child' = [child EXCEPT !.wrote = @ + 1]
    /\ UNCHANGED <<pc, read, line, emitted, sent, verdict, result, row, pipeline>>

\* It ends by itself, or because it was sent SIGTERM: a command may then still
\* return 0.
ChildEnds ==
    /\ child.state = "alive"
    /\ \E code \in {"zero", "nonzero"} : child' = [child EXCEPT !.state = code]
    /\ UNCHANGED <<pc, read, line, emitted, sent, verdict, result, row, pipeline>>

-----------------------------------------------------------------------------
(* The filter.                                                             *)

\* splitlines(True) of the units first..last: the units that end a piece.
PieceEnds(first, last) == {u \in first .. last : u \in LineEnds \/ u = last}

Newlines(first, last) == Cardinality(LineEnds \cap (first .. last))

PieceEnd(first, last, i) ==
    CHOOSE u \in PieceEnds(first, last) :
        Cardinality(PieceEnds(first, last) \cap (first .. u)) = i
PieceStart(first, last, i) == IF i = 1 THEN first ELSE PieceEnd(first, last, i - 1) + 1

\* stdout_chunk[:-2]: the two characters are the line end of a piece that has one,
\* and text where the read ended inside the line.
Kept(u) == IF u \in LineEnds \/ u = 0 THEN u ELSE u - 1

\* Mutant: the events of one read all start where the read does.
PiecesOfOneLine(first, last) ==
    [i \in 1 .. Cardinality(PieceEnds(first, last)) |->
        [start |-> line, first |-> PieceStart(first, last, i),
         last |-> PieceEnd(first, last, i), kept |-> Kept(PieceEnd(first, last, i))]]
\* The events of one read, each with the line it starts at.
Pieces(first, last) ==
    [i \in 1 .. Cardinality(PieceEnds(first, last)) |->
        [start |-> line + Newlines(first, PieceStart(first, last, i) - 1),
         first |-> PieceStart(first, last, i), last |-> PieceEnd(first, last, i),
         kept |-> Kept(PieceEnd(first, last, i))]]

\* The pattern searched is not there yet: what arrives is logged, piece by
\* piece, while expect() goes on.
ReadOutput ==
    /\ pc = "expect" /\ sent = Len(emitted)
    /\ \E upto \in read + 1 .. child.wrote :
          /\ read' = upto
          /\ emitted' = emitted \o Pieces(read + 1, upto)
          /\ line' = line + Newlines(read + 1, upto)
    /\ UNCHANGED <<child, pc, sent, verdict, result, row, pipeline>>

DispatchEvent ==
    /\ sent < Len(emitted)
    /\ Dispatch(sent + 1)
    /\ sent' = sent + 1
    /\ UNCHANGED <<child, pc, read, line, emitted, verdict, result, row>>

-----------------------------------------------------------------------------
(* run_pexpect.                                                            *)

\* while child.isalive(): what the command wrote just before it ended may never
\* be read.
TestAlive ==
    /\ pc = "test"
    /\ pc' = IF child.state = "alive" THEN "expect" ELSE "close"
    /\ UNCHANGED <<child, read, line, emitted, sent, verdict, result, row, pipeline>>

\* expect() gives up after its timeout, or sees the end, or a prompt.
ExpectReturns ==
    /\ pc = "expect" /\ sent = Len(emitted)
    /\ pc' = "poll"
    /\ UNCHANGED <<child, read, line, emitted, sent, verdict, result, row, pipeline>>

\* Mutant: a timeout does not terminate the command again.
TerminatesOnce(v) == (v.canceled \/ v.timedOut \/ v.errored) /\ child.term
Terminates(v) == v.canceled \/ v.timedOut \/ v.errored

\* The rest of a round.  The cancel flag is read; when the database stays out of
\* reach the job ends in error; with a reason to end it, handle_termination.
Poll ==
    /\ pc = "poll"
    /\ \E reached \in BOOLEAN, late \in {FALSE, JobTimeout} :
          LET canceled == IF reached THEN row.cancel ELSE verdict.canceled
          IN  /\ IF reached THEN UNCHANGED faults ELSE Fault
              /\ verdict' = [canceled |-> canceled,
                              timedOut |-> verdict.timedOut \/ (late /\ ~canceled),
                              errored |-> verdict.errored \/ ~reached]
    /\ child' = [child EXCEPT !.term =
                    @ \/ (Terminates(verdict') /\ child.state = "alive")]
    /\ pc' = "test"
    /\ UNCHANGED <<read, line, emitted, sent, result, row, broker, unacked,
                   turn, queue, hand, up, saved>>

\* Mutant: a command that returns 0 after a timeout is successful.
StatusOfExit == IF verdict.errored THEN "error"
                ELSE IF verdict.canceled THEN "canceled"
                ELSE IF child.state = "zero" THEN "successful" ELSE "failed"
StatusReturned == IF verdict.errored THEN "error"
                  ELSE IF verdict.canceled THEN "canceled"
                  ELSE IF child.state = "zero" /\ ~verdict.timedOut
                       THEN "successful" ELSE "failed"

-----------------------------------------------------------------------------
(* The end of BaseTask.run.                                                *)

\* run_pexpect returns; the filter is closed: the EOF event is dispatched.
CloseStdout ==
    /\ pc = "close" /\ sent = Len(emitted)
    /\ result' = StatusReturned
    /\ Dispatch(EOF)
    /\ pc' = "read"
    /\ UNCHANGED <<child, read, line, emitted, sent, verdict, row>>

\* update_model gave up and returned None: the next attribute access raises.
UpdateGivesUp ==
    /\ pc \in {"read", "save"}
    /\ Fault
    /\ pc' = "raised"
    /\ UNCHANGED <<child, read, line, emitted, sent, verdict, result, row, broker,
                   unacked, turn, queue, hand, up, saved>>

\* The flag is read once more, after the command has ended.
ReadCancelFlag ==
    /\ pc = "read"
    /\ result' = IF row.cancel THEN "canceled" ELSE result
    /\ pc' = "save"
    /\ UNCHANGED <<child, read, line, emitted, sent, verdict, row, pipeline>>

\* Mutant: an event is counted when the next one comes.
EventCountBehind == IF emitted = <<>> THEN 0 ELSE Len(emitted) - 1
\* _event_ct: what was handed to the callback, dispatched or not.
EventCount == Len(emitted)

SaveResult ==
    /\ pc = "save"
    /\ row' = [row EXCEPT !.status = result, !.emitted = EventCount]
    /\ pc' = "done"
    /\ UNCHANGED <<child, read, line, emitted, sent, verdict, result, pipeline>>

\* The error callback of a task that raised, which one whose result is not
\* successful does in the end, fails the job unless it is canceled.
HandleWorkError ==
    /\ \/ pc = "raised" /\ row.status = "running"
       \/ pc = "done" /\ row.status = "error"
    /\ ~row.cancel
    /\ row' = [row EXCEPT !.status = "failed"]
    /\ UNCHANGED <<child, pc, read, line, emitted, sent, verdict, result, pipeline>>

\* A user cancels the running job: only the flag is set.
Cancel ==
    /\ row.status = "running" /\ ~row.cancel
    /\ row' = [row EXCEPT !.cancel = TRUE]
    /\ UNCHANGED <<child, pc, read, line, emitted, sent, verdict, result, pipeline>>

RunStep ==
    \/ TestAlive \/ ReadOutput \/ ExpectReturns \/ Poll \/ DispatchEvent
    \/ CloseStdout \/ ReadCancelFlag \/ SaveResult \/ HandleWorkError

Next ==
    \/ ChildWrites \/ ChildEnds \/ RunStep \/ UpdateGivesUp \/ Cancel
    \/ PipelineNext /\ UNCHANGED worker

Spec == Init /\ [][Next]_vars

\* The worker and the receiver keep going; the command ends once it was sent
\* SIGTERM.  Users, failures and restarts owe nothing.
Fairness ==
    /\ WF_vars(RunStep)
    /\ WF_vars(child.term /\ ChildEnds)
    /\ WF_vars(ReceiverStep /\ UNCHANGED worker)
    /\ \A w \in Worker : WF_vars(WorkerStep(w) /\ UNCHANGED worker)
FairSpec == Spec /\ Fairness
-----------------------------------------------------------------------------
(* What readers of the job rely on.                                        *)

\* event_processing_finished.
EventProcessingFinished == row.status \in Over /\ row.emitted = RowCount

Duplicated == \E e \in Event : saved[e] > 1
Lost == \E e \in 1 .. sent : saved[e] = 0 /\ ~InFlight(e)

\* result_stdout_raw_handle: the rows in the order of start_line; rows of one
\* line come in any order.
SavedEvents == {e \in Event : saved[e] > 0}
LineOrder(q) == \A i, j \in DOMAIN q :
                    i < j => emitted[q[i]].start <= emitted[q[j]].start
Stdout == {q \in Bijection(1 .. Cardinality(SavedEvents), SavedEvents) : LineOrder(q)}
\* The text of n such rows is that of the first units written: each row goes on
\* where the text of the one before it ended.
Whole(q, n, units) ==
    /\ \A i \in 1 .. n : emitted[q[i]].first =
                            IF i = 1 THEN 1 ELSE emitted[q[i - 1]].kept + 1
    /\ units = IF n = 0 THEN 0 ELSE emitted[q[n]].kept

\* A job whose events are all in, as event_processing_finished tells it to who
\* deletes or reports it, has every event it emitted, dispatched or not: the tally
\* counts them before they are lost.  (One event lost and another saved twice
\* make up for each other, and a job whose tally was never saved counts none.)
FinishedMeansAllSaved ==
    EventProcessingFinished /\ pc = "done" /\ ~Duplicated
        => SavedEvents = 1 .. Len(emitted)

\* Where no read but the last ended inside a line, the rows in the order of
\* start_line are the output that was read, whichever worker saved which event
\* first; of a line that has not ended the last unit is cut.  (A read that ended
\* inside a line before leaves a gap there, and two rows of one line.)
LinesRead == \A e \in DOMAIN emitted :
                emitted[e].last \in LineEnds \/ e = Len(emitted)
StdoutKeepsLines ==
    EventProcessingFinished /\ pc = "done" /\ ~Duplicated /\ LinesRead
        => \A q \in Stdout : Whole(q, Cardinality(SavedEvents), Kept(read))

\* A command that was terminated, for a cancel, a timeout or an error, is never
\* reported successful, whatever it returned.
KilledIsNotSuccessful == child.term => row.status # "successful"

\* A job canceled while it runs comes to an end, even if its command does not end
\* by itself.
CanceledIsStopped == row.cancel ~> pc \in {"done", "raised"}

\* When a job is over its events come in until all are saved, unless some were
\* lost or saved twice, or the receiver is gone.
EventsSettle ==
    pc = "done" ~> EventProcessingFinished \/ Lost \/ Duplicated \/ ~up
=============================================================================
