--------------------------- MODULE EventPipeline ---------------------------
(***************************************************************************)
(* How the events of one job travel from the process that runs it to table *)
(* main_jobevent: the dispatcher (main/utils/callbacks.py), the broker,    *)
(* the callback receiver and its worker processes                          *)
(* (management/commands/run_callback_receiver.py), JobEvent                *)
(* (main/models/events.py).  An event is its counter; 0 is the EOF event.  *)
(***************************************************************************)
EXTENDS Naturals, FiniteSets, Sequences

CONSTANTS
    Worker,     \* worker processes of the receiver, numbered from 0
    Capacity,   \* bound of a worker's queue (10000 in the code)
    MaxRetries, \* CallbackBrokerWorker.MAX_RETRIES
    MaxEvents,  \* bound on the events of a job
    MaxFaults   \* bound on the failures of a behaviour

ASSUME PipelineAssumption ==
    /\ Worker = 0 .. Cardinality(Worker) - 1 /\ IsFiniteSet(Worker)
    /\ 0 \in Worker
    /\ Capacity \in Nat \ {0}
    /\ MaxRetries \in Nat /\ MaxEvents \in Nat /\ MaxFaults \in Nat

VARIABLES
    broker,  \* queue callback_tasks, oldest first
    unacked, \* the message the receiver has and whether a queue has it too
    turn,    \* total_messages modulo the number of workers
    queue,   \* the multiprocessing queue of each worker
    hand,    \* the event each worker is saving, and its failed attempts
    up,      \* the receiver runs
    saved,   \* how many rows of main_jobevent each event has
    faults   \* failures so far
pipeline == <<broker, unacked, turn, queue, hand, up, saved, faults>>

EOF == 0
Event == 1 .. MaxEvents
Message == Event \cup {EOF}
NoMessage == [held |-> FALSE, msg |-> EOF, put |-> FALSE]
Idle == [busy |-> FALSE, msg |-> EOF, tries |-> 0]
Workers == Cardinality(Worker)

PipelineInit ==
    /\ broker = <<>>
    /\ unacked = NoMessage
    /\ turn = 0
    /\ queue = [w \in Worker |-> <<>>]
    /\ hand = [w \in Worker |-> Idle]
    /\ up = TRUE
    /\ saved = [e \in Event |-> 0]
    /\ faults = 0

PipelineTypeOK ==
    /\ broker \in Seq(Message)
    /\ unacked \in [held : BOOLEAN, msg : Message, put : BOOLEAN]
    /\ turn \in Worker
    /\ queue \in [Worker -> Seq(Message)]
    /\ hand \in [Worker -> [busy : BOOLEAN, msg : Message, tries : 0 .. MaxRetries]]
    /\ up \in BOOLEAN
    /\ saved \in [Event -> Nat]
    /\ faults \in 0 .. MaxFaults

Fault == faults < MaxFaults /\ faults' = faults + 1
-----------------------------------------------------------------------------
(* The dispatcher.                                                         *)

\* dispatch: up to four attempts.  A broker that stays out of reach loses the
\* event without a word; one that fails after it took the message has it twice.
Dispatch(e) ==
    /\ \/ broker' = Append(broker, e) /\ UNCHANGED faults
       \/ broker' = broker /\ Fault
       \/ broker' = broker \o <<e, e>> /\ Fault
    /\ UNCHANGED <<unacked, turn, queue, hand, up, saved>>

-----------------------------------------------------------------------------
(* The receiver.                                                           *)

\* The consumer takes one message at a time: process_task begins.
Receive ==
    /\ up /\ ~unacked.held
    /\ broker # <<>>
    /\ unacked' = [held |-> TRUE, msg |-> Head(broker), put |-> FALSE]
    /\ broker' = Tail(broker)
    /\ UNCHANGED <<turn, queue, hand, up, saved, faults>>

\* Mutant: the last place of a queue is not used.
HasRoomToSpare(w) == Len(queue[w]) + 1 < Capacity
HasRoom(w) == Len(queue[w]) < Capacity

\* The events carry no uuid, so that the preferred queue goes round; when it
\* stays full for five seconds the others are tried in their order.
Writable(w) ==
    /\ HasRoom(w)
    /\ w = turn \/ (~HasRoom(turn) /\ \A v \in Worker : v < w => ~HasRoom(v))

NextTurn == (turn + 1) % Workers

\* write_queue_worker.
WriteQueueWorker ==
    /\ up /\ unacked.held /\ ~unacked.put
    /\ \E w \in Worker :
          /\ Writable(w)
          /\ queue' = [queue EXCEPT ![w] = Append(@, unacked.msg)]
    /\ unacked' = [unacked EXCEPT !.put = TRUE]
    /\ turn' = NextTurn
    /\ UNCHANGED <<broker, hand, up, saved, faults>>

\* Every queue was full when its turn came: the message is given up, and
\* acknowledged all the same.
GiveUpMessage ==
    /\ up /\ unacked.held /\ ~unacked.put
    /\ \A w \in Worker : ~HasRoom(w)
    /\ Fault
    /\ unacked' = [unacked EXCEPT !.put = TRUE]
    /\ turn' = NextTurn
    /\ UNCHANGED <<broker, queue, hand, up, saved>>

Ack ==
    /\ up /\ unacked.put
    /\ unacked' = NoMessage
    /\ UNCHANGED <<broker, turn, queue, hand, up, saved, faults>>

-----------------------------------------------------------------------------
(* A worker process.                                                       *)

\* The EOF event is not saved: a summary goes to the web interface.
GetEvent(w) ==
    /\ up /\ ~hand[w].busy
    /\ queue[w] # <<>>
    /\ queue' = [queue EXCEPT ![w] = Tail(@)]
    /\ hand' = IF Head(queue[w]) = EOF THEN hand
               ELSE [hand EXCEPT ![w] = [busy |-> TRUE, msg |-> Head(queue[w]),
                                         tries |-> 0]]
    /\ UNCHANGED <<broker, unacked, turn, up, saved, faults>>

Insert(w) == saved' = [saved EXCEPT ![hand[w].msg] = @ + 1]

SaveEvent(w) ==
    /\ hand[w].busy
    /\ Insert(w)
    /\ hand' = [hand EXCEPT ![w] = Idle]
    /\ UNCHANGED <<broker, unacked, turn, queue, up, faults>>

\* OperationalError: the row may have been committed before the connection was
\* lost.  The same event is tried again.
RetrySave(w) ==
    /\ hand[w].busy /\ hand[w].tries < MaxRetries
    /\ Fault
    /\ Insert(w) \/ UNCHANGED saved
    /\ hand' = [hand EXCEPT ![w].tries = @ + 1]
    /\ UNCHANGED <<broker, unacked, turn, queue, up>>

\* Another DatabaseError, or a value that cannot be stored: the event is lost.
DropEvent(w) ==
    /\ hand[w].busy
    /\ Fault
    /\ hand' = [hand EXCEPT ![w] = Idle]
    /\ UNCHANGED <<broker, unacked, turn, queue, up, saved>>

\* The receiver is gone, with the queues in its memory; what it had not
\* acknowledged is delivered again.
Stop ==
    /\ up' = FALSE
    /\ queue' = [w \in Worker |-> <<>>]
    /\ broker' = IF unacked.held THEN <<unacked.msg>> \o broker ELSE broker
    /\ unacked' = NoMessage
    /\ UNCHANGED <<turn, saved>>

\* The last retry failed: the worker interrupts its parent, which ends the
\* others once they have saved what they hold.
ShutDown(w) ==
    /\ up
    /\ hand[w].busy /\ hand[w].tries = MaxRetries
    /\ Fault
    /\ Stop
    /\ hand' = [hand EXCEPT ![w] = Idle]

ReceiverCrash ==
    /\ up
    /\ Fault
    /\ Stop
    /\ hand' = [w \in Worker |-> Idle]

\* An administrator starts it again: the unit file says nothing of restarts.
StartReceiver ==
    /\ ~up
    /\ \A w \in Worker : ~hand[w].busy
    /\ up' = TRUE
    /\ turn' = 0
    /\ UNCHANGED <<broker, unacked, queue, hand, saved, faults>>

ReceiverStep == Receive \/ WriteQueueWorker \/ Ack
ReceiverFault == GiveUpMessage \/ ReceiverCrash \/ StartReceiver
WorkerStep(w) == GetEvent(w) \/ SaveEvent(w)
WorkerFault(w) == RetrySave(w) \/ DropEvent(w) \/ ShutDown(w)

PipelineNext ==
    \/ ReceiverStep \/ ReceiverFault
    \/ \E w \in Worker : WorkerStep(w) \/ WorkerFault(w)

PipelineFairness ==
    /\ WF_pipeline(ReceiverStep)
    /\ \A w \in Worker : WF_pipeline(WorkerStep(w))
-----------------------------------------------------------------------------
\* Copies of a message that are still on their way to the table.
Occurs(e, q) == \E i \in DOMAIN q : q[i] = e
InFlight(e) ==
    \/ Occurs(e, broker)
    \/ unacked.held /\ unacked.msg = e
    \/ \E w \in Worker : Occurs(e, queue[w]) \/ (hand[w].busy /\ hand[w].msg = e)
\* get_event_queryset().count(): the rows of the table.
EventRows == UNION {{e} \X (1 .. saved[e]) : e \in Event}
RowCount == Cardinality(EventRows)
=============================================================================
