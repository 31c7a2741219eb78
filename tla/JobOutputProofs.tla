--------------------------- MODULE JobOutputProofs ---------------------------
(***************************************************************************)
(* What TLAPS proves of JobOutput and EventPipeline, for any output of the *)
(* command, any number of workers of the receiver, of retries and faults,  *)
(* and any capacity of their queues.                                       *)
(***************************************************************************)
EXTENDS JobOutput, TLAPS, FiniteSetTheorems

-----------------------------------------------------------------------------
(* The pieces of a read.                                                   *)

\* The events of a read are a sequence, with one event for every line end in it
\* and one for what is left: no more than the units read.
LEMMA PiecesAreFew ==
    ASSUME NEW first \in Nat, NEW last \in Nat, first <= last
    PROVE  /\ \E S : Pieces(first, last) \in Seq(S)
           /\ Len(Pieces(first, last)) \in 0 .. last - first + 1
<1> DEFINE E == PieceEnds(first, last)
           n == Cardinality(E)
<1>1. IsFiniteSet(E) /\ n \in 0 .. last - first + 1
  <2>1. E \in SUBSET (first .. last)
    BY DEF PieceEnds
  <2>2. IsFiniteSet(first .. last) /\ Cardinality(first .. last) = last - first + 1
    BY FS_Interval
  <2> QED
    BY <2>1, <2>2, FS_Subset, FS_CardinalityType
<1>2. PICK P : P = Pieces(first, last)
  OBVIOUS
<1>3. P = [i \in 1 .. n |-> P[i]]
  BY <1>2 DEF Pieces
<1>4. n \in Nat
  BY <1>1
<1>5. PICK S : S = {P[i] : i \in 1 .. n}
  OBVIOUS
<1>6. P \in [1 .. n -> S]
  BY <1>3, <1>5
<1>7. P \in Seq(S) /\ Len(P) = n
  <2> HIDE DEF n
  <2> QED
    BY <1>4, <1>6
<1> QED
  BY <1>1, <1>2, <1>7

\* Some numbers have a least one.
LEMMA LeastNumber ==
    ASSUME NEW T \in SUBSET Nat, T # {}
    PROVE  \E m \in T : \A u \in T : m <= u
<1>1. \E m \in T : \A u \in T : ~(<<u, m>> \in OpToRel(<, Nat))
  BY NatLessThanWellFounded, WFMin
<1>2. PICK m \in T : \A u \in T : ~(<<u, m>> \in OpToRel(<, Nat))
  BY <1>1
<1>3. \A u \in T : ~(u < m)
  BY <1>2 DEF OpToRel
<1> QED
  BY <1>3

Lies(S, first, last) == S \in SUBSET (first .. last)
\* The members of a set up to one of them.
Rank(S, first, u) == Cardinality(S \cap (first .. u))

\* Counted from below, every number up to the size of a set is reached at one of
\* its members.
LEMMA Ranked ==
    ASSUME NEW first \in Nat, NEW last \in Nat, NEW S, Lies(S, first, last),
           NEW n \in Nat, n = Cardinality(S), NEW i \in 1 .. n
    PROVE  \E u \in S : Rank(S, first, u) = i
<1> DEFINE c(u) == Cardinality(S \cap (first .. u))
           T == {u \in Nat : i <= c(u)}
<1>0. S \in SUBSET (first .. last)
  BY DEF Lies
<1>1. IsFiniteSet(S) /\ Cardinality(S) \in Nat
  <2>1. IsFiniteSet(first .. last)
    BY FS_Interval
  <2>2. IsFiniteSet(S)
    BY <1>0, <2>1, FS_Subset
  <2> QED
    BY <2>2, FS_CardinalityType
<1>2. \A u : IsFiniteSet(S \cap (first .. u)) /\ c(u) \in Nat
  BY <1>1, FS_Intersection, FS_CardinalityType
<1>3. last \in T
  <2>1. S \cap (first .. last) = S
    BY <1>0
  <2> QED
    BY <1>1, <2>1
<1>4. PICK m \in T : \A u \in T : m <= u
  <2> HIDE DEF c
  <2> QED
    BY <1>3, LeastNumber
<1>5. m \in Nat /\ i <= c(m)
  BY <1>4
<1>n. c(m) \in Nat /\ c(m - 1) \in Nat /\ i \in Nat
  BY <1>1, <1>2
<1>6. c(m - 1) < i
  <2>1. CASE m = 0
    <3>1. S \cap (first .. m - 1) = {}
      BY <2>1
    <3> QED
      BY <1>1, <3>1, FS_EmptySet
  <2>2. CASE m # 0
    <3>1. m - 1 \in Nat /\ m - 1 \notin T
      BY <1>4, <1>5, <2>2
    <3> HIDE DEF c
    <3>2. c(m - 1) \in Nat
      BY <1>2
    <3> QED
      BY <1>1, <3>1, <3>2
  <2> QED
    BY <2>1, <2>2
<1>7. m \in S
  <2> SUFFICES ASSUME m \notin S PROVE FALSE
    OBVIOUS
  <2>1. S \cap (first .. m) = S \cap (first .. m - 1)
    BY <1>5
  <2>2. c(m) = c(m - 1)
    BY <2>1
  <2> HIDE DEF c
  <2> QED
    BY <1>n, <1>5, <1>6, <2>2
<1>8. c(m) = c(m - 1) + 1
  <2>1. S \cap (first .. m) = (S \cap (first .. m - 1)) \cup {m}
    <3>1. S \subseteq first .. last /\ m \in first .. last
      BY <1>0, <1>7
    <3> QED
      BY <1>5, <1>7, <3>1
  <2>2. m \notin S \cap (first .. m - 1)
    BY <1>5
  <2> QED
    BY <1>2, <2>1, <2>2, FS_AddElement
<1> HIDE DEF c
<1>9. c(m) = i
  BY <1>n, <1>5, <1>6, <1>8
<1> QED
  BY <1>7, <1>9 DEF c, Rank

\* The pieces of a read lie one behind the other, from its first unit to its last.
LEMMA PieceEndsInOrder ==
    ASSUME NEW first \in Nat, NEW last \in Nat, first <= last,
           NEW n \in Nat, n = Cardinality(PieceEnds(first, last))
    PROVE  /\ n > 0
           /\ \A i \in 1 .. n : PieceEnd(first, last, i) \in first .. last
           /\ \A i, j \in 1 .. n :
                 i < j => PieceEnd(first, last, i) < PieceEnd(first, last, j)
           /\ PieceEnd(first, last, n) = last
<1> DEFINE E == PieceEnds(first, last)
           p(i) == PieceEnd(first, last, i)
<1>1. E \in SUBSET (first .. last) /\ last \in E
  BY DEF PieceEnds
<1>2. IsFiniteSet(E)
  <2>1. IsFiniteSet(first .. last)
    BY FS_Interval
  <2> QED
    BY <1>1, <2>1, FS_Subset
<1>3. n > 0
  BY <1>1, <1>2, FS_EmptySet
<1>4. ASSUME NEW i \in 1 .. n
      PROVE  p(i) \in E /\ Cardinality(E \cap (first .. p(i))) = i
  <2>1. \E u \in E : Cardinality(E \cap (first .. u)) = i
    <3>1. PICK S : S = E
      OBVIOUS
    <3>2. Lies(S, first, last) /\ n = Cardinality(S)
      BY <1>1, <3>1 DEF Lies
    <3>3. \E u \in S : Rank(S, first, u) = i
      BY <3>2, Ranked
    <3> QED
      BY <3>1, <3>3 DEF Rank
  <2> QED
    BY <2>1 DEF PieceEnd
<1>5. \A i \in 1 .. n : p(i) \in first .. last
  BY <1>1, <1>4
<1>6. ASSUME NEW i \in 1 .. n, NEW j \in 1 .. n, i < j
      PROVE  p(i) < p(j)
  <2> SUFFICES ASSUME p(j) <= p(i) PROVE FALSE
    BY <1>5
  <2>1. E \cap (first .. p(j)) \subseteq E \cap (first .. p(i))
    BY <1>5
  <2>2. IsFiniteSet(E \cap (first .. p(i)))
    BY <1>2, FS_Intersection
  <2>3. Cardinality(E \cap (first .. p(j))) <= Cardinality(E \cap (first .. p(i)))
    BY <2>1, <2>2, FS_Subset
  <2>4. j <= i
    BY <1>4, <2>3
  <2> QED
    BY <1>6, <2>4
<1>7. p(n) = last
  <2>1. n \in 1 .. n
    BY <1>3
  <2>2. E \cap (first .. p(n)) = E
    BY <1>2, <1>4, <2>1, FS_Subset
  <2>3. last \in first .. p(n)
    BY <1>1, <2>2
  <2> QED
    BY <1>5, <2>1, <2>3
<1> QED
  BY <1>3, <1>5, <1>6, <1>7

IsSeq(q) == \E S : q \in Seq(S)

\* P is the n events that units first to last are cut into.
Cut(P, n, first, last) ==
    /\ n > 0 /\ Len(P) = n /\ IsSeq(P)
    /\ P[1].first = first /\ P[n].last = last
    /\ \A i \in 1 .. n : /\ P[i].first \in first .. last
                         /\ P[i].last \in P[i].first .. last
                         /\ P[i].kept = Kept(P[i].last)
                         /\ P[i].start = line + Newlines(first, P[i].first - 1)
    /\ \A i \in 2 .. n : P[i].first = P[i - 1].last + 1
    /\ \A i, j \in 1 .. n : i < j => P[i].last < P[j].first

\* The events of a read: each goes on where the one before it ends, and starts in
\* the line that the line ends before it say.
LEMMA PiecesInOrder ==
    ASSUME NEW first \in Nat, NEW last \in Nat, first <= last,
           NEW n \in Nat, n = Cardinality(PieceEnds(first, last)),
           NEW P, P = Pieces(first, last)
    PROVE  Cut(P, n, first, last)
<1> DEFINE p(i) == PieceEnd(first, last, i)
<1>1. /\ n > 0 /\ p(n) = last
      /\ \A i \in 1 .. n : p(i) \in first .. last
      /\ \A i, j \in 1 .. n : i < j => p(i) < p(j)
  BY PieceEndsInOrder
<1>2. /\ P = [i \in 1 .. n |-> P[i]]
      /\ \A i \in 1 .. n :
            /\ P[i].first = IF i = 1 THEN first ELSE p(i - 1) + 1
            /\ P[i].last = p(i)
            /\ P[i].kept = Kept(P[i].last)
            /\ P[i].start = line + Newlines(first, P[i].first - 1)
  BY DEF Pieces, PieceStart
<1> HIDE DEF p
<1>l. Len(P) = n /\ IsSeq(P)
  <2>1. PICK S : S = {P[i] : i \in 1 .. n}
    OBVIOUS
  <2>2. P \in [1 .. n -> S]
    BY <1>2, <2>1
  <2>3. P \in Seq(S) /\ Len(P) = n
    BY <2>2
  <2> QED
    BY <2>3 DEF IsSeq
<1>3. ASSUME NEW i \in 1 .. n
      PROVE  P[i].first \in first .. last /\ P[i].last \in P[i].first .. last
  <2>1. p(i) \in first .. last
    BY <1>1
  <2>2. CASE i = 1
    BY <1>2, <2>1, <2>2
  <2>3. CASE i # 1
    <3>1. i - 1 \in 1 .. n /\ i - 1 < i
      BY <2>3
    <3>2. p(i - 1) \in first .. last /\ p(i - 1) < p(i)
      BY <1>1, <3>1
    <3> QED
      BY <1>2, <2>1, <2>3, <3>2
  <2> QED
    BY <2>2, <2>3
<1>4. \A i \in 2 .. n : P[i].first = P[i - 1].last + 1
  BY <1>2
<1>5. ASSUME NEW i \in 1 .. n, NEW j \in 1 .. n, i < j
      PROVE  P[i].last < P[j].first
  <2>1. j - 1 \in 1 .. n /\ i <= j - 1 /\ j # 1
    BY <1>5
  <2>2. p(i) <= p(j - 1) /\ p(i) \in Int /\ p(j - 1) \in Int
    BY <1>1, <2>1
  <2> QED
    BY <1>2, <2>1, <2>2
<1> QED
  BY <1>1, <1>2, <1>3, <1>4, <1>5, <1>l DEF Cut

\* The lines up to one unit and those after it.
LEMMA NewlinesAdd ==
    ASSUME NEW b \in Nat, NEW c \in Nat, b <= c
    PROVE  /\ Newlines(1, b) \in Nat /\ Newlines(b + 1, c) \in Nat
           /\ Newlines(1, c) = Newlines(1, b) + Newlines(b + 1, c)
<1> DEFINE A == LineEnds \cap (1 .. b)
           B == LineEnds \cap ((b + 1) .. c)
<1>1. IsFiniteSet(LineEnds)
  <2>1. IsFiniteSet(1 .. Units)
    BY FS_Interval, OutputAssumption
  <2> QED
    BY <2>1, FS_Subset, OutputAssumption
<1>2. IsFiniteSet(A) /\ IsFiniteSet(B)
  BY <1>1, FS_Intersection
<1>3. A \cup B = LineEnds \cap (1 .. c) /\ A \cap B = {}
  OBVIOUS
<1>4. Cardinality(A) \in Nat /\ Cardinality(B) \in Nat
  BY <1>2, FS_CardinalityType
<1>5. Cardinality(A \cup B) = Cardinality(A) + Cardinality(B) - Cardinality(A \cap B)
  BY <1>2, FS_Union
<1>6. Cardinality(A \cap B) = 0
  BY <1>3, FS_EmptySet
<1>7. Cardinality(A \cup B) = Cardinality(A) + Cardinality(B)
  BY <1>4, <1>5, <1>6
<1> QED
  BY <1>3, <1>4, <1>7 DEF Newlines

\* A line end in between makes more lines.
LEMMA NewlinesMore ==
    ASSUME NEW b \in Nat, NEW c \in Nat, NEW u \in LineEnds, b < u, u <= c
    PROVE  Newlines(1, b) < Newlines(1, c)
<1>1. u \in Nat
  BY OutputAssumption
<1>2. Newlines(b + 1, c) # 0
  <2>1. u \in LineEnds \cap ((b + 1) .. c)
    BY <1>1
  <2>2. IsFiniteSet(LineEnds)
    <3>1. IsFiniteSet(1 .. Units)
      BY FS_Interval, OutputAssumption
    <3> QED
      BY <3>1, FS_Subset, OutputAssumption
  <2>3. IsFiniteSet(LineEnds \cap ((b + 1) .. c))
    BY <2>2, FS_Intersection
  <2> QED
    BY <2>1, <2>3, FS_EmptySet DEF Newlines
<1>3. b <= c
  BY <1>1
<1>4. /\ Newlines(1, b) \in Nat /\ Newlines(b + 1, c) \in Nat
      /\ Newlines(1, c) = Newlines(1, b) + Newlines(b + 1, c)
  BY <1>3, NewlinesAdd
<1> QED
  BY <1>2, <1>4

-----------------------------------------------------------------------------
(* The pipeline carries what it was given.                                 *)

\* The types of the pipeline when n events were dispatched: no message, and no row,
\* is of another one.
Carried(n) ==
    /\ broker \in Seq(0 .. n)
    /\ unacked \in [held : BOOLEAN, msg : 0 .. n, put : BOOLEAN]
    /\ turn \in Worker
    /\ queue \in [Worker -> Seq(0 .. n)]
    /\ hand \in [Worker -> [busy : BOOLEAN, msg : 0 .. n, tries : 0 .. MaxRetries]]
    /\ up \in BOOLEAN
    /\ saved \in [Event -> Nat]
    /\ \A e \in Event : saved[e] > 0 => e <= n
    /\ faults \in 0 .. MaxFaults

LEMMA FaultType ==
    ASSUME faults \in 0 .. MaxFaults, Fault \/ UNCHANGED faults
    PROVE  faults' \in 0 .. MaxFaults
  BY PipelineAssumption DEF Fault

LEMMA TurnType ==
    ASSUME turn \in Worker
    PROVE  NextTurn \in Worker
<1>1. Cardinality(Worker) \in Nat
  BY PipelineAssumption, FS_CardinalityType
<1>2. PICK n \in Nat : n = Cardinality(Worker)
  BY <1>1
<1>3. Worker = 0 .. n - 1 /\ n > 0 /\ turn \in Nat
  BY <1>2, PipelineAssumption
<1>4. (turn + 1) % n \in 0 .. n - 1
  BY <1>3
<1> QED
  BY <1>2, <1>3, <1>4 DEF NextTurn, Workers

\* What the receiver had not acknowledged is back in the broker.
LEMMA StopCarries ==
    ASSUME NEW n \in Nat, Carried(n), Stop
    PROVE  /\ broker' \in Seq(0 .. n) /\ queue' \in [Worker -> Seq(0 .. n)]
           /\ unacked' \in [held : BOOLEAN, msg : 0 .. n, put : BOOLEAN]
<1>1. broker \in Seq(0 .. n) /\ unacked.msg \in 0 .. n
  BY DEF Carried
<1>2. <<unacked.msg>> \in Seq(0 .. n)
  BY <1>1
<1>3. <<unacked.msg>> \o broker \in Seq(0 .. n)
  BY <1>1, <1>2
<1>4. broker' \in Seq(0 .. n)
  BY <1>1, <1>3 DEF Stop
<1>5. <<>> \in Seq(0 .. n)
  OBVIOUS
<1>6. queue' \in [Worker -> Seq(0 .. n)]
  BY <1>5 DEF Stop
<1> QED
  BY <1>4, <1>6 DEF Stop, NoMessage, EOF

\* A step of the receiver.
LEMMA ReceiverCarries ==
    ASSUME NEW n \in Nat, Carried(n), ReceiverStep \/ ReceiverFault
    PROVE  Carried(n)'
<1> USE DEF Carried
<1>1. CASE Receive
  BY <1>1 DEF Receive
<1>2. CASE WriteQueueWorker
  <2>1. PICK w \in Worker : queue' = [queue EXCEPT ![w] = Append(@, unacked.msg)]
    BY <1>2 DEF WriteQueueWorker
  <2>2. queue' \in [Worker -> Seq(0 .. n)]
    BY <2>1
  <2>3. unacked' \in [held : BOOLEAN, msg : 0 .. n, put : BOOLEAN]
    BY <1>2 DEF WriteQueueWorker
  <2>4. turn' \in Worker
    BY <1>2, TurnType DEF WriteQueueWorker
  <2> QED
    BY <1>2, <2>2, <2>3, <2>4 DEF WriteQueueWorker
<1>3. CASE Ack
  BY <1>3 DEF Ack, NoMessage, EOF
<1>4. CASE GiveUpMessage
  <2>1. unacked' \in [held : BOOLEAN, msg : 0 .. n, put : BOOLEAN]
    BY <1>4 DEF GiveUpMessage
  <2>2. turn' \in Worker /\ faults' \in 0 .. MaxFaults
    BY <1>4, TurnType, FaultType DEF GiveUpMessage
  <2> QED
    BY <1>4, <2>1, <2>2 DEF GiveUpMessage
<1>5. CASE ReceiverCrash
  <2>1. /\ broker' \in Seq(0 .. n) /\ queue' \in [Worker -> Seq(0 .. n)]
        /\ unacked' \in [held : BOOLEAN, msg : 0 .. n, put : BOOLEAN]
    BY <1>5, StopCarries DEF ReceiverCrash
  <2>2. hand' \in [Worker -> [busy : BOOLEAN, msg : 0 .. n, tries : 0 .. MaxRetries]]
    BY <1>5, PipelineAssumption DEF ReceiverCrash, Idle, EOF
  <2>4. faults' \in 0 .. MaxFaults
    BY <1>5, FaultType DEF ReceiverCrash
  <2> QED
    BY <1>5, <2>1, <2>2, <2>4 DEF ReceiverCrash, Stop
<1>6. CASE StartReceiver
  BY <1>6, PipelineAssumption DEF StartReceiver
<1> QED
  BY <1>1, <1>2, <1>3, <1>4, <1>5, <1>6 DEF ReceiverStep, ReceiverFault

\* A step of a worker of the receiver.
LEMMA WorkerCarries ==
    ASSUME NEW n \in Nat, Carried(n), NEW w \in Worker, WorkerStep(w) \/ WorkerFault(w)
    PROVE  Carried(n)'
<1> USE DEF Carried
<1> DEFINE Hand == [busy : BOOLEAN, msg : 0 .. n, tries : 0 .. MaxRetries]
<1>i. Idle \in Hand
  BY PipelineAssumption DEF Idle, EOF
<1>h. hand[w] \in Hand /\ hand[w].msg \in 0 .. n
  OBVIOUS
<1>s. ASSUME Insert(w)
      PROVE  saved' \in [Event -> Nat] /\ \A e \in Event : saved'[e] > 0 => e <= n
  <2>1. PICK m \in 0 .. n : m = hand[w].msg
    BY <1>h
  <2>2. saved' = [saved EXCEPT ![m] = @ + 1]
    BY <1>s, <2>1 DEF Insert
  <2>3. \A e \in Event : saved[e] \in Nat /\ (saved[e] > 0 => e <= n)
    OBVIOUS
  <2>4. \A e \in Event : saved'[e] = IF e = m THEN saved[e] + 1 ELSE saved[e]
    BY <2>2
  <2>5. saved' = [e \in Event |-> IF e = m THEN saved[e] + 1 ELSE saved[e]]
    BY <2>2
  <2>6. saved' \in [Event -> Nat]
    BY <2>3, <2>5
  <2>7. \A e \in Event : saved'[e] > 0 => e <= n
    <3> SUFFICES ASSUME NEW e \in Event, saved'[e] > 0 PROVE e <= n
      OBVIOUS
    <3>1. CASE e = m
      BY <3>1
    <3>2. CASE e # m
      <4>1. saved[e] > 0
        BY <2>4, <3>2
      <4> QED
        BY <2>3, <4>1
    <3> QED
      BY <3>1, <3>2
  <2> QED
    BY <2>6, <2>7
<1>1. CASE GetEvent(w)
  <2>1. queue[w] \in Seq(0 .. n) /\ queue[w] # <<>>
    BY <1>1 DEF GetEvent
  <2>2. Head(queue[w]) \in 0 .. n /\ Tail(queue[w]) \in Seq(0 .. n)
    BY <2>1
  <2>3. queue' \in [Worker -> Seq(0 .. n)]
    BY <1>1, <2>2 DEF GetEvent
  <2>4. [busy |-> TRUE, msg |-> Head(queue[w]), tries |-> 0] \in Hand
    BY <2>2, PipelineAssumption
  <2>5. hand' \in [Worker -> Hand]
    BY <1>1, <2>4 DEF GetEvent
  <2> QED
    BY <1>1, <2>3, <2>5 DEF GetEvent
<1>2. CASE SaveEvent(w)
  BY <1>2, <1>i, <1>s DEF SaveEvent
<1>3. CASE RetrySave(w)
  <2>1. hand[w].tries + 1 \in 0 .. MaxRetries
    BY <1>3, <1>h, PipelineAssumption DEF RetrySave
  <2>2. hand' \in [Worker -> Hand]
    BY <1>3, <1>h, <2>1 DEF RetrySave
  <2> QED
    BY <1>3, <1>s, <2>2, FaultType DEF RetrySave
<1>4. CASE DropEvent(w)
  BY <1>4, <1>i, FaultType DEF DropEvent
<1>5. CASE ShutDown(w)
  <2>1. /\ broker' \in Seq(0 .. n) /\ queue' \in [Worker -> Seq(0 .. n)]
        /\ unacked' \in [held : BOOLEAN, msg : 0 .. n, put : BOOLEAN]
    BY <1>5, StopCarries DEF ShutDown
  <2>3. hand' \in [Worker -> Hand] /\ faults' \in 0 .. MaxFaults
    BY <1>5, <1>i, FaultType DEF ShutDown
  <2> QED
    BY <1>5, <2>1, <2>3 DEF ShutDown, Stop
<1> QED
  BY <1>1, <1>2, <1>3, <1>4, <1>5 DEF WorkerStep, WorkerFault

\* What is dispatched is one more event, or the last message.
LEMMA DispatchCarries ==
    ASSUME NEW n \in Nat, NEW m \in Nat, n <= m, Carried(n), NEW e \in 0 .. m,
           Dispatch(e)
    PROVE  Carried(m)'
<1> USE DEF Carried
<1>1. broker \in Seq(0 .. m)
  <2>1. 0 .. n \subseteq 0 .. m
    OBVIOUS
  <2> QED
    BY <2>1
<1>2. broker' \in Seq(0 .. m)
  <2>1. <<e, e>> \in Seq(0 .. m)
    OBVIOUS
  <2>2. Append(broker, e) \in Seq(0 .. m) /\ broker \o <<e, e>> \in Seq(0 .. m)
    BY <1>1, <2>1
  <2> QED
    BY <1>1, <2>2 DEF Dispatch
<1>3. faults' \in 0 .. MaxFaults
  BY FaultType DEF Dispatch
<1>4. queue \in [Worker -> Seq(0 .. m)]
  <2>1. 0 .. n \subseteq 0 .. m
    OBVIOUS
  <2>2. Seq(0 .. n) \subseteq Seq(0 .. m)
    BY <2>1
  <2> QED
    BY <2>2
<1>5. /\ unacked \in [held : BOOLEAN, msg : 0 .. m, put : BOOLEAN]
      /\ hand \in [Worker -> [busy : BOOLEAN, msg : 0 .. m, tries : 0 .. MaxRetries]]
  OBVIOUS
<1>6. \A k \in Event : saved[k] > 0 => k <= m
  BY DEF Event
<1> QED
  BY <1>2, <1>3, <1>4, <1>5, <1>6 DEF Dispatch

-----------------------------------------------------------------------------
(* The job.                                                                *)

\* The types of the job, but for what each event says.
Emitted == \E S : emitted \in Seq(S)
JobTyped ==
    /\ child \in [wrote : 0 .. Units, state : {"alive", "zero", "nonzero"},
                  term : BOOLEAN]
    /\ pc \in {"test", "expect", "poll", "close", "read", "save", "done", "raised"}
    /\ read \in 0 .. Units
    /\ Emitted /\ Len(emitted) \in 0 .. read
    /\ sent \in 0 .. Len(emitted)
    /\ verdict \in [canceled : BOOLEAN, timedOut : BOOLEAN, errored : BOOLEAN]
    /\ result \in Over
    /\ row \in [status : Over \cup {"running"}, cancel : BOOLEAN,
                emitted : 0 .. Units]
Typed == JobTyped /\ Carried(sent)

\* A command was terminated for a reason, and the status that is returned, saved
\* and read has that reason.
Reasoned ==
    /\ verdict.canceled => row.cancel
    /\ child.term => Terminates(verdict)
    /\ child.term /\ pc \in {"read", "save"} => result # "successful"
    /\ row.status = "successful" => pc = "done" /\ ~child.term
\* Once the job is over the tally is that of its events.
Tallied == pc = "done" => row.emitted = Len(emitted)
Inv == Typed /\ Reasoned /\ Tallied

LEMMA InitInv == Init => Inv
<1> SUFFICES ASSUME Init PROVE Inv
  OBVIOUS
<1>1. Carried(sent)
  <2>1. <<>> \in Seq(0 .. 0)
    OBVIOUS
  <2> QED
    BY <2>1, PipelineAssumption
       DEF Init, PipelineInit, Carried, NoMessage, Idle, EOF
<1>2. JobTyped
  <2>1. emitted = <<>> /\ Emitted
    BY DEF Init, Emitted
  <2> QED
    BY <2>1, OutputAssumption DEF Init, JobTyped, Over
<1>3. Reasoned /\ Tallied
  BY DEF Init, Reasoned, Tallied
<1> QED
  BY <1>1, <1>2, <1>3 DEF Inv, Typed

\* Only a dispatch changes how many events were; the pipeline changes nothing else.
LEMMA CarriedStep ==
    ASSUME Inv, [Next]_vars
    PROVE  Carried(sent)'
<1>t. sent \in Nat /\ Len(emitted) \in Nat /\ sent <= Len(emitted)
  BY DEF Inv, Typed, JobTyped
<1>n. PICK n \in Nat : n = sent
  BY <1>t
<1>c. Carried(n)
  BY <1>n DEF Inv, Typed
\* It is enough that it carries as many as were dispatched.
<1>s. ASSUME NEW m, m = sent', Carried(m)' PROVE Carried(sent)'
  BY <1>s DEF Carried
<1>1. CASE sent' = sent /\ UNCHANGED pipeline
  BY <1>1, <1>n, <1>c DEF pipeline, Carried
<1>2. CASE sent' = sent /\ PipelineNext
  BY <1>2, <1>n, <1>c, <1>s, ReceiverCarries, WorkerCarries DEF PipelineNext
<1>3. CASE DispatchEvent
  <2>1. n + 1 \in Nat /\ n <= n + 1 /\ n + 1 \in 0 .. n + 1 /\ sent' = n + 1
    BY <1>3, <1>n DEF DispatchEvent
  <2>2. Dispatch(n + 1)
    BY <1>3, <1>n DEF DispatchEvent
  <2>3. PICK m \in Nat : m = n + 1
    BY <2>1
  <2>4. Carried(m)'
    BY <1>c, <2>1, <2>2, <2>3, DispatchCarries
  <2> QED
    BY <1>s, <2>1, <2>3, <2>4
<1>4. CASE CloseStdout
  <2>1. Dispatch(0) /\ sent' = n
    BY <1>4, <1>n DEF CloseStdout, EOF
  <2>2. Carried(n)'
    BY <1>c, <2>1, DispatchCarries
  <2> QED
    BY <1>s, <2>1, <2>2
<1>5. CASE Poll \/ UpdateGivesUp
  <2>1. UNCHANGED <<sent, broker, unacked, turn, queue, hand, up, saved>>
    BY <1>5 DEF Poll, UpdateGivesUp
  <2>2. faults' \in 0 .. MaxFaults
    BY <1>5, <1>c, FaultType DEF Poll, UpdateGivesUp, Carried
  <2> QED
    BY <1>n, <1>c, <2>1, <2>2 DEF Carried
<1> QED
  BY <1>1, <1>2, <1>3, <1>4, <1>5
     DEF Next, RunStep, ChildWrites, ChildEnds, TestAlive, ReadOutput, ExpectReturns,
         ReadCancelFlag, SaveResult, HandleWorkError, Cancel, worker, vars

LEMMA TypedStep ==
    ASSUME Inv, [Next]_vars
    PROVE  Typed'
<1>t. JobTyped
  BY DEF Inv, Typed
<1>n. Units \in Nat /\ JobTimeout \in BOOLEAN
  BY OutputAssumption
<1>1. CASE ReadOutput
  <2>1. PICK upto \in read + 1 .. child.wrote :
          /\ read' = upto
          /\ emitted' = emitted \o Pieces(read + 1, upto)
    BY <1>1 DEF ReadOutput
  <2>2. read \in Nat /\ read + 1 \in Nat /\ upto \in Nat /\ read + 1 <= upto /\ upto <= Units
    BY <1>t, <1>n, <2>1 DEF JobTyped
  <2>3. PICK S : emitted \in Seq(S)
    BY <1>t DEF JobTyped, Emitted
  <2>4. PICK T : Pieces(read + 1, upto) \in Seq(T)
    BY <2>2, PiecesAreFew
  <2>5. Len(Pieces(read + 1, upto)) \in 0 .. upto - (read + 1) + 1
    BY <2>2, PiecesAreFew
  <2>6. emitted' \in Seq(S \cup T)
        /\ Len(emitted') = Len(emitted) + Len(Pieces(read + 1, upto))
    <3>1. emitted \in Seq(S \cup T) /\ Pieces(read + 1, upto) \in Seq(S \cup T)
      BY <2>3, <2>4
    <3> QED
      BY <2>1, <2>3, <2>4, <3>1
  <2>7. Len(emitted) \in 0 .. read
    BY <1>t DEF JobTyped
  <2>8. Len(emitted') \in 0 .. read' /\ Len(emitted) <= Len(emitted') /\ read' \in 0 .. Units
    BY <1>n, <2>1, <2>2, <2>5, <2>6, <2>7
  <2>9. sent' \in 0 .. Len(emitted')
    BY <1>1, <1>t, <2>7, <2>8 DEF ReadOutput, JobTyped
  <2>10. Emitted'
    BY <2>6 DEF Emitted
  <2>11. JobTyped'
    BY <1>1, <1>t, <2>8, <2>9, <2>10 DEF ReadOutput, JobTyped
  <2> QED
    BY <2>11, CarriedStep DEF Typed
<1>2. CASE UNCHANGED emitted /\ ~ReadOutput
  <2> SUFFICES JobTyped'
    BY CarriedStep DEF Typed
  <2>e. Emitted' /\ Len(emitted) \in 0 .. read
    BY <1>t, <1>2 DEF JobTyped, Emitted
  <2>1. CASE ChildWrites \/ ChildEnds
    BY <1>2, <1>t, <1>n, <2>e, <2>1 DEF ChildWrites, ChildEnds, JobTyped
  <2>2. CASE TestAlive \/ ExpectReturns
    BY <1>2, <1>t, <2>e, <2>2 DEF TestAlive, ExpectReturns, JobTyped
  <2>3. CASE Poll
    <3>1. child' \in [wrote : 0 .. Units, state : {"alive", "zero", "nonzero"},
                      term : BOOLEAN]
      BY <1>t, <2>3 DEF Poll, JobTyped, Terminates
    <3>2. verdict' \in [canceled : BOOLEAN, timedOut : BOOLEAN, errored : BOOLEAN]
      BY <1>t, <1>n, <2>3 DEF Poll, JobTyped
    <3> QED
      BY <1>2, <1>t, <2>e, <2>3, <3>1, <3>2 DEF Poll, JobTyped
  <2>4. CASE DispatchEvent
    BY <1>2, <1>t, <2>e, <2>4 DEF DispatchEvent, JobTyped
  <2>5. CASE CloseStdout \/ ReadCancelFlag \/ UpdateGivesUp
    BY <1>2, <1>t, <2>e, <2>5
       DEF CloseStdout, ReadCancelFlag, UpdateGivesUp, StatusReturned, Over, JobTyped
  <2>6. CASE SaveResult
    <3>1. Len(emitted) \in 0 .. Units
      BY <1>t, <1>n, <2>e DEF JobTyped
    <3>2. row' \in [status : Over \cup {"running"}, cancel : BOOLEAN, emitted : 0 .. Units]
      BY <1>t, <2>6, <3>1 DEF SaveResult, EventCount, JobTyped
    <3> QED
      BY <1>2, <1>t, <2>e, <2>6, <3>2 DEF SaveResult, JobTyped
  <2>7. CASE HandleWorkError \/ Cancel
    BY <1>2, <1>t, <2>e, <2>7 DEF HandleWorkError, Cancel, Over, JobTyped
  <2>8. CASE UNCHANGED worker
    BY <1>t, <2>e, <2>8 DEF worker, JobTyped
  <2> QED
    BY <1>2, <2>1, <2>2, <2>3, <2>4, <2>5, <2>6, <2>7, <2>8 DEF Next, RunStep, vars, worker
<1>3. UNCHANGED emitted \/ ReadOutput
  BY DEF Next, RunStep, ChildWrites, ChildEnds, TestAlive, ExpectReturns, Poll,
         DispatchEvent, CloseStdout, UpdateGivesUp, ReadCancelFlag, SaveResult,
         HandleWorkError, Cancel, worker, vars
<1> QED
  BY <1>1, <1>2, <1>3

\* Who sends the signal gives the reason; the status of the exit keeps it.
LEMMA ReasonedStep ==
    ASSUME Inv, [Next]_vars
    PROVE  Reasoned' /\ Tallied'
<1>t. JobTyped /\ Reasoned /\ Tallied
  BY DEF Inv, Typed
<1> DEFINE Goal == Reasoned' /\ Tallied'
<1>1. CASE ChildWrites \/ ChildEnds
  <2>1. child'.term = child.term
    BY <1>t, <1>1 DEF ChildWrites, ChildEnds, JobTyped
  <2> QED
    BY <1>t, <1>1, <2>1 DEF ChildWrites, ChildEnds, Reasoned, Tallied
<1>2. CASE TestAlive \/ ReadOutput \/ ExpectReturns \/ DispatchEvent
  BY <1>t, <1>2 DEF TestAlive, ReadOutput, ExpectReturns, DispatchEvent, Reasoned, Tallied
<1>3. CASE Poll
  <2>1. PICK reached \in BOOLEAN, late \in BOOLEAN :
          verdict' = [canceled |-> IF reached THEN row.cancel ELSE verdict.canceled,
                      timedOut |-> verdict.timedOut
                          \/ (late /\ ~(IF reached THEN row.cancel ELSE verdict.canceled)),
                      errored |-> verdict.errored \/ ~reached]
    BY <1>3, OutputAssumption DEF Poll
  <2>2. verdict'.canceled => row.cancel
    BY <1>t, <2>1 DEF Reasoned
  <2>3. Terminates(verdict) => Terminates(verdict')
    <3>1. verdict.canceled => verdict'.canceled
      BY <1>t, <2>1 DEF Reasoned
    <3>2. (verdict.timedOut => verdict'.timedOut) /\ (verdict.errored => verdict'.errored)
      BY <2>1
    <3> QED
      BY <3>1, <3>2 DEF Terminates
  <2>4. child'.term => child.term \/ Terminates(verdict')
    BY <1>t, <1>3 DEF Poll, JobTyped
  <2>5. pc = "poll" /\ pc' = "test" /\ row' = row
    BY <1>3 DEF Poll
  <2> QED
    BY <1>t, <2>2, <2>3, <2>4, <2>5 DEF Reasoned, Tallied
<1>4. CASE CloseStdout
  <2>1. child.term => result' # "successful"
    BY <1>t, <1>4 DEF CloseStdout, StatusReturned, Terminates, Reasoned
  <2> QED
    BY <1>t, <1>4, <2>1 DEF CloseStdout, Reasoned, Tallied
<1>5. CASE ReadCancelFlag \/ UpdateGivesUp
  BY <1>t, <1>5 DEF ReadCancelFlag, UpdateGivesUp, Reasoned, Tallied
<1>6. CASE SaveResult
  <2>1. row'.status = result /\ row'.cancel = row.cancel /\ row'.emitted = Len(emitted)
    BY <1>t, <1>6 DEF SaveResult, EventCount, JobTyped
  <2> QED
    BY <1>t, <1>6, <2>1 DEF SaveResult, Reasoned, Tallied
<1>7. CASE HandleWorkError \/ Cancel
  <2>1. /\ row'.status = "successful" => row.status = "successful"
        /\ row.cancel => row'.cancel
        /\ row'.emitted = row.emitted
    BY <1>t, <1>7 DEF HandleWorkError, Cancel, JobTyped
  <2> QED
    BY <1>t, <1>7, <2>1 DEF HandleWorkError, Cancel, Reasoned, Tallied
<1>8. CASE UNCHANGED worker
  BY <1>t, <1>8 DEF worker, Reasoned, Tallied
<1> QED
  BY <1>1, <1>2, <1>3, <1>4, <1>5, <1>6, <1>7, <1>8 DEF Next, RunStep, vars, worker

LEMMA Invariant == Spec => []Inv
<1>1. Inv /\ [Next]_vars => Inv'
  BY TypedStep, ReasonedStep DEF Inv
<1> QED
  BY <1>1, InitInv, PTL DEF Spec

\* A job whose command was terminated is never reported successful, whatever the
\* command returned (run_pexpect puts the reason before the exit status, and
\* BaseTask.run reads the cancel flag once more).
THEOREM KilledJobs == Spec => []KilledIsNotSuccessful
<1>1. Inv => KilledIsNotSuccessful
  BY DEF Inv, Reasoned, KilledIsNotSuccessful
<1> QED
  BY <1>1, Invariant, PTL

\* Events that are saved once are counted as their rows.
LEMMA RowsOfEvents ==
    ASSUME Inv, ~Duplicated
    PROVE  RowCount = Cardinality(SavedEvents) /\ IsFiniteSet(SavedEvents)
<1>1. IsFiniteSet(SavedEvents)
  <2>1. IsFiniteSet(Event)
    BY FS_Interval, PipelineAssumption DEF Event
  <2> QED
    BY <2>1, FS_Subset DEF SavedEvents
<1>2. saved \in [Event -> Nat]
  BY DEF Inv, Typed, Carried
<1>3. EventRows = {<<e, 1>> : e \in SavedEvents}
  <2>1. \A e \in Event : saved[e] \in {0, 1}
    BY <1>2 DEF Duplicated
  <2>2. ASSUME NEW n \in {0, 1} PROVE 1 .. n = IF n > 0 THEN {1} ELSE {}
    <3>1. CASE n = 0
      BY <3>1
    <3>2. CASE n = 1
      BY <3>2
    <3> QED
      BY <3>1, <3>2
  <2>3. \A e \in Event : {e} \X (1 .. saved[e]) = IF e \in SavedEvents THEN {<<e, 1>>} ELSE {}
    BY <2>1, <2>2 DEF SavedEvents
  <2> QED
    BY <2>3 DEF EventRows, SavedEvents
<1> DEFINE f == [e \in SavedEvents |-> <<e, 1>>]
<1>4. f \in Bijection(SavedEvents, EventRows)
  <2>1. f \in [SavedEvents -> EventRows]
    BY <1>3
  <2>2. IsInjective(f)
    BY DEF IsInjective
  <2>3. \A r \in EventRows : \E e \in SavedEvents : f[e] = r
    BY <1>3
  <2> QED
    BY <2>1, <2>2, <2>3 DEF Bijection, Injection, Surjection
<1> QED
  BY <1>1, <1>4, FS_Bijection DEF RowCount, ExistsBijection

\* A job that is told to be all in has every event it emitted: the tally of
\* emitted_events and the count of rows agree only when no event is missing.
THEOREM AllEventsSaved == Spec => []FinishedMeansAllSaved
<1>1. Inv => FinishedMeansAllSaved
  <2> SUFFICES ASSUME Inv, EventProcessingFinished, pc = "done", ~Duplicated
               PROVE  SavedEvents = 1 .. Len(emitted)
    BY DEF FinishedMeansAllSaved
  <2>1. Len(emitted) \in Nat /\ sent \in 0 .. Len(emitted)
    BY OutputAssumption DEF Inv, Typed, JobTyped
  <2>2. SavedEvents \in SUBSET (1 .. Len(emitted))
    BY <2>1 DEF Inv, Typed, Carried, SavedEvents, Event
  <2>3. Cardinality(SavedEvents) = Len(emitted)
    <3>1. RowCount = Cardinality(SavedEvents)
      BY RowsOfEvents
    <3>2. row.emitted = Len(emitted) /\ row.emitted = RowCount
      BY DEF EventProcessingFinished, Inv, Tallied
    <3> QED
      BY <3>1, <3>2
  <2>4. PICK n \in Nat : n = Len(emitted)
    BY <2>1
  <2>5. IsFiniteSet(1 .. n) /\ Cardinality(1 .. n) = n
    BY FS_Interval
  <2> QED
    BY <2>2, <2>3, <2>4, <2>5, FS_Subset
<1> QED
  BY <1>1, Invariant, PTL

-----------------------------------------------------------------------------
(***************************************************************************)
(* The text.  The events cut what was read into pieces that lie one behind *)
(* the other, and each knows its line.  Where every piece but the last     *)
(* ends a line no two start in the same one, so that the order of the      *)
(* lines is the order of the events.                                       *)
(***************************************************************************)
Pieced ==
    LET n == Len(emitted) IN
    /\ line = Newlines(1, read)
    /\ IF n = 0 THEN read = 0 ELSE emitted[1].first = 1 /\ emitted[n].last = read
    /\ \A e \in 1 .. n : /\ emitted[e].first \in 1 .. read
                         /\ emitted[e].last \in emitted[e].first .. read
                         /\ emitted[e].kept = Kept(emitted[e].last)
                         /\ emitted[e].start = Newlines(1, emitted[e].first - 1)
    /\ \A e \in 2 .. n : emitted[e].first = emitted[e - 1].last + 1
    /\ \A e, f \in 1 .. n : e < f => emitted[e].last < emitted[f].first

LEMMA PiecedInit == Init => Pieced
<1> SUFFICES ASSUME Init PROVE Pieced
  OBVIOUS
<1>1. emitted = <<>> /\ read = 0 /\ line = 0
  BY DEF Init
<1>2. Newlines(1, 0) = 0
  <2>1. LineEnds \cap (1 .. 0) = {}
    OBVIOUS
  <2> QED
    BY <2>1, FS_EmptySet DEF Newlines
<1> QED
  BY <1>1, <1>2 DEF Pieced

\* What is read is cut behind what was.
LEMMA PiecedRead ==
    ASSUME Inv, Pieced, ReadOutput
    PROVE  Pieced'
<1>1. PICK upto \in read + 1 .. child.wrote :
        /\ read' = upto
        /\ emitted' = emitted \o Pieces(read + 1, upto)
        /\ line' = line + Newlines(read + 1, upto)
  BY DEF ReadOutput
<1>2. read \in Nat /\ upto \in Nat /\ read + 1 \in Nat /\ read + 1 <= upto
  BY <1>1, OutputAssumption DEF Inv, Typed, JobTyped
<1>l. Len(emitted) \in Nat
  BY OutputAssumption DEF Inv, Typed, JobTyped
<1>n. PICK n \in Nat : n = Len(emitted)
  BY <1>l
<1>p. /\ line = Newlines(1, read)
      /\ IF n = 0 THEN read = 0 ELSE emitted[1].first = 1 /\ emitted[n].last = read
      /\ \A e \in 1 .. n : /\ emitted[e].first \in 1 .. read
                           /\ emitted[e].last \in emitted[e].first .. read
                           /\ emitted[e].kept = Kept(emitted[e].last)
                           /\ emitted[e].start = Newlines(1, emitted[e].first - 1)
      /\ \A e \in 2 .. n : emitted[e].first = emitted[e - 1].last + 1
      /\ \A e, f \in 1 .. n : e < f => emitted[e].last < emitted[f].first
  BY <1>n DEF Pieced
<1>3. Cardinality(PieceEnds(read + 1, upto)) \in Nat
  <2>1. IsFiniteSet(read + 1 .. upto)
    BY <1>2, FS_Interval
  <2>2. PieceEnds(read + 1, upto) \in SUBSET (read + 1 .. upto)
    BY DEF PieceEnds
  <2> QED
    BY <2>1, <2>2, FS_Subset, FS_CardinalityType
<1>a. PICK m \in Nat, a \in Nat :
         m = Cardinality(PieceEnds(a, upto)) /\ a = read + 1 /\ a <= upto
  BY <1>2, <1>3
<1>4. PICK Q : /\ m = Cardinality(PieceEnds(a, upto)) /\ a = read + 1 /\ a <= upto
               /\ Q = Pieces(a, upto)
  BY <1>a
<1>5. /\ m > 0 /\ Len(Q) = m /\ IsSeq(Q)
      /\ Q[1].first = a /\ Q[m].last = upto
      /\ \A i \in 1 .. m : /\ Q[i].first \in a .. upto
                           /\ Q[i].last \in Q[i].first .. upto
                           /\ Q[i].kept = Kept(Q[i].last)
                           /\ Q[i].start = line + Newlines(a, Q[i].first - 1)
      /\ \A i \in 2 .. m : Q[i].first = Q[i - 1].last + 1
      /\ \A i, j \in 1 .. m : i < j => Q[i].last < Q[j].first
  <2>1. Cut(Q, m, a, upto)
    BY <1>2, <1>4, PiecesInOrder
  <2> QED
    BY <2>1 DEF Cut
<1>6. /\ Len(emitted') = n + m
      /\ \A e \in 1 .. n : emitted'[e] = emitted[e]
      /\ \A i \in 1 .. m : emitted'[n + i] = Q[i]
  <2>1. PICK S : emitted \in Seq(S)
    BY DEF Inv, Typed, JobTyped, Emitted
  <2>4. PICK T : Q \in Seq(T) /\ Len(Q) = m
    BY <1>5 DEF IsSeq
  <2>5. PICK U : emitted \in Seq(U) /\ Q \in Seq(U)
    <3>1. emitted \in Seq(S \cup T) /\ Q \in Seq(S \cup T)
      BY <2>1, <2>4
    <3> QED
      BY <3>1
  <2>6. emitted' = emitted \o Q
    BY <1>1, <1>4
  <2>7. Len(emitted') = n + m
    <3>1. Len(emitted \o Q) = Len(emitted) + Len(Q)
      BY <2>5
    <3> QED
      BY <1>n, <2>4, <2>6, <3>1
  <2>8. \A e \in 1 .. n : emitted'[e] = emitted[e]
    BY <1>n, <2>5, <2>6
  <2>9. ASSUME NEW i \in 1 .. m PROVE emitted'[n + i] = Q[i]
    BY <1>n, <2>4, <2>5, <2>6
  <2> QED
    BY <2>7, <2>8, <2>9
<1>7. line = Newlines(1, read)
  BY <1>p
<1>8. line' = Newlines(1, read')
  <2>1. Newlines(1, upto) = Newlines(1, read) + Newlines(read + 1, upto)
    <3>1. read <= upto
      BY <1>2
    <3> QED
      BY <1>2, <3>1, NewlinesAdd
  <2> QED
    BY <1>1, <1>7, <2>1
<1>10. ASSUME NEW e \in 1 .. n + m
       PROVE  /\ emitted'[e].first \in 1 .. upto
              /\ emitted'[e].last \in emitted'[e].first .. upto
              /\ emitted'[e].kept = Kept(emitted'[e].last)
              /\ emitted'[e].start = Newlines(1, emitted'[e].first - 1)
  <2>1. CASE e \in 1 .. n
    <3>1. PICK x : x = emitted'[e] /\ x = emitted[e]
      BY <1>6, <2>1
    <3>2. /\ x.first \in 1 .. read /\ x.last \in x.first .. read
          /\ x.kept = Kept(x.last) /\ x.start = Newlines(1, x.first - 1)
      BY <1>p, <2>1, <3>1
    <3>3. x.first \in 1 .. upto /\ x.last \in x.first .. upto
      BY <1>2, <3>2
    <3> QED
      BY <3>1, <3>2, <3>3
  <2>2. CASE e \in n + 1 .. n + m
    <3>0. e - n \in 1 .. m /\ e = n + (e - n)
      BY <2>2
    <3>1. PICK i \in 1 .. m : emitted'[e] = Q[i]
      BY <1>6, <3>0
    <3>2. /\ Q[i].first \in a .. upto /\ Q[i].last \in Q[i].first .. upto
          /\ Q[i].kept = Kept(Q[i].last)
          /\ Q[i].start = line + Newlines(a, Q[i].first - 1)
      BY <1>5
    <3>3. PICK b \in Nat : b = Q[i].first - 1 /\ read <= b
      BY <1>2, <1>4, <3>2
    <3>4. Newlines(1, b) = Newlines(1, read) + Newlines(a, b)
      BY <1>2, <1>4, <3>3, NewlinesAdd
    <3>5. Q[i].first \in 1 .. upto /\ Q[i].last \in Q[i].first .. upto
      BY <1>2, <1>4, <3>2
    <3>6. Q[i].start = Newlines(1, Q[i].first - 1)
      BY <1>7, <3>2, <3>3, <3>4
    <3> QED
      BY <3>1, <3>2, <3>5, <3>6
  <2> QED
    BY <2>1, <2>2
<1>11. emitted'[1].first = 1 /\ emitted'[n + m].last = upto
  <2>1. emitted'[n + m] = Q[m]
    BY <1>5, <1>6
  <2>2. CASE n = 0
    <3>1. emitted'[1] = Q[1] /\ read = 0
      BY <1>5, <1>6, <1>p, <2>2
    <3> QED
      BY <1>4, <1>5, <2>1, <3>1
  <2>3. CASE n # 0
    <3>1. emitted'[1] = emitted[1]
      BY <1>6, <2>3
    <3> QED
      BY <1>5, <1>p, <2>1, <2>3, <3>1
  <2> QED
    BY <2>2, <2>3
<1>12. ASSUME NEW e \in 2 .. n + m
       PROVE  emitted'[e].first = emitted'[e - 1].last + 1
  <2>1. CASE e <= n
    <3>1. emitted'[e] = emitted[e] /\ emitted'[e - 1] = emitted[e - 1]
      BY <1>6, <2>1
    <3> QED
      BY <1>p, <2>1, <3>1
  <2>2. CASE e = n + 1
    <3>1. emitted'[e] = Q[1] /\ n # 0
      BY <1>5, <1>6, <2>2
    <3>2. e - 1 = n /\ emitted'[n] = emitted[n]
      BY <1>6, <2>2, <3>1
    <3>3. emitted[n].last = read
      BY <1>p, <3>1
    <3> QED
      BY <1>4, <1>5, <3>1, <3>2, <3>3
  <2>3. CASE e > n + 1
    <3>1. PICK i \in 2 .. m : i = e - n
      BY <2>3
    <3>2. e = n + i /\ e - 1 = n + (i - 1) /\ i \in 1 .. m /\ i - 1 \in 1 .. m
      BY <2>3, <3>1
    <3>3. emitted'[e] = Q[i] /\ emitted'[e - 1] = Q[i - 1]
      BY <1>6, <3>2
    <3> QED
      BY <1>5, <3>3
  <2> QED
    BY <2>1, <2>2, <2>3
<1>13. ASSUME NEW e \in 1 .. n + m, NEW f \in 1 .. n + m, e < f
       PROVE  emitted'[e].last < emitted'[f].first
  <2>1. CASE f <= n
    <3>1. e \in 1 .. n /\ f \in 1 .. n
      BY <1>6, <1>13, <2>1
    <3> QED
      BY <1>6, <1>13, <1>p, <3>1
  <2>2. CASE e <= n /\ n < f
    <3>1. e \in 1 .. n /\ emitted'[e] = emitted[e]
      BY <1>6, <2>2
    <3>2. emitted[e].last \in emitted[e].first .. read /\ emitted[e].first \in 1 .. read
      BY <1>p, <3>1
    <3>3. f - n \in 1 .. m /\ f = n + (f - n)
      BY <2>2
    <3>4. PICK i \in 1 .. m : emitted'[f] = Q[i]
      BY <1>6, <3>3
    <3>5. Q[i].first \in a .. upto
      BY <1>5
    <3> QED
      BY <1>2, <1>4, <3>1, <3>2, <3>4, <3>5
  <2>3. CASE n < e
    <3>1. PICK i \in 1 .. m, j \in 1 .. m : e = n + i /\ f = n + j
      <4>1. e - n \in 1 .. m /\ f - n \in 1 .. m /\ e = n + (e - n) /\ f = n + (f - n)
        BY <1>13, <2>3
      <4> QED
        BY <4>1
    <3>2. i < j
      BY <1>13, <3>1
    <3>3. emitted'[e] = Q[i] /\ emitted'[f] = Q[j]
      BY <1>6, <3>1
    <3> QED
      BY <1>5, <3>2, <3>3
  <2> QED
    BY <2>1, <2>2, <2>3
<1>14. PICK k \in Nat : k = n + m /\ k # 0
  BY <1>5
<1> QED
  BY <1>1, <1>6, <1>8, <1>10, <1>11, <1>12, <1>13, <1>14 DEF Pieced

LEMMA PiecedInvariant == Spec => []Pieced
<1>1. Inv /\ Pieced /\ [Next]_vars => Pieced'
  <2> SUFFICES ASSUME Inv, Pieced, [Next]_vars PROVE Pieced'
    OBVIOUS
  <2>1. ReadOutput \/ UNCHANGED <<emitted, read, line>>
    BY DEF Next, RunStep, ChildWrites, ChildEnds, TestAlive, ExpectReturns, Poll,
           DispatchEvent, CloseStdout, UpdateGivesUp, ReadCancelFlag, SaveResult,
           HandleWorkError, Cancel, worker, vars
  <2>2. UNCHANGED <<emitted, read, line>> => Pieced'
    BY DEF Pieced
  <2> QED
    BY <2>1, <2>2, PiecedRead
<1> QED
  BY <1>1, PiecedInit, Invariant, PTL DEF Spec

LEMMA StartsAreNumbers ==
    ASSUME Inv, Pieced, NEW e \in 1 .. Len(emitted)
    PROVE  emitted[e].start \in Int
<1>1. PICK n \in Nat : n = Len(emitted)
  BY OutputAssumption DEF Inv, Typed, JobTyped
<1>2. emitted[e].first \in 1 .. read /\ emitted[e].start = Newlines(1, emitted[e].first - 1)
  BY <1>1 DEF Pieced
<1>3. PICK b \in Nat : b = emitted[e].first - 1
  BY <1>2, OutputAssumption DEF Inv, Typed, JobTyped
<1>4. Newlines(1, b) \in Nat
  <2>1. b <= b
    OBVIOUS
  <2> QED
    BY <2>1, NewlinesAdd
<1> QED
  BY <1>2, <1>3, <1>4

\* Of whole lines no two events start in the same one.
LEMMA LinesApart ==
    ASSUME Inv, Pieced, LinesRead,
           NEW e \in 1 .. Len(emitted), NEW f \in 1 .. Len(emitted), e < f
    PROVE  emitted[e].start < emitted[f].start
<1>1. PICK n \in Nat : n = Len(emitted)
  BY OutputAssumption DEF Inv, Typed, JobTyped
<1>2. e \in 1 .. n /\ f \in 1 .. n /\ e # n /\ read \in Nat
  BY <1>1, OutputAssumption DEF Inv, Typed, JobTyped
<1>3. /\ emitted[e].first \in 1 .. read /\ emitted[f].first \in 1 .. read
      /\ emitted[e].last \in emitted[e].first .. read
      /\ emitted[e].start = Newlines(1, emitted[e].first - 1)
      /\ emitted[f].start = Newlines(1, emitted[f].first - 1)
      /\ emitted[e].last < emitted[f].first
  BY <1>1, <1>2 DEF Pieced
<1>4. emitted[e].last \in LineEnds
  <2>1. DOMAIN emitted = 1 .. n
    BY <1>1 DEF Inv, Typed, JobTyped, Emitted
  <2> QED
    BY <1>1, <1>2, <2>1 DEF LinesRead
<1>5. PICK b \in Nat, c \in Nat, u \in LineEnds :
        /\ b = emitted[e].first - 1 /\ c = emitted[f].first - 1 /\ u = emitted[e].last
        /\ b < u /\ u <= c
  <2>1. emitted[e].first - 1 \in Nat /\ emitted[f].first - 1 \in Nat
    BY <1>2, <1>3
  <2>2. emitted[e].first - 1 < emitted[e].last /\ emitted[e].last <= emitted[f].first - 1
    BY <1>2, <1>3
  <2> QED
    BY <1>4, <2>1, <2>2
<1> QED
  BY <1>3, <1>5, NewlinesMore

\* Numbers that are put into their order stand where they are.
LEMMA OwnPlaces ==
    ASSUME NEW n \in Nat, NEW q \in Bijection(1 .. n, 1 .. n),
           \A i, j \in 1 .. n : i < j => q[i] < q[j]
    PROVE  /\ n > 0 => q[1] = 1 /\ q[n] = n
           /\ \A i \in 2 .. n : q[i] = q[i - 1] + 1
<1>1. /\ \A i \in 1 .. n : q[i] \in 1 .. n
      /\ \A e \in 1 .. n : \E k \in 1 .. n : q[k] = e
  BY DEF Bijection, Injection, Surjection
<1>2. ASSUME n > 0 PROVE q[1] = 1 /\ q[n] = n
  <2>1. PICK k \in 1 .. n : q[k] = 1
    BY <1>1, <1>2
  <2>2. PICK m \in 1 .. n : q[m] = n
    BY <1>1, <1>2
  <2>3. 1 \in 1 .. n /\ n \in 1 .. n /\ q[1] \in 1 .. n /\ q[n] \in 1 .. n
    BY <1>1, <1>2
  <2>4. k = 1
    BY <2>1, <2>3
  <2>5. m = n
    BY <2>2, <2>3
  <2> QED
    BY <2>1, <2>2, <2>4, <2>5
<1>3. ASSUME NEW i \in 2 .. n PROVE q[i] = q[i - 1] + 1
  <2>1. PICK h \in 1 .. n : h = i - 1
    OBVIOUS
  <2>2. i \in 1 .. n /\ h < i /\ q[h] < q[i] /\ q[h] \in 1 .. n /\ q[i] \in 1 .. n
    BY <1>1, <2>1
  <2>3. PICK k \in 1 .. n : q[k] = q[h] + 1
    <3>1. q[h] + 1 \in 1 .. n
      BY <2>2
    <3> QED
      BY <1>1, <3>1
  <2>4. q[h] < q[k]
    BY <2>2, <2>3
  <2>5. ~(k <= h)
    <3>1. k < h => q[k] < q[h]
      OBVIOUS
    <3>2. k = h => q[k] = q[h]
      OBVIOUS
    <3>3. ~(k < h) /\ k # h
      BY <2>2, <2>3, <3>1, <3>2
    <3> QED
      BY <3>3
  <2>6. ~(i < k)
    BY <2>2, <2>3
  <2>7. k = i
    BY <2>1, <2>5, <2>6
  <2> QED
    BY <2>1, <2>3, <2>7
<1> QED
  BY <1>2, <1>3

\* Where no read but the last ended inside a line, the rows of a finished job in
\* the order of their start_line are the output that was read, whichever worker
\* saved which event first and however the database orders rows of one line
\* (Job.result_stdout_raw_handle): two events never share a line, and the two
\* characters that OutputEventFilter cuts from each are its line end.  Of a line
\* that has not ended they are text, and the last of it is missing.
THEOREM LinesAreKept == Spec => []StdoutKeepsLines
<1>1. Inv /\ Pieced /\ FinishedMeansAllSaved => StdoutKeepsLines
  <2> SUFFICES ASSUME Inv, Pieced, FinishedMeansAllSaved, LinesRead,
                      EventProcessingFinished, pc = "done", ~Duplicated,
                      NEW q \in Stdout
               PROVE  Whole(q, Cardinality(SavedEvents), Kept(read))
    BY DEF StdoutKeepsLines
  <2>1. PICK n \in Nat : n = Len(emitted)
    BY OutputAssumption DEF Inv, Typed, JobTyped
  <2>2. SavedEvents = 1 .. n
    BY <2>1 DEF FinishedMeansAllSaved
  <2>3. Cardinality(SavedEvents) = n
    <3>1. Cardinality(1 .. n) = n
      BY FS_Interval
    <3> QED
      BY <2>2, <3>1
  <2>4. q \in Bijection(1 .. n, 1 .. n) /\ LineOrder(q) /\ DOMAIN q = 1 .. n
    <3>1. q \in Bijection(1 .. n, 1 .. n) /\ LineOrder(q)
      BY <2>2, <2>3 DEF Stdout
    <3> QED
      BY <3>1 DEF Bijection, Injection
  <2>5. ASSUME NEW i \in 1 .. n, NEW j \in 1 .. n, i < j PROVE q[i] < q[j]
    <3>1. q[i] \in 1 .. n /\ q[j] \in 1 .. n /\ q[i] # q[j]
      BY <2>4, <2>5 DEF Bijection, Injection, IsInjective
    <3>2. emitted[q[i]].start <= emitted[q[j]].start
      BY <2>4, <2>5 DEF LineOrder
    <3>3. ASSUME q[j] < q[i] PROVE FALSE
      <4>1. emitted[q[j]].start < emitted[q[i]].start
        BY <2>1, <3>1, <3>3, LinesApart
      <4>2. emitted[q[i]].start \in Int /\ emitted[q[j]].start \in Int
        BY <2>1, <3>1, StartsAreNumbers
      <4> QED
        BY <3>2, <4>1, <4>2
    <3> QED
      BY <3>1, <3>3
  <2>6. /\ n > 0 => q[1] = 1 /\ q[n] = n
        /\ \A i \in 2 .. n : q[i] = q[i - 1] + 1
    BY <2>4, <2>5, OwnPlaces
  <2>7. ASSUME NEW i \in 1 .. n
        PROVE  emitted[q[i]].first = IF i = 1 THEN 1 ELSE emitted[q[i - 1]].kept + 1
    <3>1. CASE i = 1
      BY <2>1, <2>6, <3>1 DEF Pieced
    <3>2. CASE i # 1
      <4>1. i \in 2 .. n /\ i - 1 \in 1 .. n
        BY <3>2
      <4>2. PICK e \in 1 .. n : e = q[i - 1]
        BY <2>4, <4>1 DEF Bijection, Injection
      <4>3. q[i] = e + 1 /\ e + 1 \in 1 .. n
        <5>1. q[i] \in 1 .. n
          BY <2>4 DEF Bijection, Injection
        <5> QED
          BY <2>6, <4>1, <4>2, <5>1
      <4>4. emitted[e + 1].first = emitted[e].last + 1
        <5>1. PICK g \in 2 .. n : g = e + 1 /\ e = g - 1
          BY <4>2, <4>3
        <5>2. emitted[g].first = emitted[g - 1].last + 1
          BY <2>1, <5>1 DEF Pieced
        <5> QED
          BY <5>1, <5>2
      <4>5. emitted[e].kept = emitted[e].last
        <5>1. e # n /\ DOMAIN emitted = 1 .. n
          BY <2>1, <4>2, <4>3 DEF Inv, Typed, JobTyped, Emitted
        <5>2. emitted[e].last \in LineEnds
          BY <2>1, <4>2, <5>1 DEF LinesRead
        <5>3. emitted[e].kept = Kept(emitted[e].last)
          BY <2>1, <4>2 DEF Pieced
        <5> QED
          BY <5>2, <5>3 DEF Kept
      <4> QED
        BY <3>2, <4>2, <4>3, <4>4, <4>5
    <3> QED
      BY <3>1, <3>2
  <2>8. Kept(read) = IF n = 0 THEN 0 ELSE emitted[q[n]].kept
    <3>1. CASE n = 0
      BY <2>1, <3>1 DEF Pieced, Kept
    <3>2. CASE n # 0
      <4>1. n \in 1 .. n
        BY <3>2
      <4>2. emitted[n].last = read /\ emitted[n].kept = Kept(emitted[n].last)
        BY <2>1, <3>2, <4>1 DEF Pieced
      <4> QED
        BY <2>6, <3>2, <4>2
    <3> QED
      BY <3>1, <3>2
  <2> QED
    BY <2>3, <2>7, <2>8 DEF Whole
<1> QED
  BY <1>1, Invariant, PiecedInvariant, AllEventsSaved, PTL

=============================================================================
