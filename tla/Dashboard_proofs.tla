--------------------------- MODULE Dashboard_proofs ---------------------------
(***************************************************************************)
(* For every capacity and limit and any number of requests: the history    *)
(* keeps the latest traces, the dashboard's rows catch up with it, the     *)
(* cursor stays on its trace, and a dashboard at rest shows the history.   *)
(*                                                                         *)
(* A change is published while the lock is held, so the newest state of a  *)
(* trace is behind every older one in the queue (NewestLast).  That is why *)
(* a row is never out of date for good: a change handled later than        *)
(* another one is not older.  RowsCatchUp needs it.                        *)
(*                                                                         *)
(* That the rows are the right ones, in the right order, is a second       *)
(* invariant over the order of the requests in begun (OrderInv).           *)
(***************************************************************************)
EXTENDS Dashboard, SequenceTheorems, FiniteSetTheorems, TLAPS

(***************************************************************************)
(* What the proofs look at of a trace.                                     *)
(***************************************************************************)
\* Its ID.
IdOf(trace) == trace.id
\* The number of its changes.
UpdatesOf(trace) == trace.updates
\* Finish has run.
IsFinished(trace) == trace.finished = TRUE

\* The request has its trace in the history, or had.
Known(id) == pc[id] \notin {"new", "append"}

\* What is on its way to the list: the change received and the channel.
Queue == message \o events

\* No two elements of s have the same ID.
Alike(s) == \A i, j \in 1..Len(s) : IdOf(s[i]) = IdOf(s[j]) => i = j

-----------------------------------------------------------------------------
(***************************************************************************)
(* The parts of the inductive invariant.                                   *)
(***************************************************************************)
\* The history is the end of begun, and its traces say where their requests
\* are.  A request has a trace after the critical section that appends it.
HistoryInv ==
  /\ \A id \in IDs : id > nextID => pc[id] = "new"
  /\ \A k \in 1..Len(begun) : Known(begun[k])
  /\ Len(traces) = IF Len(begun) < Limit THEN Len(begun) ELSE Limit
  /\ \A i \in 1..Len(traces) :
       /\ IdOf(traces[i]) = begun[Len(begun) - Len(traces) + i]
       /\ IsFinished(traces[i]) <=> pc[IdOf(traces[i])] = "done"
       /\ pc[IdOf(traces[i])] = "publish" => traces[i] = NewTrace(IdOf(traces[i]))

\* There is a subscription while RunDashboard runs and no channel without it;
\* the loop waits for the next change only when it has handled the last.
LoopInv ==
  /\ subscribed <=> screen \in {"subscribed", "running"}
  /\ ~subscribed => events = <<>>
  /\ screen # "running" => message = <<>> /\ ~waiting
  /\ waiting => message = <<>>

\* Only requests that have entered the history are shown or on their way.
KnownInv ==
  /\ \A i \in 1..Len(shown) : Known(IdOf(shown[i]))
  /\ \A k \in 1..Len(Queue) : Known(IdOf(Queue[k]))

\* The newest state of a trace is behind every older one.
NewestLast ==
  \A k \in 1..Len(Queue), j \in 1..Len(traces) :
    IdOf(Queue[k]) = IdOf(traces[j]) =>
      \/ IdOf(traces[j]) \in dropped
      \/ \E m \in 1..Len(Queue) : k <= m /\ Queue[m] = traces[j]

\* A row is its trace, or the newest state of the trace is on its way.
RowsCatchUp ==
  screen = "running" =>
    \A i \in 1..Len(shown), j \in 1..Len(traces) :
      IdOf(shown[i]) = IdOf(traces[j]) =>
        \/ shown[i] = traces[j]
        \/ IdOf(traces[j]) \in dropped
        \/ \E m \in 1..Len(Queue) : Queue[m] = traces[j]

\* The invariant of the history and of the rows.
Inv == TypeOK /\ HistoryInv /\ LoopInv /\ KnownInv /\ NewestLast /\ RowsCatchUp

-----------------------------------------------------------------------------
\* A trace that Begin makes.
LEMMA NewTraceFields ==
  ASSUME NEW id \in IDs
  PROVE  /\ NewTrace(id) \in Trace /\ IdOf(NewTrace(id)) = id /\ ~IsFinished(NewTrace(id))
         /\ UpdatesOf(NewTrace(id)) = 0
BY DebuggerAssumption DEF NewTrace, Trace, IdOf, IsFinished, UpdatesOf

\* The fields of a trace have their types.
LEMMA TraceFields ==
  ASSUME NEW trace \in Trace
  PROVE  IdOf(trace) \in IDs /\ UpdatesOf(trace) \in 0..MaxUpdates
BY DEF Trace, IdOf, UpdatesOf

\* What the two kinds of change do to a trace.
LEMMA ChangedFields ==
  ASSUME NEW trace \in Trace
  PROVE  /\ UpdatesOf(trace) < MaxUpdates =>
              LET more == [trace EXCEPT !.updates = @ + 1]
              IN  /\ more \in Trace /\ IdOf(more) = IdOf(trace)
                  /\ IsFinished(more) <=> IsFinished(trace)
         /\ LET ended == [trace EXCEPT !.finished = TRUE]
            IN  ended \in Trace /\ IdOf(ended) = IdOf(trace) /\ IsFinished(ended)
<1>1. /\ trace = [id |-> trace.id, updates |-> trace.updates, finished |-> trace.finished]
      /\ trace.id \in IDs /\ trace.updates \in 0..MaxUpdates /\ trace.finished \in BOOLEAN
      /\ MaxUpdates \in Nat
  BY DebuggerAssumption DEF Trace
<1>2. [trace EXCEPT !.updates = @ + 1] =
        [id |-> trace.id, updates |-> trace.updates + 1, finished |-> trace.finished]
  BY DEF Trace
<1>3. [trace EXCEPT !.finished = TRUE] \in Trace
  BY DEF Trace
<1>5. /\ [trace EXCEPT !.finished = TRUE].id = trace.id
      /\ [trace EXCEPT !.finished = TRUE].finished = TRUE
  BY <1>1
<1>4. UpdatesOf(trace) < MaxUpdates => trace.updates + 1 \in 0..MaxUpdates
  BY <1>1 DEF UpdatesOf
<1> QED
  BY <1>1, <1>2, <1>3, <1>4, <1>5 DEF Trace, IdOf, IsFinished

\* t is s with e behind it, and without its first element when s was full.
Rolled(s, e, t) ==
  \E d \in {0, 1} :
    /\ d = 1 <=> Len(s) = Limit
    /\ Len(t) = Len(s) + 1 - d /\ Len(t) <= Limit
    /\ t[Len(t)] = e
    /\ \A i \in 1..Len(t) : i # Len(t) => i + d \in 1..Len(s) /\ t[i] = s[i + d]

\* The history with a new trace has lost at most its oldest one.
LEMMA AppendRolls ==
  ASSUME NEW S, NEW s \in Seq(S), Len(s) <= Limit, NEW e \in S
  PROVE  Latest(Append(s, e)) \in Seq(S) /\ Rolled(s, e, Latest(Append(s, e)))
<1> DEFINE u == Append(s, e)
           t == Latest(u)
<1>1. /\ u \in Seq(S) /\ Len(u) = Len(s) + 1 /\ u[Len(s) + 1] = e
      /\ \A i \in 1..Len(s) : u[i] = s[i]
      /\ Len(s) \in Nat /\ Limit \in Nat /\ Limit > 0
  BY AppendProperties, LenProperties, DebuggerAssumption
<1> HIDE DEF u
<1>2. CASE Len(s) = Limit
  <2>1. t = Tail(u) /\ u # <<>>
    BY <1>1, <1>2, EmptySeq DEF Latest
  <2>2. /\ t \in Seq(S) /\ Len(t) = Len(u) - 1
        /\ \A i \in 1..Len(t) : t[i] = u[i + 1]
    BY <1>1, <2>1, HeadTailProperties
  <2> HIDE DEF t
  <2>3. /\ Len(t) = Len(s) /\ t[Len(t)] = e
        /\ \A i \in 1..Len(t) : i # Len(t) => i + 1 \in 1..Len(s) /\ t[i] = s[i + 1]
    BY <1>1, <1>2, <2>2
  <2> QED
    BY <1>1, <1>2, <2>2, <2>3 DEF Rolled, u, t
<1>3. CASE Len(s) # Limit
  <2>1. t = u
    BY <1>1, <1>3 DEF Latest
  <2>2. /\ Len(t) = Len(s) + 1 /\ t[Len(t)] = e
        /\ \A i \in 1..Len(t) : i # Len(t) => i + 0 \in 1..Len(s) /\ t[i] = s[i + 0]
    BY <1>1, <2>1
  <2> HIDE DEF t
  <2> QED
    BY <1>1, <1>3, <2>1, <2>2 DEF Rolled, u, t
<1> QED
  BY <1>2, <1>3

\* t is s with trace in the place of the trace with its ID.
Replaced(s, trace, t) ==
  /\ t \in Seq(Trace) /\ Len(t) = Len(s)
  /\ \A i \in 1..Len(s) :
       /\ IdOf(t[i]) = IdOf(s[i])
       /\ IdOf(s[i]) = IdOf(trace) => t[i] = trace
       /\ IdOf(s[i]) # IdOf(trace) => t[i] = s[i]

\* A trace that is changed in a list takes the place it had.
LEMMA ReplaceTrace ==
  ASSUME NEW s \in Seq(Trace), NEW trace \in Trace
  PROVE  Replaced(s, trace, [i \in DOMAIN s |-> IF s[i].id = trace.id THEN trace ELSE s[i]])
<1> DEFINE t == [i \in DOMAIN s |-> IF s[i].id = trace.id THEN trace ELSE s[i]]
<1>1. /\ Len(s) \in Nat /\ DOMAIN s = 1..Len(s)
      /\ \A i \in 1..Len(s) : s[i] \in Trace
  BY LenProperties, ElementOfSeq
<1>2. t = [i \in 1..Len(s) |-> IF s[i].id = trace.id THEN trace ELSE s[i]]
  BY <1>1
<1>3. t \in Seq(Trace) /\ Len(t) = Len(s)
  BY <1>1, <1>2
<1>4. \A i \in 1..Len(s) : /\ s[i].id = trace.id => t[i] = trace
                           /\ s[i].id # trace.id => t[i] = s[i]
  BY <1>2
<1> HIDE DEF t
<1>5. \A i \in 1..Len(s) : IdOf(t[i]) = IdOf(s[i])
  BY <1>4 DEF IdOf
<1> QED
  BY <1>3, <1>4, <1>5 DEF Replaced, IdOf, t

\* The elements of two queues in a row.
LEMMA QueueElements ==
  ASSUME NEW a \in Seq(Trace), NEW b \in Seq(Trace)
  PROVE  /\ a \o b \in Seq(Trace) /\ Len(a \o b) = Len(a) + Len(b)
         /\ \A k \in 1..Len(a) : (a \o b)[k] = a[k]
         /\ \A k \in 1..Len(b) : (a \o b)[Len(a) + k] = b[k]
<1>1. Len(a) \in Nat /\ Len(b) \in Nat
  BY LenProperties
<1> QED
  BY <1>1, ConcatProperties

-----------------------------------------------------------------------------
\* The sequences of the state and their elements.
LEMMA Sequences ==
  ASSUME TypeOK
  PROVE  /\ traces \in Seq(Trace) /\ Len(traces) \in Nat
         /\ begun \in Seq(IDs) /\ Len(begun) \in Nat
         /\ shown \in Seq(Trace) /\ Len(shown) \in Nat
         /\ message \in Seq(Trace) /\ Len(message) \in Nat
         /\ events \in Seq(Trace) /\ Len(events) \in Nat
         /\ Queue \in Seq(Trace) /\ Len(Queue) = Len(message) + Len(events)
         /\ \A i \in 1..Len(traces) : traces[i] \in Trace /\ IdOf(traces[i]) \in IDs
         /\ \A k \in 1..Len(begun) : begun[k] \in IDs
         /\ \A i \in 1..Len(shown) : shown[i] \in Trace /\ IdOf(shown[i]) \in IDs
         /\ \A k \in 1..Len(Queue) : Queue[k] \in Trace /\ IdOf(Queue[k]) \in IDs
<1>1. /\ traces \in Seq(Trace) /\ begun \in Seq(IDs) /\ shown \in Seq(Trace)
      /\ message \in Seq(Trace) /\ events \in Seq(Trace)
  BY DEF TypeOK, DebuggerTypeOK
<1>2. Queue \in Seq(Trace) /\ Len(Queue) = Len(message) + Len(events)
  BY <1>1, QueueElements DEF Queue
<1>3. /\ Len(traces) \in Nat /\ Len(begun) \in Nat /\ Len(shown) \in Nat
      /\ Len(message) \in Nat /\ Len(events) \in Nat
  BY <1>1, LenProperties
<1>4. /\ \A i \in 1..Len(traces) : traces[i] \in Trace
      /\ \A k \in 1..Len(begun) : begun[k] \in IDs
      /\ \A i \in 1..Len(shown) : shown[i] \in Trace
      /\ \A k \in 1..Len(Queue) : Queue[k] \in Trace
  BY <1>1, <1>2, ElementOfSeq
<1>5. \A t \in Trace : IdOf(t) \in IDs
  BY TraceFields
<1> QED
  BY <1>1, <1>2, <1>3, <1>4, <1>5

\* No request has two traces.
LEMMA TracesAlike ==
  ASSUME TypeOK, HistoryInv
  PROVE  Alike(traces)
<1>1. /\ begun \in Seq(IDs) /\ Len(begun) \in Nat /\ Len(traces) \in Nat
      /\ Len(traces) <= Len(begun)
  BY Sequences, DebuggerAssumption DEF HistoryInv
<1>2. \A k, l \in 1..Len(begun) : begun[k] = begun[l] => k = l
  <2>1. DOMAIN begun = 1..Len(begun)
    BY <1>1, LenProperties
  <2> QED
    BY <2>1 DEF TypeOK, DebuggerTypeOK, IsInjective
<1>3. ASSUME NEW i \in 1..Len(traces), NEW j \in 1..Len(traces),
             IdOf(traces[i]) = IdOf(traces[j])
      PROVE  i = j
  <2> DEFINE b == Len(begun) - Len(traces)
  <2>1. begun[b + i] = begun[b + j] /\ b + i \in 1..Len(begun) /\ b + j \in 1..Len(begun)
    BY SMTT(30), <1>1, <1>3 DEF HistoryInv
  <2>2. b + i = b + j
    BY <1>2, <2>1
  <2> QED
    BY <1>1, <2>2
<1> QED
  BY <1>3 DEF Alike

\* The trace that update finds by the ID is the only one with it.
LEMMA RetainedTrace ==
  ASSUME TypeOK, HistoryInv, NEW id \in IDs, Retained(id)
  PROVE  /\ TraceOf(id) \in Trace /\ IdOf(TraceOf(id)) = id
         /\ \A i \in 1..Len(traces) : IdOf(traces[i]) = id => traces[i] = TraceOf(id)
<1>1. DOMAIN traces = 1..Len(traces)
  BY Sequences, LenProperties
<1>2. PICK i \in 1..Len(traces) : TraceOf(id) = traces[i] /\ traces[i].id = id
  BY <1>1 DEF Retained, TraceOf
<1>3. \A j \in 1..Len(traces) : IdOf(traces[j]) = id => j = i
  BY <1>2, TracesAlike DEF Alike, IdOf
<1> QED
  BY <1>2, <1>3, Sequences DEF IdOf

-----------------------------------------------------------------------------
\* trace joins the queue q.
Joins(q, trace, new) ==
  /\ Len(new) = Len(q) + 1 /\ new[Len(q) + 1] = trace
  /\ \A k \in 1..Len(q) : new[k] = q[k]

\* What becomes of a change that is published.
Outcome(trace) ==
  /\ events' \in Seq(Trace) /\ Len(events') <= Capacity
  /\ \/ /\ subscribed /\ Joins(Queue, trace, Queue')
        /\ dropped' = dropped \ {IdOf(trace)}
     \/ subscribed /\ events' = events /\ dropped' = dropped \cup {IdOf(trace)}
     \/ ~subscribed /\ events' = events /\ dropped' = dropped

\* publishLocked sends the change, drops it, or has nobody to send it to.
LEMMA PublishOutcome ==
  ASSUME TypeOK, NEW trace \in Trace, Publish(trace), message' = message
  PROVE  Outcome(trace)
<1>1. /\ events \in Seq(Trace) /\ message \in Seq(Trace) /\ Len(events) \in Nat
      /\ Len(message) \in Nat /\ Capacity \in Nat /\ Len(events) <= Capacity
  BY Sequences, DebuggerAssumption DEF TypeOK, DebuggerTypeOK
<1>2. CASE subscribed /\ Len(events) < Capacity
  <2>1. events' = Append(events, trace) /\ dropped' = dropped \ {trace.id}
    BY <1>2 DEF Publish
  <2>2. /\ events' \in Seq(Trace) /\ Len(events') = Len(events) + 1
        /\ events'[Len(events) + 1] = trace
        /\ \A k \in 1..Len(events) : events'[k] = events[k]
    BY <1>1, <2>1, AppendProperties
  <2>3. Len(events') <= Capacity
    BY <1>1, <1>2, <2>2
  <2>4. /\ Len(Queue) = Len(message) + Len(events)
        /\ \A k \in 1..Len(message) : Queue[k] = message[k]
        /\ \A k \in 1..Len(events) : Queue[Len(message) + k] = events[k]
    BY <1>1, QueueElements DEF Queue
  <2>5. /\ Len(Queue') = Len(message) + Len(events')
        /\ \A k \in 1..Len(message) : Queue'[k] = message[k]
        /\ \A k \in 1..Len(events') : Queue'[Len(message) + k] = events'[k]
    <3>1. Queue' = message \o events'
      BY DEF Queue
    <3> QED
      BY <1>1, <2>2, <3>1, QueueElements
  <2>6. ASSUME NEW k \in 1..Len(Queue) PROVE Queue'[k] = Queue[k]
    <3>1. CASE k <= Len(message)
      BY <1>1, <2>4, <2>5, <3>1
    <3>2. CASE k > Len(message)
      <4>1. k - Len(message) \in 1..Len(events) /\ k = Len(message) + (k - Len(message))
        BY <1>1, <2>4, <3>2
      <4>2. k - Len(message) \in 1..Len(events')
        BY <1>1, <2>2, <4>1
      <4> QED
        BY ZenonT(60), <2>2, <2>4, <2>5, <4>1, <4>2
    <3> QED
      BY <1>1, <2>4, <3>1, <3>2
  <2>7. Len(Queue') = Len(Queue) + 1 /\ Queue'[Len(Queue) + 1] = trace
    <3>1. Len(events) + 1 \in 1..Len(events')
      BY <1>1, <2>2
    <3>2. Queue'[Len(message) + (Len(events) + 1)] = trace
      BY <2>2, <2>5, <3>1
    <3> QED
      BY <1>1, <2>2, <2>4, <2>5, <3>2
  <2> QED
    BY <1>2, <2>1, <2>2, <2>3, <2>6, <2>7 DEF Outcome, Joins, IdOf
<1>3. CASE ~(subscribed /\ Len(events) < Capacity)
  BY <1>1, <1>3 DEF Publish, Outcome, IdOf
<1> QED
  BY <1>2, <1>3

\* A change that is published keeps the rows and the queue up with the history.
LEMMA PublishKeeps ==
  ASSUME Inv, NEW trace \in Trace, Publish(trace), Known(IdOf(trace)),
         Replaced(traces, trace, traces'),
         \A id \in IDs : Known(id) => pc'[id] \notin {"new", "append"},
         UNCHANGED <<screen, waiting, message, shown, subscribed>>
  PROVE  KnownInv' /\ NewestLast' /\ RowsCatchUp' /\ LoopInv'
<1>1. Outcome(trace)
  BY PublishOutcome DEF Inv
<1>2. /\ Len(traces') = Len(traces) /\ Len(Queue) \in Nat
      /\ \A j \in 1..Len(traces) :
           /\ IdOf(traces'[j]) = IdOf(traces[j])
           /\ IdOf(traces[j]) = IdOf(trace) => traces'[j] = trace
           /\ IdOf(traces[j]) # IdOf(trace) => traces'[j] = traces[j]
  BY Sequences, LenProperties DEF Replaced, Inv
<1>3. /\ \A i \in 1..Len(shown) : IdOf(shown[i]) \in IDs
      /\ \A k \in 1..Len(Queue) : IdOf(Queue[k]) \in IDs
      /\ IdOf(trace) \in IDs
  BY Sequences, TraceFields DEF Inv
<1>4. LoopInv'
  BY <1>1 DEF Outcome, Inv, LoopInv
<1>5. CASE Joins(Queue, trace, Queue') /\ dropped' = dropped \ {IdOf(trace)}
  <2>1. /\ Len(Queue') = Len(Queue) + 1 /\ Queue'[Len(Queue) + 1] = trace
        /\ \A k \in 1..Len(Queue) : Queue'[k] = Queue[k] /\ k \in 1..Len(Queue')
        /\ \A k \in 1..Len(Queue') : k \in 1..Len(Queue) \/ k = Len(Queue) + 1
        /\ Len(Queue) + 1 \in 1..Len(Queue')
        /\ \A k \in 1..Len(Queue') : k <= Len(Queue) + 1
    BY <1>2, <1>5 DEF Joins
  <2>2. KnownInv'
    <3>1. \A i \in 1..Len(shown') : pc'[IdOf(shown'[i])] \notin {"new", "append"}
      BY <1>3 DEF Inv, KnownInv
    <3>2. ASSUME NEW k \in 1..Len(Queue') PROVE pc'[IdOf(Queue'[k])] \notin {"new", "append"}
      BY <1>3, <2>1 DEF Inv, KnownInv
    <3> QED
      BY <3>1, <3>2 DEF KnownInv, Known
  <2>3. NewestLast'
    <3> SUFFICES ASSUME NEW k \in 1..Len(Queue'), NEW j \in 1..Len(traces'),
                        IdOf(Queue'[k]) = IdOf(traces'[j]), IdOf(traces'[j]) \notin dropped'
                 PROVE  \E m \in 1..Len(Queue') : k <= m /\ Queue'[m] = traces'[j]
      BY DEF NewestLast
    <3>1. CASE IdOf(traces[j]) = IdOf(trace)
      BY <1>2, <2>1, <3>1
    <3>2. CASE IdOf(traces[j]) # IdOf(trace)
      <4>1. k \in 1..Len(Queue) /\ IdOf(Queue[k]) = IdOf(traces[j]) /\ j \in 1..Len(traces)
            /\ IdOf(traces[j]) \notin dropped /\ traces'[j] = traces[j]
        BY <1>2, <1>5, <2>1, <3>2
      <4>2. PICK m \in 1..Len(Queue) : k <= m /\ Queue[m] = traces[j]
        BY <4>1 DEF Inv, NewestLast
      <4> QED
        BY <2>1, <4>1, <4>2
    <3> QED
      BY <3>1, <3>2
  <2>4. RowsCatchUp'
    <3> SUFFICES ASSUME screen' = "running", NEW i \in 1..Len(shown'), NEW j \in 1..Len(traces'),
                        IdOf(shown'[i]) = IdOf(traces'[j]), IdOf(traces'[j]) \notin dropped'
                 PROVE  \/ shown'[i] = traces'[j]
                        \/ \E m \in 1..Len(Queue') : Queue'[m] = traces'[j]
      BY DEF RowsCatchUp
    <3>1. CASE IdOf(traces[j]) = IdOf(trace)
      BY <1>2, <2>1, <3>1
    <3>2. CASE IdOf(traces[j]) # IdOf(trace)
      <4>1. IdOf(shown[i]) = IdOf(traces[j]) /\ j \in 1..Len(traces) /\ i \in 1..Len(shown)
            /\ IdOf(traces[j]) \notin dropped /\ traces'[j] = traces[j]
        BY <1>2, <1>5, <3>2
      <4>2. \/ shown[i] = traces[j]
            \/ \E m \in 1..Len(Queue) : Queue[m] = traces[j]
        BY <4>1 DEF Inv, RowsCatchUp
      <4> QED
        BY <2>1, <4>1, <4>2
    <3> QED
      BY <3>1, <3>2
  <2> QED
    BY <1>4, <2>2, <2>3, <2>4
<1>6. CASE events' = events /\ dropped' = dropped \cup {IdOf(trace)}
  <2>1. Queue' = Queue
    BY <1>6 DEF Queue
  <2>2. KnownInv'
    BY <1>3, <2>1 DEF Inv, KnownInv, Known
  <2>3. NewestLast'
    BY <1>2, <1>6, <2>1 DEF Inv, NewestLast
  <2>4. RowsCatchUp'
    BY <1>2, <1>6, <2>1 DEF Inv, RowsCatchUp
  <2> QED
    BY <1>4, <2>2, <2>3, <2>4
<1>7. CASE ~subscribed /\ events' = events /\ dropped' = dropped
  <2>1. Queue' = Queue
    BY <1>7 DEF Queue
  <2>2. KnownInv'
    BY <1>3, <2>1 DEF Inv, KnownInv, Known
  <2>3. events = <<>> /\ message = <<>> /\ screen' # "running"
    BY <1>7 DEF Inv, LoopInv
  <2>4. Len(Queue) = 0
    BY <2>3, Sequences DEF Inv
  <2>5. NewestLast'
    BY <2>1, <2>4 DEF NewestLast
  <2>6. RowsCatchUp'
    BY <2>3 DEF RowsCatchUp
  <2> QED
    BY <1>4, <2>2, <2>5, <2>6
<1> QED
  BY <1>1, <1>5, <1>6, <1>7 DEF Outcome

\* An update keeps the invariant: a change to a trace in the history, or to one
\* that has left it.
LEMMA UpdateKeepsInv ==
  ASSUME Inv, NEW id \in IDs, pc[id] = "serve", NEW trace, Update(id, trace),
         Retained(id) => /\ trace \in Trace /\ IdOf(trace) = id
                         /\ IsFinished(trace) <=> pc'[id] = "done",
         pc' \in [IDs -> {"new", "append", "publish", "serve", "done"}],
         pc'[id] \in {"serve", "done"}, \A x \in IDs : x # id => pc'[x] = pc[x],
         UNCHANGED <<nextID, subscribed, begun, announced, screen, waiting, message, shown,
                     selected>>,
         calmStart' \in BOOLEAN
  PROVE  Inv'
<1>1. /\ \A x \in IDs : Known(x) => pc'[x] \notin {"new", "append"}
      /\ \A x \in IDs : x > nextID => pc'[x] = "new"
      /\ \A k \in 1..Len(begun) : pc'[begun[k]] \notin {"new", "append"}
  BY Sequences DEF Inv, HistoryInv, Known
<1>2. CASE Retained(id)
  <2>1. trace \in Trace /\ IdOf(trace) = id /\ (IsFinished(trace) <=> pc'[id] = "done")
    BY <1>2
  <2>2. Publish(trace) /\ Replaced(traces, trace, traces')
    <3>1. /\ traces' = [i \in DOMAIN traces |->
                          IF traces[i].id = trace.id THEN trace ELSE traces[i]]
          /\ Publish(trace)
      BY <1>2, <2>1 DEF Update, IdOf
    <3> QED
      BY <2>1, <3>1, Sequences, ReplaceTrace DEF Inv
  <2>3. KnownInv' /\ NewestLast' /\ RowsCatchUp' /\ LoopInv'
    <3>1. Known(IdOf(trace))
      BY <2>1 DEF Known
    <3> QED
      BY <1>1, <2>1, <2>2, <3>1, PublishKeeps
  <2>4. TypeOK'
    <3>1. Outcome(trace)
      BY <2>1, <2>2, PublishOutcome DEF Inv
    <3>2. events' \in Seq(Trace) /\ Len(events') <= Capacity /\ dropped' \subseteq IDs
      BY <2>1, <3>1 DEF Outcome, Inv, TypeOK, DebuggerTypeOK
    <3>3. traces' \in Seq(Trace) /\ Len(traces') <= Limit
      BY <2>2 DEF Replaced, Inv, TypeOK, DebuggerTypeOK
    <3> QED
      BY <3>2, <3>3 DEF Inv, TypeOK, DebuggerTypeOK
  <2>5. HistoryInv'
    <3>1. /\ Len(traces') = Len(traces)
          /\ \A i \in 1..Len(traces) :
               /\ IdOf(traces'[i]) = IdOf(traces[i])
               /\ IdOf(traces[i]) = id => traces'[i] = trace
               /\ IdOf(traces[i]) # id => traces'[i] = traces[i]
      BY <2>1, <2>2 DEF Replaced
    <3>2. ASSUME NEW i \in 1..Len(traces)
          PROVE  /\ IsFinished(traces'[i]) <=> pc'[IdOf(traces'[i])] = "done"
                 /\ pc'[IdOf(traces'[i])] = "publish" => traces'[i] = NewTrace(IdOf(traces'[i]))
      <4>1. IdOf(traces[i]) \in IDs
        BY Sequences DEF Inv
      <4>2. CASE IdOf(traces[i]) = id
        BY <2>1, <3>1, <4>2
      <4>3. CASE IdOf(traces[i]) # id
        BY <3>1, <4>1, <4>3 DEF Inv, HistoryInv
      <4> QED
        BY <4>2, <4>3
    <3> QED
      BY <1>1, <3>1, <3>2 DEF Inv, HistoryInv, Known
  <2> QED
    BY <2>3, <2>4, <2>5 DEF Inv
<1>3. CASE ~Retained(id)
  <2>1. UNCHANGED <<traces, events, dropped>>
    BY <1>3 DEF Update
  <2>2. TypeOK'
    BY <2>1 DEF Inv, TypeOK, DebuggerTypeOK
  <2>3. \A i \in 1..Len(traces) : IdOf(traces[i]) \in IDs /\ IdOf(traces[i]) # id
    BY <1>3, Sequences, LenProperties DEF Inv, Retained, IdOf
  <2>4. HistoryInv'
    BY <1>1, <2>1, <2>3 DEF Inv, HistoryInv, Known
  <2>5. LoopInv' /\ NewestLast' /\ RowsCatchUp'
    <3>1. LoopInv'
      BY <2>1 DEF Inv, LoopInv
    <3>2. NewestLast'
      <4>1. Queue' = Queue
        BY <2>1 DEF Queue
      <4>2. NewestLast
        BY DEF Inv
      <4> QED
        BY <2>1, <4>1, <4>2 DEF NewestLast
    <3>3. RowsCatchUp'
      BY <2>1 DEF Inv, RowsCatchUp, Queue
    <3> QED
      BY <3>1, <3>2, <3>3
  <2>6. KnownInv'
    <3>1. Queue' = Queue
      BY <2>1 DEF Queue
    <3> QED
      BY <1>1, <3>1, Sequences DEF Inv, KnownInv, Known
  <2> QED
    BY <2>2, <2>4, <2>5, <2>6 DEF Inv
<1> QED
  BY <1>2, <1>3

\* The steps of the requests, as the loop sees them.
Still == UNCHANGED <<screen, waiting, message, shown, selected>> /\ calmStart' \in BOOLEAN

\* A change before Finish keeps the invariant.
LEMMA RecordKeepsInv ==
  ASSUME Inv, Still, NEW id \in IDs, Record(id)
  PROVE  Inv'
<1> DEFINE trace == [TraceOf(id) EXCEPT !.updates = @ + 1]
<1>1. /\ pc[id] = "serve" /\ pc' = pc /\ Update(id, trace)
      /\ UNCHANGED <<nextID, subscribed, begun, announced>>
  BY DEF Record
<1>2. ASSUME Retained(id)
      PROVE  trace \in Trace /\ IdOf(trace) = id /\ (IsFinished(trace) <=> pc'[id] = "done")
  <2>1. /\ TraceOf(id) \in Trace /\ IdOf(TraceOf(id)) = id
        /\ \E i \in 1..Len(traces) : traces[i] = TraceOf(id)
    <3>1. \E i \in 1..Len(traces) : IdOf(traces[i]) = id
      BY <1>2, Sequences, LenProperties DEF Inv, Retained, IdOf
    <3> QED
      BY <1>2, <3>1, RetainedTrace DEF Inv
  <2>2. IsFinished(TraceOf(id)) <=> pc[id] = "done"
    BY <2>1 DEF Inv, HistoryInv
  <2>3. UpdatesOf(TraceOf(id)) < MaxUpdates
    BY <1>2 DEF Record, UpdatesOf
  <2> QED
    BY <1>1, <2>1, <2>2, <2>3, ChangedFields
<1> HIDE DEF trace
<1> QED
  BY <1>1, <1>2, UpdateKeepsInv DEF Still, Inv, TypeOK, DebuggerTypeOK

\* Finish keeps the invariant.
LEMMA FinishKeepsInv ==
  ASSUME Inv, Still, NEW id \in IDs, Finish(id)
  PROVE  Inv'
<1> DEFINE trace == [TraceOf(id) EXCEPT !.finished = TRUE]
<1>1. /\ pc[id] = "serve" /\ pc' = [pc EXCEPT ![id] = "done"] /\ Update(id, trace)
      /\ UNCHANGED <<nextID, subscribed, begun, announced>>
  BY DEF Finish
<1>2. /\ pc' \in [IDs -> {"new", "append", "publish", "serve", "done"}]
      /\ pc'[id] = "done" /\ \A x \in IDs : x # id => pc'[x] = pc[x]
  BY <1>1 DEF Inv, TypeOK, DebuggerTypeOK
<1>3. ASSUME Retained(id)
      PROVE  trace \in Trace /\ IdOf(trace) = id /\ (IsFinished(trace) <=> pc'[id] = "done")
  <2>1. TraceOf(id) \in Trace /\ IdOf(TraceOf(id)) = id
    BY <1>3, RetainedTrace DEF Inv
  <2> QED
    BY <1>2, <2>1, ChangedFields
<1> HIDE DEF trace
<1> QED
  BY <1>1, <1>2, <1>3, UpdateKeepsInv DEF Still

\* The second critical section of Begin keeps the invariant.
LEMMA PublishBegunKeepsInv ==
  ASSUME Inv, Still, NEW id \in IDs, PublishBegun(id)
  PROVE  Inv'
<1> DEFINE trace == NewTrace(id)
<1>1. /\ pc[id] = "publish" /\ pc' = [pc EXCEPT ![id] = "serve"] /\ Publish(trace)
      /\ UNCHANGED <<nextID, traces, subscribed, begun>>
      /\ announced' \in BOOLEAN
  BY DEF PublishBegun
<1>2. /\ pc' \in [IDs -> {"new", "append", "publish", "serve", "done"}]
      /\ pc'[id] = "serve" /\ \A x \in IDs : x # id => pc'[x] = pc[x]
  BY <1>1 DEF Inv, TypeOK, DebuggerTypeOK
<1>3. trace \in Trace /\ IdOf(trace) = id
  BY NewTraceFields
<1> HIDE DEF trace
<1>4. Replaced(traces, trace, traces')
  <2>1. \A i \in 1..Len(traces) : IdOf(traces[i]) = id => traces[i] = trace
    BY <1>1 DEF Inv, HistoryInv, trace
  <2> QED
    BY <1>1, <1>3, <2>1, Sequences DEF Replaced, Inv
<1>5. /\ \A x \in IDs : Known(x) => pc'[x] \notin {"new", "append"}
      /\ \A x \in IDs : x > nextID => pc'[x] = "new"
      /\ \A k \in 1..Len(begun) : pc'[begun[k]] \notin {"new", "append"}
  BY <1>1, <1>2, Sequences DEF Inv, HistoryInv, Known
<1>6. KnownInv' /\ NewestLast' /\ RowsCatchUp' /\ LoopInv'
  <2>1. Known(IdOf(trace))
    BY <1>1, <1>3 DEF Known
  <2> QED
    BY <1>1, <1>3, <1>4, <1>5, <2>1, PublishKeeps DEF Still
<1>7. TypeOK'
  <2>1. Outcome(trace)
    BY <1>1, <1>3, PublishOutcome DEF Inv, Still
  <2>2. events' \in Seq(Trace) /\ Len(events') <= Capacity /\ dropped' \subseteq IDs
    BY <1>3, <2>1 DEF Outcome, Inv, TypeOK, DebuggerTypeOK
  <2> QED
    BY <1>1, <1>2, <2>2 DEF Inv, TypeOK, DebuggerTypeOK, Still
<1>8. HistoryInv'
  <2>1. ASSUME NEW i \in 1..Len(traces)
        PROVE  /\ IsFinished(traces[i]) <=> pc'[IdOf(traces[i])] = "done"
               /\ pc'[IdOf(traces[i])] = "publish" => traces[i] = NewTrace(IdOf(traces[i]))
    <3>1. IdOf(traces[i]) \in IDs
      BY Sequences DEF Inv
    <3>2. CASE IdOf(traces[i]) = id
      BY <1>1, <1>2, <3>2 DEF Inv, HistoryInv
    <3>3. CASE IdOf(traces[i]) # id
      BY <1>2, <3>1, <3>3 DEF Inv, HistoryInv
    <3> QED
      BY <3>2, <3>3
  <2> QED
    BY <1>1, <1>5, <2>1 DEF Inv, HistoryInv, Known
<1> QED
  BY <1>6, <1>7, <1>8 DEF Inv

\* An ID that is taken has no trace yet.
LEMMA TakeIDKeepsInv ==
  ASSUME Inv, Still, TakeID
  PROVE  Inv'
<1>1. /\ nextID < MaxRequests /\ nextID' = nextID + 1
      /\ pc' = [pc EXCEPT ![nextID + 1] = "append"]
      /\ UNCHANGED <<traces, subscribed, events, begun, dropped, announced>>
  BY DEF TakeID
<1>2. nextID \in Nat /\ nextID + 1 \in IDs /\ MaxRequests \in Nat
  BY <1>1, DebuggerAssumption DEF Inv, TypeOK, DebuggerTypeOK, IDs
<1>3. /\ pc' \in [IDs -> {"new", "append", "publish", "serve", "done"}]
      /\ pc[nextID + 1] = "new" /\ pc'[nextID + 1] = "append"
      /\ \A x \in IDs : x # nextID + 1 => pc'[x] = pc[x]
  BY <1>1, <1>2 DEF Inv, TypeOK, DebuggerTypeOK, HistoryInv
<1>4. \A x \in IDs : Known(x) => pc'[x] = pc[x]
  BY <1>3 DEF Known
<1>5. TypeOK'
  BY <1>1, <1>2, <1>3 DEF Inv, TypeOK, DebuggerTypeOK, Still
<1>6. HistoryInv'
  <2>1. \A x \in IDs : x > nextID' => pc'[x] = "new"
    BY <1>1, <1>2, <1>3 DEF Inv, HistoryInv, IDs
  <2>2. \A k \in 1..Len(begun) : pc'[begun[k]] \notin {"new", "append"}
    BY <1>4, Sequences DEF Inv, HistoryInv, Known
  <2>3. \A i \in 1..Len(traces) : pc'[IdOf(traces[i])] = pc[IdOf(traces[i])]
    <3>1. ASSUME NEW i \in 1..Len(traces) PROVE Known(IdOf(traces[i]))
      <4>1. Len(begun) - Len(traces) + i \in 1..Len(begun)
        BY Sequences, DebuggerAssumption DEF Inv, HistoryInv
      <4> QED
        BY <4>1 DEF Inv, HistoryInv
    <3> QED
      BY <1>4, <3>1, Sequences DEF Inv
  <2> QED
    BY <1>1, <2>1, <2>2, <2>3 DEF Inv, HistoryInv, Known
<1>7. KnownInv'
  BY <1>1, <1>4, Sequences DEF Inv, KnownInv, Known, Still, Queue
<1>8. LoopInv' /\ NewestLast' /\ RowsCatchUp'
  BY SMTT(30), <1>1 DEF Inv, LoopInv, NewestLast, RowsCatchUp, Queue, Still
<1> QED
  BY <1>5, <1>6, <1>7, <1>8 DEF Inv

\* The first critical section of Begin keeps the invariant.
LEMMA AppendTraceKeepsInv ==
  ASSUME Inv, Still, NEW id \in IDs, AppendTrace(id)
  PROVE  Inv'
<1>1. /\ pc[id] = "append" /\ pc' = [pc EXCEPT ![id] = "publish"]
      /\ traces' = Latest(Append(traces, NewTrace(id))) /\ begun' = Append(begun, id)
      /\ UNCHANGED <<nextID, subscribed, events, dropped, announced>>
  BY DEF AppendTrace
<1>2. /\ pc' \in [IDs -> {"new", "append", "publish", "serve", "done"}]
      /\ pc'[id] = "publish" /\ \A x \in IDs : x # id => pc'[x] = pc[x]
  BY <1>1 DEF Inv, TypeOK, DebuggerTypeOK
<1>3. /\ ~Known(id) /\ pc'[id] \notin {"new", "append"}
      /\ \A x \in IDs : Known(x) => x # id /\ pc'[x] = pc[x]
  BY <1>1, <1>2 DEF Known
<1>4. traces' \in Seq(Trace) /\ Rolled(traces, NewTrace(id), traces')
  BY <1>1, NewTraceFields, Sequences, AppendRolls DEF Inv, TypeOK, DebuggerTypeOK
<1>5. PICK d \in {0, 1} :
        /\ d = 1 <=> Len(traces) = Limit
        /\ Len(traces') = Len(traces) + 1 - d /\ Len(traces') <= Limit
        /\ traces'[Len(traces')] = NewTrace(id)
        /\ \A i \in 1..Len(traces') :
             i # Len(traces') => i + d \in 1..Len(traces) /\ traces'[i] = traces[i + d]
  BY <1>4 DEF Rolled
<1>6. /\ begun' \in Seq(IDs) /\ Len(begun') = Len(begun) + 1 /\ begun'[Len(begun) + 1] = id
      /\ \A k \in 1..Len(begun) : begun'[k] = begun[k]
  BY <1>1, Sequences, AppendProperties DEF Inv
<1>7. /\ Len(begun) \in Nat /\ Len(traces) \in Nat
      /\ Limit \in Nat /\ Limit > 0 /\ Len(traces) <= Len(begun)
      /\ Len(traces) = IF Len(begun) < Limit THEN Len(begun) ELSE Limit
      /\ \A k \in 1..Len(begun) : begun[k] \in IDs /\ Known(begun[k])
      /\ \A i \in 1..Len(traces) : IdOf(traces[i]) \in IDs
  BY SMTT(30), Sequences, DebuggerAssumption DEF Inv, HistoryInv
<1>8. \A i \in 1..Len(traces) :
        /\ IdOf(traces[i]) = begun[Len(begun) - Len(traces) + i]
        /\ Known(IdOf(traces[i]))
  <2>1. \A i \in 1..Len(traces) : Len(begun) - Len(traces) + i \in 1..Len(begun)
    BY <1>7
  <2>2. \A i \in 1..Len(traces) : IdOf(traces[i]) = begun[Len(begun) - Len(traces) + i]
    BY DEF Inv, HistoryInv
  <2> QED
    BY <1>7, <2>1, <2>2
<1>9. TypeOK'
  <2>1. IsInjective(begun')
    <3>1. DOMAIN begun' = 1..(Len(begun) + 1) /\ DOMAIN begun = 1..Len(begun)
      BY <1>6, Sequences, LenProperties DEF Inv
    <3>2. \A k \in 1..Len(begun) : begun'[k] # id
      BY <1>3, <1>6, <1>7
    <3>3. \A k, l \in 1..Len(begun) : begun[k] = begun[l] => k = l
      BY <3>1 DEF Inv, TypeOK, DebuggerTypeOK, IsInjective
    <3>4. ASSUME NEW k \in 1..(Len(begun) + 1), NEW l \in 1..(Len(begun) + 1),
                 begun'[k] = begun'[l]
          PROVE  k = l
      <4>1. CASE k \in 1..Len(begun) /\ l \in 1..Len(begun)
        BY <1>6, <3>3, <3>4, <4>1
      <4>2. CASE k = Len(begun) + 1 /\ l \in 1..Len(begun)
        BY <1>6, <3>2, <3>4, <4>2
      <4>3. CASE k \in 1..Len(begun) /\ l = Len(begun) + 1
        BY <1>6, <3>2, <3>4, <4>3
      <4> QED
        BY <1>7, <4>1, <4>2, <4>3
    <3> QED
      BY <3>1, <3>4 DEF IsInjective
  <2> QED
    BY <1>1, <1>2, <1>4, <1>5, <1>6, <2>1 DEF Inv, TypeOK, DebuggerTypeOK, Still
<1>10. HistoryInv'
  <2>1. \A x \in IDs : x > nextID' => pc'[x] = "new"
    BY <1>1, <1>2 DEF Inv, HistoryInv
  <2>2. \A k \in 1..Len(begun') : pc'[begun'[k]] \notin {"new", "append"}
    <3>1. \A k \in 1..Len(begun') : k \in 1..Len(begun) \/ k = Len(begun) + 1
      BY <1>6, <1>7
    <3>2. \A k \in 1..Len(begun) : pc'[begun[k]] \notin {"new", "append"}
      BY <1>3, <1>7 DEF Known
    <3> QED
      BY <1>2, <1>6, <3>1, <3>2
  <2>3. Len(traces') = IF Len(begun') < Limit THEN Len(begun') ELSE Limit
    BY <1>5, <1>6, <1>7
  <2>4. ASSUME NEW i \in 1..Len(traces')
        PROVE  /\ IdOf(traces'[i]) = begun'[Len(begun') - Len(traces') + i]
               /\ IsFinished(traces'[i]) <=> pc'[IdOf(traces'[i])] = "done"
               /\ pc'[IdOf(traces'[i])] = "publish" => traces'[i] = NewTrace(IdOf(traces'[i]))
    <3>1. CASE i = Len(traces')
      <4>1. Len(begun') - Len(traces') + i = Len(begun) + 1
        <5>1. Len(traces') \in Nat
          BY <1>4, LenProperties
        <5> QED
          BY <1>6, <1>7, <3>1, <5>1
      <4> QED
        BY <1>2, <1>5, <1>6, <3>1, <4>1, NewTraceFields
    <3>2. CASE i # Len(traces')
      <4>1. i + d \in 1..Len(traces) /\ traces'[i] = traces[i + d]
        BY <1>5, <3>2
      <4>2. /\ Len(begun') - Len(traces') + i = Len(begun) - Len(traces) + (i + d)
            /\ Len(begun) - Len(traces) + (i + d) \in 1..Len(begun)
        <5>1. Len(begun) \in Nat /\ Len(traces) \in Nat /\ Len(traces) <= Len(begun)
          BY <1>7
        <5>2. Len(begun') = Len(begun) + 1 /\ Len(traces') = Len(traces) + 1 - d
          BY <1>5, <1>6
        <5>3. i \in Int
          OBVIOUS
        <5> QED
          BY <4>1, <5>1, <5>2, <5>3
      <4>3. IdOf(traces'[i]) = begun'[Len(begun') - Len(traces') + i]
        BY <1>6, <1>8, <4>1, <4>2
      <4>4. pc'[IdOf(traces[i + d])] = pc[IdOf(traces[i + d])]
        BY <1>3, <1>7, <1>8, <4>1
      <4> QED
        BY <4>1, <4>3, <4>4 DEF Inv, HistoryInv
    <3> QED
      BY <3>1, <3>2
  <2> QED
    BY <2>1, <2>2, <2>3, <2>4 DEF HistoryInv, Known
<1>11. Queue' = Queue /\ shown' = shown
  BY <1>1 DEF Queue, Still
<1>12. KnownInv'
  BY <1>3, <1>11, Sequences DEF Inv, KnownInv, Known
<1>13. LoopInv'
  BY <1>1 DEF Inv, LoopInv, Still
\* A trace of the new history is an old one, or nobody has heard of it.
<1>14. ASSUME NEW j \in 1..Len(traces'), Known(IdOf(traces'[j]))
       PROVE  \E l \in 1..Len(traces) : traces'[j] = traces[l]
  <2>1. j # Len(traces')
    BY <1>3, <1>5, <1>14, NewTraceFields
  <2> QED
    BY <1>5, <2>1
<1>15. NewestLast'
  <2> SUFFICES ASSUME NEW k \in 1..Len(Queue'), NEW j \in 1..Len(traces'),
                      IdOf(Queue'[k]) = IdOf(traces'[j]), IdOf(traces'[j]) \notin dropped'
               PROVE  \E m \in 1..Len(Queue') : k <= m /\ Queue'[m] = traces'[j]
    BY DEF NewestLast
  <2>1. k \in 1..Len(Queue) /\ IdOf(Queue[k]) = IdOf(traces'[j]) /\ dropped' = dropped
    BY <1>1, <1>11
  <2>2. PICK l \in 1..Len(traces) : traces'[j] = traces[l]
    BY <1>14, <2>1 DEF Inv, KnownInv
  <2>3. \E m \in 1..Len(Queue) : k <= m /\ Queue[m] = traces[l]
    BY <2>1, <2>2 DEF Inv, NewestLast
  <2> QED
    BY <1>11, <2>2, <2>3
<1>16. RowsCatchUp'
  <2> SUFFICES ASSUME screen = "running", NEW i \in 1..Len(shown), NEW j \in 1..Len(traces'),
                      IdOf(shown[i]) = IdOf(traces'[j]), IdOf(traces'[j]) \notin dropped
               PROVE  \/ shown[i] = traces'[j]
                      \/ \E m \in 1..Len(Queue) : Queue[m] = traces'[j]
    BY <1>1, <1>11 DEF RowsCatchUp, Still
  <2>1. PICK l \in 1..Len(traces) : traces'[j] = traces[l]
    BY <1>14 DEF Inv, KnownInv
  <2> QED
    BY <2>1 DEF Inv, RowsCatchUp
<1> QED
  BY <1>9, <1>10, <1>12, <1>13, <1>15, <1>16 DEF Inv

-----------------------------------------------------------------------------
\* Subscribe keeps the invariant.
LEMMA StartKeepsInv ==
  ASSUME Inv, StartDashboard
  PROVE  Inv'
<1>1. /\ screen = "off" /\ screen' = "subscribed" /\ subscribed' = TRUE
      /\ UNCHANGED <<nextID, pc, traces, events, begun, dropped, announced>>
      /\ UNCHANGED <<waiting, message, shown, selected, calmStart>>
  BY DEF StartDashboard, Subscribe
<1>2. Queue' = Queue
  BY <1>1 DEF Queue
<1>3. TypeOK' /\ HistoryInv'
  BY <1>1 DEF Inv, TypeOK, DebuggerTypeOK, HistoryInv, Known
<1>4. LoopInv'
  BY <1>1 DEF Inv, LoopInv
<1>5. KnownInv' /\ RowsCatchUp'
  BY <1>1, <1>2 DEF Inv, KnownInv, RowsCatchUp, Known
<1>6. NewestLast'
  BY <1>1, <1>2 DEF Inv, NewestLast
<1> QED
  BY <1>3, <1>4, <1>5, <1>6 DEF Inv

\* With the snapshot every row is its trace.
LEMMA SnapshotKeepsInv ==
  ASSUME Inv, Snapshot
  PROVE  Inv'
<1>1. /\ screen = "subscribed" /\ screen' = "running" /\ waiting' = TRUE
      /\ shown' = traces /\ selected' = Len(traces)
      /\ UNCHANGED <<nextID, pc, traces, subscribed, events, begun, dropped, announced>>
      /\ UNCHANGED <<message, calmStart>>
  BY DEF Snapshot, debuggerVars
<1>2. Queue' = Queue /\ Alike(traces)
  BY <1>1, TracesAlike DEF Queue, Inv
<1>3. TypeOK'
  <2>1. DOMAIN traces = 1..Len(traces) /\ traces \in Seq(Trace) /\ Len(traces) \in Nat
    BY Sequences, LenProperties DEF Inv
  <2>2. \A i, j \in DOMAIN shown' : shown'[i].id = shown'[j].id => i = j
    BY <1>1, <1>2, <2>1 DEF Alike, IdOf
  <2>3. IF shown' = <<>> THEN selected' = 0 ELSE selected' \in DOMAIN shown'
    BY <1>1, <2>1, EmptySeq
  <2> QED
    BY <1>1, <2>1, <2>2, <2>3 DEF Inv, TypeOK, DebuggerTypeOK
<1>4. HistoryInv' /\ LoopInv'
  BY <1>1 DEF Inv, HistoryInv, Known, LoopInv
<1>5. KnownInv'
  <2>1. ASSUME NEW i \in 1..Len(traces) PROVE Known(IdOf(traces[i]))
    <3>1. Len(begun) - Len(traces) + i \in 1..Len(begun)
      BY Sequences, DebuggerAssumption DEF Inv, HistoryInv
    <3> QED
      BY <3>1 DEF Inv, HistoryInv
  <2> QED
    BY <1>1, <1>2, <2>1 DEF Inv, KnownInv, Known
<1>6. NewestLast'
  BY <1>1, <1>2 DEF Inv, NewestLast
<1>7. RowsCatchUp'
  BY <1>1, <1>2 DEF Alike, RowsCatchUp
<1> QED
  BY <1>3, <1>4, <1>5, <1>6, <1>7 DEF Inv

\* Receiving a change moves it and keeps the order.
LEMMA ReceivedQueue ==
  ASSUME Inv, Receive
  PROVE  Len(Queue') = Len(Queue) /\ \A k \in 1..Len(Queue) : Queue'[k] = Queue[k]
<1>1. /\ waiting /\ events # <<>> /\ message' = <<Head(events)>> /\ events' = Tail(events)
      /\ waiting' = FALSE /\ message = <<>>
      /\ UNCHANGED <<nextID, pc, traces, subscribed, begun, dropped, announced>>
      /\ UNCHANGED <<screen, shown, selected, calmStart>>
  BY DEF Receive, Inv, LoopInv
<1>2. events \in Seq(Trace) /\ Len(events) \in Nat
  BY Sequences DEF Inv
<1>3. /\ Head(events) \in Trace /\ Head(events) = events[1]
      /\ events' \in Seq(Trace) /\ Len(events') = Len(events) - 1
      /\ \A k \in 1..Len(events') : events'[k] = events[k + 1]
  BY <1>1, <1>2, HeadTailProperties
<1>4. message' \in Seq(Trace) /\ Len(message') = 1 /\ message'[1] = events[1]
  BY <1>1, <1>3
<1>5. Len(Queue) = Len(events) /\ \A k \in 1..Len(events) : Queue[k] = events[k]
  <2>1. Queue = events
    BY <1>1, <1>2, ConcatEmptySeq DEF Queue
  <2> QED
    BY <2>1
<1>6. /\ Len(Queue') = 1 + Len(events') /\ Queue'[1] = message'[1]
      /\ \A k \in 1..Len(events') : Queue'[1 + k] = events'[k]
  <2>1. Queue' = message' \o events'
    BY DEF Queue
  <2> QED
    <3>1. message' \in Seq(Trace) /\ events' \in Seq(Trace) /\ Len(message') = 1
      BY <1>3, <1>4
    <3>2. /\ Len(message' \o events') = Len(message') + Len(events')
          /\ \A k \in 1..Len(message') : (message' \o events')[k] = message'[k]
          /\ \A k \in 1..Len(events') : (message' \o events')[Len(message') + k] = events'[k]
      BY <3>1, QueueElements
    <3> QED
      BY <2>1, <3>1, <3>2
<1>7. ASSUME NEW k \in 1..Len(events), k # 1 PROVE Queue'[k] = events[k]
  <2>1. k - 1 \in 1..Len(events') /\ k = 1 + (k - 1) /\ k = (k - 1) + 1
    BY <1>2, <1>3, <1>7
  <2>2. Queue'[1 + (k - 1)] = events'[k - 1]
    BY <1>6, <2>1
  <2>3. events'[k - 1] = events[(k - 1) + 1]
    BY <1>3, <2>1
  <2> QED
    BY <2>1, <2>2, <2>3
<1> QED
  BY <1>2, <1>3, <1>4, <1>5, <1>6, <1>7

\* waitForTrace keeps the invariant.
LEMMA ReceiveKeepsInv ==
  ASSUME Inv, Receive
  PROVE  Inv'
<1>1. /\ waiting /\ events # <<>> /\ message' = <<Head(events)>> /\ events' = Tail(events)
      /\ waiting' = FALSE /\ message = <<>>
      /\ UNCHANGED <<nextID, pc, traces, subscribed, begun, dropped, announced>>
      /\ UNCHANGED <<screen, shown, selected, calmStart>>
  BY DEF Receive, Inv, LoopInv
<1>2. events \in Seq(Trace) /\ Len(events) \in Nat
  BY Sequences DEF Inv
<1>3. /\ Head(events) \in Trace /\ Head(events) = events[1]
      /\ events' \in Seq(Trace) /\ Len(events') = Len(events) - 1
      /\ \A k \in 1..Len(events') : events'[k] = events[k + 1]
  BY <1>1, <1>2, HeadTailProperties
<1>4. message' \in Seq(Trace) /\ Len(message') = 1 /\ message'[1] = events[1]
  BY <1>1, <1>3
<1>5. Len(Queue') = Len(Queue) /\ \A k \in 1..Len(Queue) : Queue'[k] = Queue[k]
  BY ReceivedQueue
<1>6. TypeOK'
  <2>1. Len(events') <= Capacity
    BY <1>2, <1>3, DebuggerAssumption DEF Inv, TypeOK, DebuggerTypeOK
  <2> QED
    <3>1. /\ events' \in Seq(Trace) /\ message' \in Seq(Trace) /\ Len(message') <= 1
      BY <1>3, <1>4
    <3>2. /\ UNCHANGED <<nextID, pc, traces, subscribed, begun, dropped, announced>>
          /\ UNCHANGED <<screen, shown, selected, calmStart>>
          /\ waiting' = FALSE
      BY <1>1
    <3> QED
      BY <2>1, <3>1, <3>2 DEF Inv, TypeOK, DebuggerTypeOK
<1>7. HistoryInv'
  BY <1>1 DEF Inv, HistoryInv, Known
<1>8. LoopInv'
  <2>1. subscribed
    BY <1>1 DEF Inv, LoopInv
  <2> QED
    BY <1>1, <2>1 DEF Inv, LoopInv
<1>9. KnownInv'
  BY <1>1, <1>5 DEF Inv, KnownInv, Known
<1>10. NewestLast'
  BY <1>1, <1>5 DEF Inv, NewestLast
<1>11. RowsCatchUp'
  BY <1>1, <1>5 DEF Inv, RowsCatchUp
<1> QED
  BY <1>6, <1>7, <1>8, <1>9, <1>10, <1>11 DEF Inv

\* What a change that has been received does to the rows and the cursor.
Upserted(trace) ==
  \/ /\ \E i \in 1..Len(shown) : IdOf(shown[i]) = IdOf(trace)
     /\ Replaced(shown, trace, shown')
     /\ selected' = IF selected = Len(shown) THEN Len(shown') ELSE selected
  \/ /\ \A i \in 1..Len(shown) : IdOf(shown[i]) # IdOf(trace)
     /\ shown' \in Seq(Trace) /\ Rolled(shown, trace, shown')
     /\ selected' = IF selected = Len(shown) THEN Len(shown')
                    ELSE IF Len(shown) = Limit /\ selected > 1 THEN selected - 1
                    ELSE selected

\* Update on a change that has been received does what Upserted says.
LEMMA UpdateUpserts ==
  ASSUME TypeOK, TraceUpdate
  PROVE  message[1] \in Trace /\ Upserted(message[1])
<1>1. /\ message \in Seq(Trace) /\ message # <<>> /\ message[1] \in Trace
      /\ shown \in Seq(Trace) /\ Len(shown) \in Nat /\ DOMAIN shown = 1..Len(shown)
      /\ Len(shown) <= Limit
  <2>1. message \in Seq(Trace) /\ message # <<>> /\ shown \in Seq(Trace) /\ Len(shown) \in Nat
    BY Sequences DEF TraceUpdate
  <2>2. 1 \in 1..Len(message)
    BY <2>1, EmptySeq, LenProperties
  <2> QED
    BY <2>1, <2>2, ElementOfSeq, LenProperties DEF TypeOK
<1> DEFINE h == message[1]
<1>2. /\ shown' = Upsert(h).list
      /\ selected' = IF selected = Len(shown) THEN Len(shown') ELSE Upsert(h).cursor
  BY DEF TraceUpdate
<1>3. CASE \E i \in DOMAIN shown : shown[i].id = h.id
  <2>1. /\ Upsert(h).list = [i \in DOMAIN shown |-> IF shown[i].id = h.id THEN h ELSE shown[i]]
        /\ Upsert(h).cursor = selected
    BY <1>3 DEF Upsert
  <2>2. Replaced(shown, h, shown')
    BY <1>1, <1>2, <2>1, ReplaceTrace
  <2>3. \E i \in 1..Len(shown) : IdOf(shown[i]) = IdOf(h)
    BY <1>1, <1>3 DEF IdOf
  <2> HIDE DEF h
  <2> QED
    BY <1>1, <1>2, <2>1, <2>2, <2>3 DEF Upserted, h
<1>4. CASE ~\E i \in DOMAIN shown : shown[i].id = h.id
  <2>1. /\ Upsert(h).list = Latest(Append(shown, h))
        /\ Upsert(h).cursor = IF Len(shown) = Limit /\ selected > 1 THEN selected - 1
                              ELSE selected
    BY <1>4 DEF Upsert
  <2>2. shown' \in Seq(Trace) /\ Rolled(shown, h, shown')
    BY <1>1, <1>2, <2>1, AppendRolls
  <2>3. \A i \in 1..Len(shown) : IdOf(shown[i]) # IdOf(h)
    BY <1>1, <1>4 DEF IdOf
  <2> HIDE DEF h
  <2> QED
    BY <1>1, <1>2, <2>1, <2>2, <2>3 DEF Upserted, h
<1> QED
  BY <1>3, <1>4

\* The rows after a change: the trace changed, and rows of other traces.
LEMMA UpsertedRows ==
  ASSUME TypeOK, NEW trace \in Trace, Upserted(trace)
  PROVE  /\ shown' \in Seq(Trace) /\ Len(shown') <= Limit /\ Alike(shown')
         /\ \A i \in 1..Len(shown') :
              \/ shown'[i] = trace
              \/ \E l \in 1..Len(shown) : /\ shown'[i] = shown[l]
                                          /\ IdOf(shown[l]) # IdOf(trace)
         /\ IF shown' = <<>> THEN selected' = 0 ELSE selected' \in 1..Len(shown')
<1>1. /\ shown \in Seq(Trace) /\ Len(shown) \in Nat /\ DOMAIN shown = 1..Len(shown)
      /\ Len(shown) <= Limit /\ Limit \in Nat
      /\ IF shown = <<>> THEN selected = 0 ELSE selected \in 1..Len(shown)
  BY Sequences, LenProperties, DebuggerAssumption DEF TypeOK
<1>2. Alike(shown)
  BY <1>1 DEF TypeOK, Alike, IdOf
<1>3. CASE /\ \E i \in 1..Len(shown) : IdOf(shown[i]) = IdOf(trace)
           /\ Replaced(shown, trace, shown')
           /\ selected' = IF selected = Len(shown) THEN Len(shown') ELSE selected
  <2>1. /\ shown' \in Seq(Trace) /\ Len(shown') = Len(shown)
        /\ \A i \in 1..Len(shown) :
             /\ IdOf(shown'[i]) = IdOf(shown[i])
             /\ IdOf(shown[i]) = IdOf(trace) => shown'[i] = trace
             /\ IdOf(shown[i]) # IdOf(trace) => shown'[i] = shown[i]
    BY <1>3 DEF Replaced
  <2>2. shown # <<>> /\ shown' # <<>>
    BY <1>1, <1>3, <2>1, EmptySeq
  <2>3. Alike(shown')
    BY <1>2, <2>1 DEF Alike
  <2> QED
    BY <1>1, <1>3, <2>1, <2>2, <2>3
<1>4. CASE /\ \A i \in 1..Len(shown) : IdOf(shown[i]) # IdOf(trace)
           /\ shown' \in Seq(Trace) /\ Rolled(shown, trace, shown')
           /\ selected' = IF selected = Len(shown) THEN Len(shown')
                          ELSE IF Len(shown) = Limit /\ selected > 1 THEN selected - 1
                          ELSE selected
  <2>1. PICK d \in {0, 1} :
          /\ d = 1 <=> Len(shown) = Limit
          /\ Len(shown') = Len(shown) + 1 - d /\ Len(shown') <= Limit
          /\ shown'[Len(shown')] = trace
          /\ \A i \in 1..Len(shown') :
               i # Len(shown') => i + d \in 1..Len(shown) /\ shown'[i] = shown[i + d]
    BY <1>4 DEF Rolled
  <2>2. \A i \in 1..Len(shown') :
          \/ shown'[i] = trace
          \/ \E l \in 1..Len(shown) : shown'[i] = shown[l] /\ IdOf(shown[l]) # IdOf(trace)
    BY <1>4, <2>1
  <2>3. Alike(shown')
    <3>1. ASSUME NEW i \in 1..Len(shown'), NEW j \in 1..Len(shown'),
                 IdOf(shown'[i]) = IdOf(shown'[j]), i # Len(shown')
          PROVE  i = j
      <4>1. i + d \in 1..Len(shown) /\ shown'[i] = shown[i + d]
        BY <2>1, <3>1
      <4>2. j # Len(shown')
        BY <1>4, <2>1, <3>1, <4>1
      <4>3. j + d \in 1..Len(shown) /\ shown'[j] = shown[j + d]
        BY <2>1, <4>2
      <4>4. i + d = j + d
        BY <1>2, <3>1, <4>1, <4>3 DEF Alike
      <4> QED
        BY <2>1, <4>4
    <3> QED
      BY <3>1 DEF Alike
  <2>4. shown' # <<>> /\ Len(shown') \in 1..Limit
    <3>1. Len(shown') > 0 /\ Len(shown') \in Nat
      <4>1. Len(shown) \in Nat /\ Limit \in Nat /\ Limit > 0
        BY <1>1, DebuggerAssumption
      <4>2. CASE d = 0
        BY <2>1, <4>1, <4>2
      <4>3. CASE d = 1
        BY <2>1, <4>1, <4>3
      <4> QED
        BY <4>2, <4>3
    <3> QED
      BY <2>1, <3>1, <1>4, EmptySeq
  <2>5. selected' \in 1..Len(shown')
    <3>1. CASE selected = Len(shown)
      BY <1>4, <2>4, <3>1, LenProperties
    <3>2. CASE selected # Len(shown)
      <4>1. selected \in 1..Len(shown) /\ selected < Len(shown)
        BY <1>1, <3>2, EmptySeq
      <4>2. \/ Len(shown') = Len(shown)
            \/ Len(shown) # Limit /\ Len(shown') = Len(shown) + 1
        <5>1. Len(shown) \in Nat /\ Limit \in Nat
          BY <1>1
        <5>2. CASE d = 0
          BY <2>1, <5>1, <5>2
        <5>3. CASE d = 1
          BY <2>1, <5>1, <5>3
        <5> QED
          BY <5>2, <5>3
      <4>3. /\ Len(shown) = Limit => Len(shown') = Len(shown)
            /\ selected' \in {selected, selected - 1}
            /\ selected > 1 \/ selected' = selected
        BY <1>4, <3>2, <4>2
      <4>4. Len(shown) \in Nat /\ Len(shown') \in Nat /\ selected \in Nat
        BY <1>1, <2>4, <4>1
      <4> QED
        BY <4>1, <4>2, <4>3, <4>4
    <3> QED
      BY <3>1, <3>2
  <2> QED
    BY <1>4, <2>1, <2>2, <2>3, <2>4, <2>5
<1> QED
  BY <1>3, <1>4 DEF Upserted

\* The first of the queue leaves it.
LEMMA TakenQueue ==
  ASSUME TypeOK, message # <<>>, message' = <<>>, events' = events
  PROVE  /\ Len(Queue) \in Nat /\ Len(Queue') = Len(Queue) - 1 /\ 1 \in 1..Len(Queue)
         /\ message[1] = Queue[1]
         /\ \A k \in 1..Len(Queue') : k + 1 \in 1..Len(Queue) /\ Queue'[k] = Queue[k + 1]
<1>1. /\ message \in Seq(Trace) /\ events \in Seq(Trace) /\ Len(message) = 1
      /\ Len(events) \in Nat
  <2>1. message \in Seq(Trace) /\ Len(message) \in Nat /\ Len(message) <= 1
    BY Sequences DEF TypeOK
  <2>2. Len(message) # 0
    BY <2>1, EmptySeq
  <2>3. Len(message) = 1
    <3>1. \A n \in Nat : n <= 1 /\ n # 0 => n = 1
      OBVIOUS
    <3> QED
      BY <2>1, <2>2, <3>1, Zenon
  <2>4. message \in Seq(Trace) /\ events \in Seq(Trace) /\ Len(events) \in Nat
    BY Sequences
  <2> QED
    BY <2>3, <2>4
<1>2. /\ Len(Queue) = 1 + Len(events) /\ Queue[1] = message[1]
      /\ \A k \in 1..Len(events) : Queue[1 + k] = events[k]
  BY <1>1, QueueElements DEF Queue
<1>3. Queue' = events
  <2>1. Queue' = <<>> \o events
    BY DEF Queue
  <2> QED
    BY <1>1, <2>1, ConcatEmptySeq
<1>4. ASSUME NEW k \in 1..Len(events) PROVE k + 1 \in 1..Len(Queue) /\ events[k] = Queue[k + 1]
  <2>1. 1 + k = k + 1 /\ k + 1 \in 1..Len(Queue)
    BY <1>1, <1>2
  <2> QED
    BY <1>2, <2>1
<1> QED
  BY <1>1, <1>2, <1>3, <1>4

\* The change that is handled was the newest state of its trace, or that
\* state is behind it in the queue.
LEMMA TraceUpdateKeepsInv ==
  ASSUME Inv, TraceUpdate
  PROVE  Inv'
<1> DEFINE h == message[1]
<1>1. /\ message # <<>> /\ message' = <<>> /\ waiting' = TRUE
      /\ UNCHANGED <<nextID, pc, traces, subscribed, events, begun, dropped, announced>>
      /\ UNCHANGED <<screen, calmStart>>
  BY DEF TraceUpdate, debuggerVars
<1>2. h \in Trace /\ Upserted(h)
  BY UpdateUpserts DEF Inv
<1>3. /\ Len(Queue) \in Nat /\ Len(Queue') = Len(Queue) - 1 /\ 1 \in 1..Len(Queue)
      /\ h = Queue[1]
      /\ \A k \in 1..Len(Queue') : k + 1 \in 1..Len(Queue) /\ Queue'[k] = Queue[k + 1]
  BY <1>1, TakenQueue DEF Inv
<1> HIDE DEF h
<1>4. /\ shown' \in Seq(Trace) /\ Len(shown') <= Limit /\ Alike(shown')
      /\ \A i \in 1..Len(shown') :
           \/ shown'[i] = h
           \/ \E l \in 1..Len(shown) : shown'[i] = shown[l] /\ IdOf(shown[l]) # IdOf(h)
      /\ IF shown' = <<>> THEN selected' = 0 ELSE selected' \in 1..Len(shown')
  BY <1>2, UpsertedRows DEF Inv
<1>5. TypeOK'
  <2>1. DOMAIN shown' = 1..Len(shown')
    BY <1>4, LenProperties
  <2>2. \A i, j \in DOMAIN shown' : shown'[i].id = shown'[j].id => i = j
    BY <1>4, <2>1 DEF Alike, IdOf
  <2>3. message' \in Seq(Trace) /\ Len(message') =< 1
    BY <1>1
  <2>4. IF shown' = <<>> THEN selected' = 0 ELSE selected' \in DOMAIN shown'
    BY <1>4, <2>1
  <2> QED
    BY <1>1, <1>4, <2>2, <2>3, <2>4 DEF Inv, TypeOK, DebuggerTypeOK
<1>6. HistoryInv' /\ LoopInv'
  BY <1>1 DEF Inv, HistoryInv, LoopInv, Known
<1>7. KnownInv'
  <2>1. Known(IdOf(h))
    BY <1>3 DEF Inv, KnownInv
  <2> QED
    BY <1>1, <1>3, <1>4, <2>1 DEF Inv, KnownInv, Known
\* A change that is behind the first one stays.
<1>8. ASSUME NEW k \in 2..Len(Queue), NEW m \in 1..Len(Queue), k <= m
      PROVE  \E n \in 1..Len(Queue') : k - 1 <= n /\ Queue'[n] = Queue[m]
  <2>1. m - 1 \in 1..Len(Queue') /\ k - 1 <= m - 1 /\ (m - 1) + 1 = m
    BY <1>3, <1>8
  <2>2. Queue'[m - 1] = Queue[(m - 1) + 1]
    BY <1>3, <2>1
  <2> QED
    BY <2>1, <2>2
<1>9. NewestLast'
  <2> SUFFICES ASSUME NEW k \in 1..Len(Queue'), NEW j \in 1..Len(traces'),
                      IdOf(Queue'[k]) = IdOf(traces'[j]), IdOf(traces'[j]) \notin dropped'
               PROVE  \E n \in 1..Len(Queue') : k <= n /\ Queue'[n] = traces'[j]
    BY DEF NewestLast
  <2>1. /\ k + 1 \in 1..Len(Queue) /\ k + 1 \in 2..Len(Queue) /\ (k + 1) - 1 = k
        /\ IdOf(Queue[k + 1]) = IdOf(traces[j]) /\ IdOf(traces[j]) \notin dropped
    BY <1>1, <1>3
  <2>2. PICK m \in 1..Len(Queue) : k + 1 <= m /\ Queue[m] = traces[j]
    BY <1>1, <2>1 DEF Inv, NewestLast
  <2> QED
    BY <1>1, <1>8, <2>1, <2>2
<1>10. RowsCatchUp'
  <2> SUFFICES ASSUME screen' = "running", NEW i \in 1..Len(shown'), NEW j \in 1..Len(traces'),
                      IdOf(shown'[i]) = IdOf(traces'[j]), IdOf(traces'[j]) \notin dropped'
               PROVE  \/ shown'[i] = traces'[j]
                      \/ \E n \in 1..Len(Queue') : Queue'[n] = traces'[j]
    BY DEF RowsCatchUp
  <2>1. ASSUME NEW m \in 1..Len(Queue), Queue[m] = traces[j]
        PROVE  Queue[1] = traces[j] \/ \E n \in 1..Len(Queue') : Queue'[n] = traces'[j]
    <3>1. CASE m = 1
      BY <2>1, <3>1
    <3>2. CASE m # 1
      <4>1. m \in 2..Len(Queue)
        BY <3>2
      <4>2. m <= m
        OBVIOUS
      <4>3. \E n \in 1..Len(Queue') : m - 1 <= n /\ Queue'[n] = Queue[m]
        BY <1>8, <4>1, <4>2
      <4> QED
        BY <1>1, <2>1, <4>3
    <3> QED
      BY <3>1, <3>2
  <2>2. CASE shown'[i] = h
    <3>1. \E m \in 1..Len(Queue) : Queue[m] = traces[j]
      BY <1>1, <1>3, <2>2 DEF Inv, NewestLast
    <3> QED
      BY <1>1, <1>3, <2>1, <2>2, <3>1
  <2>3. ASSUME NEW l \in 1..Len(shown), shown'[i] = shown[l], IdOf(shown[l]) # IdOf(h)
        PROVE  \/ shown'[i] = traces'[j]
               \/ \E n \in 1..Len(Queue') : Queue'[n] = traces'[j]
    <3>1. \/ shown[l] = traces[j]
          \/ \E m \in 1..Len(Queue) : Queue[m] = traces[j]
      BY <1>1, <2>3 DEF Inv, RowsCatchUp
    <3>2. Queue[1] # traces[j]
      BY <1>1, <1>3, <2>3
    <3> QED
      BY <1>1, <2>1, <2>3, <3>1, <3>2
  <2> QED
    BY <1>4, <2>2, <2>3
<1> QED
  BY <1>5, <1>6, <1>7, <1>9, <1>10 DEF Inv

\* Moving the cursor keeps the invariant.
LEMMA SelectKeepsInv ==
  ASSUME Inv, Select
  PROVE  Inv'
<1>1. /\ selected' \in DOMAIN shown
      /\ UNCHANGED <<nextID, pc, traces, subscribed, events, begun, dropped, announced>>
      /\ UNCHANGED <<screen, waiting, message, shown, calmStart>>
  BY DEF Select, debuggerVars
<1>2. Queue' = Queue
  BY <1>1 DEF Queue
<1>3. shown # <<>>
  BY <1>1
<1>4. TypeOK'
  BY <1>1, <1>3 DEF Inv, TypeOK, DebuggerTypeOK
<1>5. HistoryInv' /\ LoopInv' /\ KnownInv' /\ RowsCatchUp'
  BY <1>1, <1>2 DEF Inv, HistoryInv, LoopInv, KnownInv, RowsCatchUp, Known
<1>6. NewestLast'
  BY <1>1, <1>2 DEF Inv, NewestLast
<1> QED
  BY <1>4, <1>5, <1>6 DEF Inv

\* After quitting nothing is on its way and nothing is shown.
LEMMA QuitKeepsInv ==
  ASSUME Inv, Quit
  PROVE  Inv'
<1>1. /\ screen' = "quit" /\ waiting' = FALSE /\ message' = <<>> /\ events' = <<>>
      /\ subscribed' = FALSE
      /\ UNCHANGED <<nextID, pc, traces, begun, dropped, announced>>
      /\ UNCHANGED <<shown, selected, calmStart>>
  BY DEF Quit, Unsubscribe
<1>2. events' \in Seq(Trace) /\ Len(events') = 0 /\ message' \in Seq(Trace) /\ Len(message') = 0
  BY <1>1
<1>3. Len(Queue') = 0
  <2>1. Queue' = <<>> \o <<>>
    BY <1>1 DEF Queue
  <2> QED
    BY <2>1
<1>4. TypeOK'
  <2>1. Len(events') <= Capacity /\ Len(message') <= 1
    BY <1>2, DebuggerAssumption
  <2> QED
    BY <1>1, <1>2, <2>1 DEF Inv, TypeOK, DebuggerTypeOK
<1>5. HistoryInv' /\ LoopInv'
  BY <1>1 DEF Inv, HistoryInv, LoopInv, Known
<1>6. KnownInv' /\ RowsCatchUp' /\ NewestLast'
  BY <1>1, <1>3 DEF Inv, KnownInv, RowsCatchUp, NewestLast, Known
<1> QED
  BY <1>4, <1>5, <1>6 DEF Inv

\* Every step keeps the invariant.
LEMMA KeepsInv ==
  ASSUME Inv, [Next]_vars
  PROVE  Inv'
<1>1. CASE Serve
  <2>1. Still
    BY <1>1 DEF Serve, Still
  <2>2. CASE TakeID
    BY <2>1, <2>2, TakeIDKeepsInv
  <2>3. ASSUME NEW id \in IDs, Request(id) PROVE Inv'
    BY <2>1, <2>3, AppendTraceKeepsInv, PublishBegunKeepsInv, RecordKeepsInv, FinishKeepsInv
       DEF Request
  <2> QED
    BY <1>1, <2>2, <2>3 DEF Serve
<1>2. CASE UNCHANGED vars
  <2>1. /\ UNCHANGED <<nextID, pc, traces, subscribed, events, begun, dropped, announced>>
        /\ UNCHANGED <<screen, waiting, message, shown, selected, calmStart>>
    BY <1>2 DEF vars, debuggerVars, dashboardVars
  <2>2. Queue' = Queue
    BY <2>1 DEF Queue
  <2>3. TypeOK'
    BY <2>1 DEF Inv, TypeOK, DebuggerTypeOK
  <2>4. HistoryInv' /\ LoopInv' /\ KnownInv' /\ RowsCatchUp'
    BY <2>1, <2>2 DEF Inv, HistoryInv, LoopInv, KnownInv, RowsCatchUp, Known
  <2>5. NewestLast'
    <3>1. NewestLast
      BY DEF Inv
    <3> QED
      BY <2>1, <2>2, <3>1 DEF NewestLast
  <2> QED
    BY <2>3, <2>4, <2>5 DEF Inv
<1> QED
  BY <1>1, <1>2, StartKeepsInv, SnapshotKeepsInv, ReceiveKeepsInv, TraceUpdateKeepsInv,
     SelectKeepsInv, QuitKeepsInv DEF Next

\* The invariant holds at first.
LEMMA InitInv == Init => Inv
<1> SUFFICES ASSUME Init PROVE Inv
  OBVIOUS
<1>1. /\ nextID = 0 /\ pc = [id \in IDs |-> "new"] /\ traces = <<>> /\ subscribed = FALSE
      /\ events = <<>> /\ begun = <<>> /\ dropped = {} /\ announced = TRUE
      /\ screen = "off" /\ waiting = FALSE /\ message = <<>> /\ shown = <<>>
      /\ selected = 0 /\ calmStart = TRUE
  BY DEF Init, DebuggerInit
<1>2. Len(traces) = 0 /\ Len(begun) = 0 /\ Len(events) = 0 /\ Len(message) = 0 /\ Len(shown) = 0
  BY <1>1
<1>3. Len(Queue) = 0
  BY <1>1 DEF Queue
<1>4. TypeOK
  <2>1. /\ traces \in Seq(Trace) /\ events \in Seq(Trace) /\ message \in Seq(Trace)
        /\ shown \in Seq(Trace) /\ begun \in Seq(IDs) /\ IsInjective(begun)
        /\ DOMAIN shown = {}
    BY <1>1 DEF IsInjective
  <2>2. nextID \in 0..MaxRequests /\ 0 <= Limit /\ 0 <= Capacity
    BY <1>1, DebuggerAssumption
  <2>3. pc \in [IDs -> {"new", "append", "publish", "serve", "done"}]
    BY <1>1
  <2>4. DebuggerTypeOK
    BY <1>1, <1>2, <2>1, <2>2, <2>3 DEF DebuggerTypeOK
  <2>5. \A i, j \in DOMAIN shown : shown[i].id = shown[j].id => i = j
    BY <2>1
  <2>6. IF shown = <<>> THEN selected = 0 ELSE selected \in DOMAIN shown
    BY <1>1
  <2>7. screen \in {"off", "subscribed", "running", "quit"}
    BY <1>1
  <2>8. waiting \in BOOLEAN /\ calmStart \in BOOLEAN
    BY <1>1
  <2>9. Len(message) <= 1 /\ Len(shown) <= Limit
    BY <1>2, <2>2
  <2> QED
    BY <2>1, <2>4, <2>5, <2>6, <2>7, <2>8, <2>9 DEF TypeOK
<1>5. HistoryInv
  BY <1>1, <1>2, DebuggerAssumption DEF HistoryInv
<1>6. LoopInv /\ KnownInv /\ NewestLast /\ RowsCatchUp
  BY <1>1, <1>2, <1>3 DEF LoopInv, KnownInv, NewestLast, RowsCatchUp
<1> QED
  BY <1>4, <1>5, <1>6 DEF Inv

\* The invariant always holds.
LEMMA Invariance == Spec => []Inv
<1>1. Inv /\ [Next]_vars => Inv'
  BY KeepsInv
<1> QED
  BY <1>1, InitInv, PTL DEF Spec

-----------------------------------------------------------------------------
\* Every variable has its type: the history and the list never grow beyond
\* debugHistoryLimit, the channel never beyond its capacity, no trace is
\* shown twice, and the cursor is on a row.
THEOREM TypeCorrect == Spec => []TypeOK
<1>1. Inv => TypeOK
  BY DEF Inv
<1> QED
  BY <1>1, Invariance, PTL

\* The history is the last Limit requests in the order of Begin's critical
\* sections, and Finish reached the trace of its own request.
THEOREM HistoryKeepsLatest == Spec => []HistoryIsLatest
<1>1. Inv => HistoryIsLatest
  <2> SUFFICES ASSUME Inv PROVE HistoryIsLatest
    OBVIOUS
  <2>1. /\ traces \in Seq(Trace) /\ Len(traces) \in Nat /\ DOMAIN traces = 1..Len(traces)
        /\ begun \in Seq(IDs) /\ Len(begun) \in Nat /\ Len(traces) <= Len(begun)
        /\ Len(traces) = IF Len(begun) < Limit THEN Len(begun) ELSE Limit
    BY Sequences, LenProperties, DebuggerAssumption DEF Inv, HistoryInv
  <2> DEFINE b == Len(begun) - Len(traces)
             sub == SubSeq(begun, b + 1, Len(begun))
             ids == [i \in DOMAIN traces |-> traces[i].id]
  <2>2. ids = sub
    <3>1. sub \in Seq(IDs) /\ Len(sub) = Len(traces)
          /\ \A i \in 1..Len(traces) : sub[i] = begun[b + i]
      <4>1. b + 1 \in 1..(Len(begun) + 1) /\ b + 1 - 1 = b
        BY <2>1
      <4>2. sub = [i \in 1..(Len(begun) - b) |-> begun[b + i]]
        BY <2>1, <4>1
      <4> QED
        BY <2>1, <4>2
    <3>2. DOMAIN sub = 1..Len(traces) /\ sub = [i \in DOMAIN sub |-> sub[i]]
      BY <3>1, LenProperties
    <3>3. \A i \in 1..Len(traces) : traces[i].id = begun[b + i]
      BY DEF Inv, HistoryInv, IdOf
    <3> HIDE DEF sub
    <3> QED
      BY <2>1, <3>1, <3>2, <3>3
  <2>3. \A i \in DOMAIN traces : traces[i].finished <=> pc[traces[i].id] = "done"
    <3> SUFFICES ASSUME NEW i \in DOMAIN traces
                 PROVE  traces[i].finished <=> pc[traces[i].id] = "done"
      OBVIOUS
    <3>1. traces[i].finished = TRUE <=> pc[traces[i].id] = "done"
      BY <2>1 DEF Inv, HistoryInv, IdOf, IsFinished
    <3>2. traces[i].finished \in BOOLEAN
      <4>1. traces[i] \in Trace
        BY <2>1, ElementOfSeq
      <4> QED
        BY <4>1 DEF Trace
    <3> QED
      BY <3>1, <3>2, Zenon
  <2> QED
    BY <2>1, <2>2, <2>3 DEF HistoryIsLatest
<1> QED
  BY <1>1, Invariance, PTL

\* A row that is out of date has its newest state on the way, unless that
\* state met a full channel.
THEOREM RowsAreCaughtUp == Spec => []StaleRowsCatchUp
<1>1. Inv => StaleRowsCatchUp
  <2> SUFFICES ASSUME Inv, screen = "running", NEW i \in DOMAIN shown, NEW j \in DOMAIN traces,
                      shown[i].id = traces[j].id
               PROVE  \/ shown[i] = traces[j]
                      \/ traces[j].id \in dropped
                      \/ \E k \in DOMAIN (message \o events) : (message \o events)[k] = traces[j]
    BY DEF StaleRowsCatchUp
  <2>1. /\ DOMAIN shown = 1..Len(shown) /\ DOMAIN traces = 1..Len(traces)
        /\ DOMAIN Queue = 1..Len(Queue)
    BY Sequences, LenProperties DEF Inv
  <2> QED
    BY <2>1 DEF Inv, RowsCatchUp, Queue, IdOf
<1> QED
  BY <1>1, Invariance, PTL

\* A change that arrives moves the cursor with its trace, unless it is on the
\* newest row or the trace leaves the list (upsert, tui.go).
THEOREM CursorStays == Spec => CursorStaysOnTrace
<1> DEFINE Stays ==
      message # <<>> /\ shown' # shown /\ selected < Len(shown) =>
        \/ shown'[selected'].id = shown[selected].id
        \/ \A i \in DOMAIN shown' : shown'[i].id # shown[selected].id
<1>1. ASSUME Inv, Next, message # <<>>, shown' # shown, selected < Len(shown)
      PROVE  Stays
  <2>1. TraceUpdate
    BY <1>1 DEF Next, Serve, StartDashboard, Snapshot, Receive, Select, Quit, Inv, LoopInv
  <2> DEFINE h == message[1]
  <2>2. h \in Trace /\ Upserted(h)
    BY <1>1, <2>1, UpdateUpserts DEF Inv
  <2> HIDE DEF h
  <2>3. /\ shown \in Seq(Trace) /\ Len(shown) \in Nat /\ Limit \in Nat
        /\ selected \in 1..Len(shown) /\ Alike(shown)
    <3>1. shown \in Seq(Trace) /\ Len(shown) \in Nat /\ DOMAIN shown = 1..Len(shown)
      BY <1>1, Sequences, LenProperties DEF Inv
    <3>2. Alike(shown)
      BY <1>1, <3>1 DEF Inv, TypeOK, Alike, IdOf
    <3>3. selected \in 1..Len(shown)
      <4>1. CASE shown = <<>>
        BY <1>1, <4>1, EmptySeq DEF Inv, TypeOK
      <4>2. CASE shown # <<>>
        BY <1>1, <3>1, <4>2 DEF Inv, TypeOK
      <4> QED
        BY <4>1, <4>2
    <3> QED
      BY <3>1, <3>2, <3>3, DebuggerAssumption
  <2>4. CASE Replaced(shown, h, shown') /\ selected' = selected
    BY <2>3, <2>4 DEF Replaced, IdOf
  <2>5. CASE /\ \A i \in 1..Len(shown) : IdOf(shown[i]) # IdOf(h)
             /\ shown' \in Seq(Trace) /\ Rolled(shown, h, shown')
             /\ selected' = IF Len(shown) = Limit /\ selected > 1 THEN selected - 1
                            ELSE selected
    <3>1. PICK d \in {0, 1} :
            /\ d = 1 <=> Len(shown) = Limit
            /\ Len(shown') = Len(shown) + 1 - d
            /\ shown'[Len(shown')] = h
            /\ \A i \in 1..Len(shown') :
                 i # Len(shown') => i + d \in 1..Len(shown) /\ shown'[i] = shown[i + d]
      BY <2>5 DEF Rolled
    <3>2. DOMAIN shown' = 1..Len(shown')
      BY <2>5, LenProperties
    <3>3. CASE d = 0
      <4>1. selected' = selected
        BY <2>5, <3>1, <3>3
      <4>2. selected \in 1..Len(shown') /\ selected # Len(shown') /\ selected + d = selected
        BY <2>3, <3>1, <3>3
      <4> QED
        BY <3>1, <4>1, <4>2
    <3>4. CASE d = 1 /\ selected > 1
      <4>1. selected' = selected - 1
        BY <2>5, <3>1, <3>4
      <4>2. /\ selected' \in 1..Len(shown') /\ selected' # Len(shown')
            /\ selected' + d = selected
        BY <1>1, <2>3, <3>1, <3>4, <4>1
      <4> QED
        BY <3>1, <4>2
    <3>5. CASE d = 1 /\ ~(selected > 1)
      <4>1. selected = 1
        BY <2>3, <3>5
      <4>2. ASSUME NEW i \in 1..Len(shown') PROVE IdOf(shown'[i]) # IdOf(shown[1])
        <5>1. CASE i = Len(shown')
          BY <2>3, <2>5, <3>1, <4>1, <5>1
        <5>2. CASE i # Len(shown')
          <6>1. i + 1 \in 1..Len(shown) /\ shown'[i] = shown[i + 1] /\ i + 1 # 1
            BY <3>1, <3>5, <5>2
          <6>2. 1 \in 1..Len(shown)
            BY <2>3, <4>1
          <6> QED
            BY <2>3, <6>1, <6>2 DEF Alike
        <5> QED
          BY <5>1, <5>2
      <4> QED
        BY <3>2, <4>1, <4>2 DEF IdOf
    <3> QED
      BY <3>3, <3>4, <3>5
  <2>6. selected # Len(shown)
    BY <1>1, <2>3
  <2> QED
    BY <2>2, <2>4, <2>5, <2>6 DEF Upserted
<1>2. Inv /\ [Next]_vars => [Stays]_vars
  BY <1>1
<1> QED
  BY <1>2, Invariance, PTL DEF Spec, CursorStaysOnTrace

-----------------------------------------------------------------------------
(***************************************************************************)
(* The second invariant says which requests are shown and announced, by    *)
(* their positions in begun.  c[k] requests have been announced when the   *)
(* first k changes of the queue are handled, c[0] = v those that the list  *)
(* has handled.  The list is one of two things: the latest requests up to  *)
(* some e, where the snapshot may have taken requests that the queue still *)
(* announces (InLine); or, when requests had left the history before       *)
(* Subscribe and published after it, the list is wrapped: these requests   *)
(* are added behind the later ones of the snapshot (Wrapped).  When all    *)
(* have been announced both are the history.  Requests at b and before it  *)
(* have no later change in the queue, so that none is added twice.         *)
(***************************************************************************)
\* trace belongs to the request at position q of bs.
At(bs, trace, q) == q \in 1..Len(bs) /\ bs[q] = IdOf(trace)

\* The first u requests of bs have published their new traces, the others have not.
Published(bs, where, u) ==
  /\ u \in 0..Len(bs)
  /\ \A k \in 1..Len(bs) : where[bs[k]] = "publish" <=> k > u

\* A change of the request at q of begun: its first change, the next one to be
\* announced after v, so that w are announced then; or a later one.
NextChange(q, v, w, b) ==
  \/ q = v + 1 /\ w = q
  \/ w = v /\ q <= v /\ q > v - Limit /\ q > b

\* The changes of queue are the next ones, each in its turn.
Announces(bs, queue, c, b) ==
  /\ c \in [0..Len(queue) -> 0..Len(bs)]
  /\ \A k, l \in 0..Len(queue) : k <= l => c[k] <= c[l]
  /\ \A k \in 1..Len(queue) : \E q \in 1..Len(bs) :
       At(bs, queue[k], q) /\ NextChange(q, c[k - 1], c[k], b)

\* The rows are the latest requests up to e, which the snapshot may have taken
\* before they were announced.
InLine(bs, rows, v, b) ==
  \E e \in 0..Len(bs) :
    /\ v <= e /\ e <= v + Limit /\ b = e - Limit
    /\ Len(rows) = IF e < Limit THEN e ELSE Limit
    /\ \A i \in 1..Len(rows) : At(bs, rows[i], e - Len(rows) + i)

\* The rows are requests after v, in front, and the last j up to v, behind.
Wrapped(bs, rows, v, b) ==
  \E j \in 0..Limit :
    /\ b = v - j /\ Len(rows) = Limit
    /\ \A i \in 1..Limit : \E q \in 1..Len(bs) :
         /\ At(bs, rows[i], q)
         /\ i <= Limit - j => q > v + i
         /\ i > Limit - j => q = v - Limit + i

\* The rows, when v requests have been announced to the list.
Rows(bs, rows, v, b) == InLine(bs, rows, v, b) \/ Wrapped(bs, rows, v, b)

\* The queue before the snapshot.
Ready(bs, queue, where, b) ==
  \E c : Announces(bs, queue, c, b) /\ Published(bs, where, c[Len(queue)])

\* The queue and the list after it.
Following(bs, queue, where, rows) ==
  \E c, b : /\ b \in Int /\ b <= Len(bs) - Limit
            /\ Announces(bs, queue, c, b) /\ Published(bs, where, c[Len(queue)])
            /\ Rows(bs, rows, c[0], b)

\* Who has entered the history is in begun; the requests publish in its order,
\* and so are they announced, while announced and calmStart say so.
OrderInv ==
  /\ \A id \in IDs : Known(id) => \E k \in 1..Len(begun) : begun[k] = id
  /\ announced =>
       /\ \E u : Published(begun, pc, u)
       /\ screen = "subscribed" /\ calmStart => Ready(begun, Queue, pc, Len(begun) - Limit)
       /\ screen = "running" /\ calmStart => Following(begun, Queue, pc, shown)

\* No request is twice in bs.
Once(bs) == \A k, l \in 1..Len(bs) : bs[k] = bs[l] => k = l

\* A request enters the history once.
LEMMA BegunOnce ==
  ASSUME TypeOK
  PROVE  Once(begun)
<1>1. DOMAIN begun = 1..Len(begun)
  BY Sequences, LenProperties
<1> QED
  BY <1>1 DEF TypeOK, DebuggerTypeOK, IsInjective, Once

\* Traces with the same ID are at the same position.
LEMMA AtOnce ==
  ASSUME NEW bs, Once(bs), NEW s, NEW t, NEW q, NEW r, At(bs, s, q), At(bs, t, r)
  PROVE  IdOf(s) = IdOf(t) <=> q = r
BY DEF At, Once

\* The history, by positions.
LEMMA HistoryAt ==
  ASSUME Inv
  PROVE  /\ Len(begun) \in Nat /\ Len(traces) \in Nat /\ Len(traces) <= Len(begun)
         /\ Limit \in Nat /\ Limit > 0
         /\ Len(traces) = IF Len(begun) < Limit THEN Len(begun) ELSE Limit
         /\ \A i \in 1..Len(traces) : At(begun, traces[i], Len(begun) - Len(traces) + i)
<1>1. /\ Len(begun) \in Nat /\ Len(traces) \in Nat /\ Len(traces) <= Len(begun)
      /\ Limit \in Nat /\ Limit > 0
      /\ Len(traces) = IF Len(begun) < Limit THEN Len(begun) ELSE Limit
  BY Sequences, DebuggerAssumption DEF Inv, HistoryInv
<1>2. \A i \in 1..Len(traces) : Len(begun) - Len(traces) + i \in 1..Len(begun)
  BY <1>1
<1>3. \A i \in 1..Len(traces) : IdOf(traces[i]) = begun[Len(begun) - Len(traces) + i]
  BY DEF Inv, HistoryInv
<1> QED
  BY <1>1, <1>2, <1>3 DEF At

\* A change that joins the queue and is the next one.
LEMMA AnnouncesJoins ==
  ASSUME NEW bs, Len(bs) \in Nat, NEW queue, Len(queue) \in Nat, NEW c, NEW b \in Int,
         Announces(bs, queue, c, b), NEW trace, NEW new, Joins(queue, trace, new),
         NEW q, At(bs, trace, q), NEW u \in 0..Len(bs), NextChange(q, c[Len(queue)], u, b)
  PROVE  \E d : Announces(bs, new, d, b) /\ d[0] = c[0] /\ d[Len(new)] = u
<1> DEFINE n == Len(queue)
           d == [k \in 0..(n + 1) |-> IF k <= n THEN c[k] ELSE u]
<1>1. /\ n \in Nat /\ Len(new) = n + 1 /\ new[n + 1] = trace
      /\ \A k \in 1..n : new[k] = queue[k]
      /\ q \in 1..Len(bs) /\ u \in 0..Len(bs) /\ Len(bs) \in Nat /\ Limit \in Nat
  BY DebuggerAssumption DEF Joins, At
<1>2. /\ c \in [0..n -> 0..Len(bs)]
      /\ \A k, l \in 0..n : k <= l => c[k] <= c[l]
  BY DEF Announces, NextChange
<1>3. c[n] \in 0..Len(bs) /\ c[n] <= u
  BY <1>1, <1>2 DEF NextChange
<1>4. /\ \A k \in 0..n : d[k] = c[k] /\ c[k] \in 0..Len(bs)
      /\ d[n + 1] = u
  BY <1>1, <1>2
<1>5. d \in [0..(n + 1) -> 0..Len(bs)]
  BY <1>1, <1>2
<1> HIDE DEF n, d
<1>6. ASSUME NEW k \in 0..(n + 1), NEW l \in 0..(n + 1), k <= l
      PROVE  d[k] <= d[l]
  <2>1. CASE l \in 0..n
    BY SMTT(30), <1>1, <1>2, <1>4, <1>6, <2>1
  <2>2. CASE l = n + 1 /\ k \in 0..n
    <3>1. c[k] <= c[n]
      BY <1>1, <1>2, <2>2
    <3>2. c[k] \in Nat /\ c[n] \in Nat /\ u \in Nat
      BY <1>1, <1>3, <1>4, <2>2
    <3> QED
      BY <1>3, <1>4, <2>2, <3>1, <3>2
  <2>3. CASE l = n + 1 /\ k = n + 1
    BY <1>1, <1>4, <2>3
  <2> QED
    BY <1>1, <2>1, <2>2, <2>3
<1>7. ASSUME NEW k \in 1..(n + 1)
      PROVE  \E r \in 1..Len(bs) :
               /\ At(bs, new[k], r)
               /\ \/ r = d[k - 1] + 1 /\ d[k] = r
                  \/ d[k] = d[k - 1] /\ r <= d[k] /\ r > d[k] - Limit /\ r > b
  <2>1. CASE k \in 1..n
    <3>1. PICK r \in 1..Len(bs) :
            /\ At(bs, queue[k], r)
            /\ \/ r = c[k - 1] + 1 /\ c[k] = r
               \/ c[k] = c[k - 1] /\ r <= c[k] /\ r > c[k] - Limit /\ r > b
      BY <2>1 DEF Announces, NextChange, n
    <3>2. d[k] = c[k] /\ d[k - 1] = c[k - 1] /\ new[k] = queue[k]
      BY SMTT(30), <1>1, <1>4, <2>1
    <3> QED
      BY <3>1, <3>2
  <2>2. CASE k = n + 1
    <3>1. d[k] = u /\ d[k - 1] = c[n] /\ new[k] = trace
      BY <1>1, <1>4, <2>2
    <3> QED
      BY <1>1, <3>1 DEF n, NextChange
  <2> QED
    BY <1>1, <2>1, <2>2
<1>8. Announces(bs, new, d, b)
  BY <1>1, <1>5, <1>6, <1>7 DEF Announces, NextChange
<1>9. d[0] = c[0] /\ d[Len(new)] = u
  BY <1>1, <1>4
<1> QED
  BY <1>8, <1>9

\* The queue without its first change, with a new bound for later changes.
LEMMA AnnouncesTaken ==
  ASSUME NEW bs, Len(bs) \in Nat, NEW queue, NEW new, Len(new) \in Nat, NEW c,
         NEW b \in Int, Announces(bs, queue, c, b), Len(queue) = Len(new) + 1,
         \A k \in 1..Len(new) : new[k] = queue[k + 1],
         NEW b2 \in Int, b2 = b \/ b2 <= c[1] - Limit
  PROVE  \E d : Announces(bs, new, d, b2) /\ d[0] = c[1] /\ d[Len(new)] = c[Len(queue)]
<1> DEFINE n == Len(new)
           d == [k \in 0..n |-> c[k + 1]]
<1>1. n \in Nat /\ Len(queue) = n + 1 /\ Len(bs) \in Nat /\ Limit \in Nat
  BY DebuggerAssumption
<1>2. /\ c \in [0..(n + 1) -> 0..Len(bs)]
      /\ \A k, l \in 0..(n + 1) : k <= l => c[k] <= c[l]
  BY <1>1 DEF Announces, NextChange
<1>3. \A k \in 0..n : d[k] = c[k + 1] /\ c[k + 1] \in 0..Len(bs)
  <2>1. \A k \in 0..n : k + 1 \in 0..(n + 1) /\ d[k] = c[k + 1]
    BY <1>1
  <2> QED
    BY <1>2, <2>1
<1>4. d \in [0..n -> 0..Len(bs)]
  BY <1>3
<1>5. d[0] = c[1] /\ d[n] = c[n + 1]
  BY <1>1, <1>3
<1> HIDE DEF n, d
<1>6. \A k, l \in 0..n : k <= l => d[k] <= d[l]
  BY <1>1, <1>2, <1>3
<1>7. ASSUME NEW k \in 1..n
      PROVE  \E q \in 1..Len(bs) :
               /\ At(bs, new[k], q)
               /\ \/ q = d[k - 1] + 1 /\ d[k] = q
                  \/ d[k] = d[k - 1] /\ q <= d[k] /\ q > d[k] - Limit /\ q > b2
  <2>1. k + 1 \in 1..Len(queue) /\ new[k] = queue[k + 1]
    BY <1>1 DEF n
  <2>2. PICK q \in 1..Len(bs) :
          /\ At(bs, queue[k + 1], q)
          /\ \/ q = c[(k + 1) - 1] + 1 /\ c[k + 1] = q
             \/ c[k + 1] = c[(k + 1) - 1] /\ q <= c[k + 1] /\ q > c[k + 1] - Limit /\ q > b
    BY <2>1 DEF Announces, NextChange
  <2>3. /\ (k + 1) - 1 = k /\ (k - 1) + 1 = k /\ k \in 0..n /\ k - 1 \in 0..n
        /\ k + 1 \in 0..(n + 1) /\ 1 \in 0..(n + 1) /\ 1 <= k + 1
    BY <1>1
  <2>4. d[k] = c[k + 1] /\ d[k - 1] = c[k]
    <3>1. d[k] = c[k + 1]
      BY <1>3, <2>3
    <3>2. d[k - 1] = c[(k - 1) + 1]
      BY <1>3, <2>3
    <3> QED
      BY <2>3, <3>1, <3>2
  <2>5. c[1] <= c[k + 1] /\ c[1] \in Nat /\ c[k + 1] \in Nat
    BY <1>2, <2>3
  <2>6. q > c[k + 1] - Limit => (b2 = b \/ q > b2)
    BY SMTT(30), <1>1, <2>5
  <2> QED
    BY <2>1, <2>2, <2>3, <2>4, <2>6
<1>8. Announces(bs, new, d, b2)
  BY <1>4, <1>6, <1>7 DEF Announces, NextChange, n
<1> QED
  BY <1>1, <1>5, <1>8 DEF n

\* What a queue announces, it announces when more requests have begun, and
\* with a lower bound.
LEMMA AnnouncesWeaker ==
  ASSUME NEW bs, NEW queue, NEW c, NEW b \in Int, Announces(bs, queue, c, b),
         NEW more, Len(more) \in Nat, Len(bs) \in Nat, Len(bs) <= Len(more),
         \A k \in 1..Len(bs) : more[k] = bs[k],
         NEW new, Len(new) = Len(queue), \A k \in 1..Len(queue) : new[k] = queue[k],
         NEW b2 \in Int, b2 <= b \/ b2 <= 0
  PROVE  Announces(more, new, c, b2)
<1>1. /\ c \in [0..Len(queue) -> 0..Len(bs)]
      /\ \A k, l \in 0..Len(queue) : k <= l => c[k] <= c[l]
  BY DEF Announces, NextChange
<1>2. c \in [0..Len(new) -> 0..Len(more)]
  BY <1>1
<1>3. ASSUME NEW k \in 1..Len(new)
      PROVE  \E q \in 1..Len(more) :
               /\ At(more, new[k], q)
               /\ \/ q = c[k - 1] + 1 /\ c[k] = q
                  \/ c[k] = c[k - 1] /\ q <= c[k] /\ q > c[k] - Limit /\ q > b2
  <2>1. PICK q \in 1..Len(bs) :
          /\ At(bs, queue[k], q)
          /\ \/ q = c[k - 1] + 1 /\ c[k] = q
             \/ c[k] = c[k - 1] /\ q <= c[k] /\ q > c[k] - Limit /\ q > b
    BY <1>3 DEF Announces, NextChange
  <2>2. q \in 1..Len(more) /\ At(more, new[k], q) /\ (q > b => q > b2)
    BY <1>3, <2>1 DEF At
  <2> QED
    BY <2>1, <2>2
<1> QED
  BY <1>1, <1>2, <1>3 DEF Announces, NextChange

\* The rows stay what they are when more requests have begun.
LEMMA RowsWeaker ==
  ASSUME NEW bs, NEW rows, NEW v, NEW b, Rows(bs, rows, v, b),
         NEW more, Len(more) \in Nat, Len(bs) \in Nat, Len(bs) <= Len(more),
         \A k \in 1..Len(bs) : more[k] = bs[k]
  PROVE  Rows(more, rows, v, b)
<1>1. \A trace, q : At(bs, trace, q) => At(more, trace, q)
  BY DEF At
<1>2. CASE InLine(bs, rows, v, b)
  <2>1. PICK e \in 0..Len(bs) :
          /\ v <= e /\ e <= v + Limit /\ b = e - Limit
          /\ Len(rows) = IF e < Limit THEN e ELSE Limit
          /\ \A i \in 1..Len(rows) : At(bs, rows[i], e - Len(rows) + i)
    BY <1>2 DEF InLine
  <2>2. e \in 0..Len(more) /\ \A i \in 1..Len(rows) : At(more, rows[i], e - Len(rows) + i)
    BY <1>1, <2>1
  <2>3. InLine(more, rows, v, b)
    BY <2>1, <2>2 DEF InLine
  <2> QED
    BY <2>3 DEF Rows
<1>3. CASE Wrapped(bs, rows, v, b)
  <2>1. PICK j \in 0..Limit :
          /\ b = v - j /\ Len(rows) = Limit
          /\ \A i \in 1..Limit : \E q \in 1..Len(bs) :
               /\ At(bs, rows[i], q)
               /\ i <= Limit - j => q > v + i
               /\ i > Limit - j => q = v - Limit + i
    BY <1>3 DEF Wrapped
  <2>2. ASSUME NEW i \in 1..Limit
        PROVE  \E q \in 1..Len(more) :
                 /\ At(more, rows[i], q)
                 /\ i <= Limit - j => q > v + i
                 /\ i > Limit - j => q = v - Limit + i
    <3>1. PICK q \in 1..Len(bs) :
            /\ At(bs, rows[i], q)
            /\ i <= Limit - j => q > v + i
            /\ i > Limit - j => q = v - Limit + i
      BY <2>1
    <3>2. q \in 1..Len(more) /\ At(more, rows[i], q)
      BY <1>1, <3>1
    <3> QED
      BY <3>1, <3>2
  <2>3. Wrapped(more, rows, v, b)
    BY <2>1, <2>2 DEF Wrapped
  <2> QED
    BY <2>3 DEF Rows
<1> QED
  BY <1>2, <1>3 DEF Rows

\* There is one number of requests that have published.
LEMMA PublishedOnce ==
  ASSUME NEW bs, Len(bs) \in Nat, NEW where, NEW u, Published(bs, where, u),
         NEW v, Published(bs, where, v)
  PROVE  u = v
<1>1. /\ u \in 0..Len(bs) /\ v \in 0..Len(bs)
      /\ \A k \in 1..Len(bs) : k > u <=> k > v
  BY DEF Published
<1>2. CASE u < v
  <2>1. u + 1 \in 1..Len(bs) /\ u + 1 > u /\ ~(u + 1 > v)
    BY <1>1, <1>2
  <2> QED
    BY <1>1, <2>1
<1>3. CASE v < u
  <2>1. v + 1 \in 1..Len(bs) /\ v + 1 > v /\ ~(v + 1 > u)
    BY <1>1, <1>3
  <2> QED
    BY <1>1, <2>1
<1> QED
  BY <1>1, <1>2, <1>3

\* The numbers of announced requests are numbers of requests.
LEMMA AnnouncedLast ==
  ASSUME NEW bs, Len(bs) \in Nat, NEW queue, Len(queue) \in Nat, NEW c, NEW b,
         Announces(bs, queue, c, b)
  PROVE  /\ c[0] \in 0..Len(bs) /\ c[Len(queue)] \in 0..Len(bs)
         /\ c[0] <= c[Len(queue)]
BY DEF Announces, NextChange

\* The trace has a row, and the change keeps the rows in their places.
Refreshed(rows, trace, new) ==
  /\ \E i \in 1..Len(rows) : IdOf(rows[i]) = IdOf(trace)
  /\ Len(new) = Len(rows) /\ \A i \in 1..Len(rows) : IdOf(new[i]) = IdOf(rows[i])

\* The trace has no row, and gets one.
Added(rows, trace, new) ==
  /\ \A i \in 1..Len(rows) : IdOf(rows[i]) # IdOf(trace)
  /\ Rolled(rows, trace, new)

\* A change that keeps the rows in their places keeps the list wrapped.
LEMMA RefreshedRows ==
  ASSUME NEW bs, NEW rows, NEW new, Len(new) = Len(rows), Len(rows) \in Nat,
         \A i \in 1..Len(rows) : IdOf(new[i]) = IdOf(rows[i]),
         NEW v, NEW b, Wrapped(bs, rows, v, b)
  PROVE  Wrapped(bs, new, v, b)
<1>1. PICK j \in 0..Limit :
        /\ b = v - j /\ Len(rows) = Limit
        /\ \A i \in 1..Limit : \E q \in 1..Len(bs) :
             /\ At(bs, rows[i], q)
             /\ i <= Limit - j => q > v + i
             /\ i > Limit - j => q = v - Limit + i
  BY DEF Wrapped
<1>2. \A i \in 1..Limit, q \in 1..Len(bs) : At(bs, rows[i], q) => At(bs, new[i], q)
  BY <1>1 DEF At
<1>3. ASSUME NEW i \in 1..Limit
      PROVE  \E q \in 1..Len(bs) :
               /\ At(bs, new[i], q)
               /\ i <= Limit - j => q > v + i
               /\ i > Limit - j => q = v - Limit + i
  <2>1. PICK q \in 1..Len(bs) :
          /\ At(bs, rows[i], q)
          /\ i <= Limit - j => q > v + i
          /\ i > Limit - j => q = v - Limit + i
    BY <1>1
  <2> QED
    BY <1>2, <2>1
<1> QED
  BY <1>1, <1>3 DEF Wrapped

\* A row of the request at q is there when a later change of it arrives.
LEMMA LaterFindsRow ==
  ASSUME NEW bs, Once(bs), Len(bs) \in Nat, NEW rows, Len(rows) \in Nat, NEW trace,
         NEW q, At(bs, trace, q), NEW v \in 0..Len(bs), NEW b \in Int,
         Rows(bs, rows, v, b), q <= v, q > v - Limit, q > b
  PROVE  \E i \in 1..Len(rows) : IdOf(rows[i]) = IdOf(trace)
<1>1. q \in 1..Len(bs) /\ Limit \in Nat
  BY DebuggerAssumption DEF At
<1>2. CASE InLine(bs, rows, v, b)
  <2>1. PICK e \in 0..Len(bs) :
          /\ v <= e /\ e <= v + Limit /\ b = e - Limit
          /\ Len(rows) = IF e < Limit THEN e ELSE Limit
          /\ \A i \in 1..Len(rows) : At(bs, rows[i], e - Len(rows) + i)
    BY <1>2 DEF InLine
  <2> DEFINE i == q - e + Len(rows)
  <2>2. i \in 1..Len(rows) /\ e - Len(rows) + i = q
    BY <1>1, <2>1
  <2>3. At(bs, rows[i], e - Len(rows) + i)
    BY <2>1, <2>2
  <2> HIDE DEF i
  <2> QED
    BY <2>2, <2>3 DEF At
<1>3. CASE Wrapped(bs, rows, v, b)
  <2>1. PICK j \in 0..Limit :
          /\ b = v - j /\ Len(rows) = Limit
          /\ \A k \in 1..Limit : \E p \in 1..Len(bs) :
               /\ At(bs, rows[k], p)
               /\ k <= Limit - j => p > v + k
               /\ k > Limit - j => p = v - Limit + k
    BY <1>3 DEF Wrapped
  <2> DEFINE i == q - v + Limit
  <2>2. i \in 1..Len(rows) /\ i \in 1..Limit /\ i > Limit - j /\ v - Limit + i = q
    BY <1>1, <2>1
  <2> HIDE DEF i
  <2>3. At(bs, rows[i], q)
    BY <2>1, <2>2
  <2> QED
    BY <2>2, <2>3 DEF At
<1> QED
  BY <1>2, <1>3 DEF Rows

\* The first change of the request at v + 1, at an InLine list: it is there
\* already, or it is the next one.
LEMMA FirstInLine ==
  ASSUME NEW bs, Once(bs), Len(bs) \in Nat, NEW rows, Len(rows) \in Nat, NEW new, NEW trace,
         NEW v \in 0..Len(bs), At(bs, trace, v + 1), NEW b \in Int, b <= Len(bs) - Limit,
         InLine(bs, rows, v, b), Refreshed(rows, trace, new) \/ Added(rows, trace, new)
  PROVE  \E b2 \in Int : /\ b2 <= Len(bs) - Limit /\ (b2 = b \/ b2 <= v + 1 - Limit)
                         /\ InLine(bs, new, v + 1, b2)
<1>1. v + 1 \in 1..Len(bs) /\ Limit \in Nat /\ Limit > 0
  BY DebuggerAssumption DEF At
<1>2. PICK e \in 0..Len(bs) :
        /\ v <= e /\ e <= v + Limit /\ b = e - Limit
        /\ Len(rows) = IF e < Limit THEN e ELSE Limit
        /\ \A i \in 1..Len(rows) : At(bs, rows[i], e - Len(rows) + i)
  BY DEF InLine
<1>3. CASE v < e
  <2> DEFINE k == v + 1 - e + Len(rows)
  <2>1. k \in 1..Len(rows) /\ e - Len(rows) + k = v + 1
    BY <1>1, <1>2, <1>3
  <2>2. At(bs, rows[k], e - Len(rows) + k)
    BY <1>2, <2>1
  <2> HIDE DEF k
  <2>3. IdOf(rows[k]) = IdOf(trace)
    BY <2>1, <2>2 DEF At
  <2>4. Len(new) = Len(rows) /\ \A i \in 1..Len(rows) : IdOf(new[i]) = IdOf(rows[i])
    BY <2>1, <2>3 DEF Refreshed, Added
  <2>5. \A i \in 1..Len(new) : At(bs, new[i], e - Len(new) + i)
    BY <1>2, <2>4 DEF At
  <2>6. v + 1 <= e /\ e <= v + 1 + Limit
    BY <1>1, <1>2, <1>3
  <2>7. InLine(bs, new, v + 1, b)
    BY <1>2, <2>4, <2>5, <2>6 DEF InLine
  <2> QED
    BY <2>7
<1>4. CASE v = e
  <2>1. ASSUME NEW i \in 1..Len(rows), IdOf(rows[i]) = IdOf(trace) PROVE FALSE
    <3>1. At(bs, rows[i], e - Len(rows) + i)
      BY <1>2
    <3>2. e - Len(rows) + i = v + 1
      BY <2>1, <3>1, AtOnce
    <3> QED
      BY <1>1, <1>2, <1>4, <2>1, <3>2
  <2>2. Rolled(rows, trace, new)
    BY <2>1 DEF Refreshed, Added
  <2>3. PICK d \in {0, 1} :
          /\ d = 1 <=> Len(rows) = Limit
          /\ Len(new) = Len(rows) + 1 - d /\ Len(new) <= Limit
          /\ new[Len(new)] = trace
          /\ \A i \in 1..Len(new) : i # Len(new) => i + d \in 1..Len(rows) /\ new[i] = rows[i + d]
    BY <2>2 DEF Rolled
  <2> DEFINE f == e + 1
             b2 == f - Limit
  <2>4. Len(new) = (IF f < Limit THEN f ELSE Limit) /\ Len(new) \in Nat
    <3>1. CASE d = 0
      BY <1>1, <1>2, <2>3, <3>1
    <3>2. CASE d = 1
      BY <1>1, <1>2, <2>3, <3>2
    <3> QED
      BY <3>1, <3>2
  <2>5. ASSUME NEW i \in 1..Len(new) PROVE At(bs, new[i], f - Len(new) + i)
    <3>1. CASE i = Len(new)
      <4>1. f - Len(new) + i = v + 1 /\ new[i] = trace
        BY <1>4, <2>3, <2>4, <3>1
      <4> QED
        BY <4>1
    <3>2. CASE i # Len(new)
      <4>1. i + d \in 1..Len(rows) /\ new[i] = rows[i + d]
        BY <2>3, <3>2
      <4>2. At(bs, rows[i + d], e - Len(rows) + (i + d))
        BY <1>2, <4>1
      <4>3. e - Len(rows) + (i + d) = f - Len(new) + i
        <5>1. CASE d = 0
          BY <2>3, <5>1
        <5>2. CASE d = 1
          BY <2>3, <5>2
        <5> QED
          BY <5>1, <5>2
      <4> QED
        BY <4>1, <4>2, <4>3
    <3> QED
      BY <3>1, <3>2
  <2>6. /\ f \in 0..Len(bs) /\ v + 1 <= f /\ f <= v + 1 + Limit
        /\ b2 \in Int /\ b2 <= Len(bs) - Limit /\ b2 <= v + 1 - Limit /\ b2 = f - Limit
    BY <1>1, <1>4
  <2> HIDE DEF f, b2
  <2>7. InLine(bs, new, v + 1, b2)
    BY <2>4, <2>5, <2>6 DEF InLine
  <2> QED
    BY <2>6, <2>7
<1> QED
  BY <1>2, <1>3, <1>4

\* The same at a Wrapped list: it is always added.
LEMMA FirstWrapped ==
  ASSUME NEW bs, Once(bs), Len(bs) \in Nat, NEW rows, Len(rows) \in Nat, NEW new, NEW trace,
         NEW v \in 0..Len(bs), At(bs, trace, v + 1), NEW b \in Int, b <= Len(bs) - Limit,
         Wrapped(bs, rows, v, b), Refreshed(rows, trace, new) \/ Added(rows, trace, new)
  PROVE  \E b2 \in Int : /\ b2 <= Len(bs) - Limit /\ (b2 = b \/ b2 <= v + 1 - Limit)
                         /\ Wrapped(bs, new, v + 1, b2)
<1>1. v + 1 \in 1..Len(bs) /\ Limit \in Nat /\ Limit > 0
  BY DebuggerAssumption DEF At
<1>2. PICK j \in 0..Limit :
        /\ b = v - j /\ Len(rows) = Limit
        /\ \A i \in 1..Limit : \E q \in 1..Len(bs) :
             /\ At(bs, rows[i], q)
             /\ i <= Limit - j => q > v + i
             /\ i > Limit - j => q = v - Limit + i
  BY DEF Wrapped
<1>3. ASSUME NEW i \in 1..Len(rows), IdOf(rows[i]) = IdOf(trace) PROVE FALSE
  <2>1. PICK q \in 1..Len(bs) :
          /\ At(bs, rows[i], q)
          /\ i <= Limit - j => q > v + i
          /\ i > Limit - j => q = v - Limit + i
    BY <1>2
  <2>2. q = v + 1
    BY <1>3, <2>1, AtOnce
  <2> QED
    BY <1>1, <1>2, <2>1, <2>2
<1>4. PICK d \in {0, 1} :
        /\ d = 1 <=> Len(rows) = Limit
        /\ Len(new) = Len(rows) + 1 - d /\ Len(new) <= Limit
        /\ new[Len(new)] = trace
        /\ \A i \in 1..Len(new) : i # Len(new) => i + d \in 1..Len(rows) /\ new[i] = rows[i + d]
  BY <1>3 DEF Refreshed, Added, Rolled
<1>5. d = 1 /\ Len(new) = Limit
  BY <1>1, <1>2, <1>4
<1> DEFINE l == IF j < Limit THEN j + 1 ELSE Limit
           b2 == v + 1 - l
<1>6. /\ l \in 0..Limit /\ l <= j + 1 /\ (l = j + 1 \/ l = Limit) /\ b2 = v + 1 - l
      /\ b2 \in Int /\ b2 <= Len(bs) - Limit /\ (b2 = b \/ b2 <= v + 1 - Limit)
  <2>1. CASE j < Limit
    BY <1>1, <1>2, <2>1
  <2>2. CASE ~(j < Limit)
    BY <1>1, <1>2, <2>2
  <2> QED
    BY <2>1, <2>2
<1> HIDE DEF l, b2
<1>7. ASSUME NEW i \in 1..Limit
      PROVE  \E q \in 1..Len(bs) :
               /\ At(bs, new[i], q)
               /\ i <= Limit - l => q > v + 1 + i
               /\ i > Limit - l => q = v + 1 - Limit + i
  <2>1. CASE i = Limit
    <3>1. new[i] = trace /\ i > Limit - l /\ v + 1 - Limit + i = v + 1
      <4>1. l > 0
        BY <1>1, <1>2, <1>6
      <4> QED
        BY <1>1, <1>4, <1>5, <1>6, <2>1, <4>1
    <3>2. ~(i <= Limit - l)
      BY <1>1, <1>6, <3>1
    <3> QED
      BY <1>1, <3>1, <3>2
  <2>2. CASE i # Limit
    <3>1. i + 1 \in 1..Limit /\ new[i] = rows[i + 1]
      BY <1>1, <1>2, <1>4, <1>5, <2>2
    <3>2. PICK q \in 1..Len(bs) :
            /\ At(bs, rows[i + 1], q)
            /\ i + 1 <= Limit - j => q > v + (i + 1)
            /\ i + 1 > Limit - j => q = v - Limit + (i + 1)
      BY <1>2, <3>1
    <3>3. i <= Limit - l => q > v + 1 + i
      BY <1>1, <1>2, <1>6, <2>2, <3>2
    <3>4. i > Limit - l => q = v + 1 - Limit + i
      BY <1>1, <1>2, <1>6, <2>2, <3>2
    <3> QED
      BY <3>1, <3>2, <3>3, <3>4
  <2> QED
    BY <2>1, <2>2
<1>8. Wrapped(bs, new, v + 1, b2)
  BY <1>5, <1>6, <1>7 DEF Wrapped
<1> QED
  BY <1>6, <1>8

\* A list that follows the changes handled so far follows the next one too.
LEMMA NextRows ==
  ASSUME NEW bs, Once(bs), Len(bs) \in Nat, NEW rows, Len(rows) \in Nat, NEW new, NEW trace,
         NEW q, At(bs, trace, q), NEW v \in 0..Len(bs), NEW w, NEW b \in Int,
         b <= Len(bs) - Limit, Rows(bs, rows, v, b), NextChange(q, v, w, b),
         Refreshed(rows, trace, new) \/ Added(rows, trace, new)
  PROVE  \E b2 \in Int : /\ b2 <= Len(bs) - Limit /\ (b2 = b \/ b2 <= w - Limit)
                         /\ Rows(bs, new, w, b2)
<1>1. CASE q = v + 1 /\ w = q
  <2>1. At(bs, trace, v + 1) /\ w = v + 1
    BY <1>1
  <2>2. CASE InLine(bs, rows, v, b)
    <3>1. PICK b2 \in Int : /\ b2 <= Len(bs) - Limit /\ (b2 = b \/ b2 <= v + 1 - Limit)
                            /\ InLine(bs, new, v + 1, b2)
      BY <2>1, <2>2, FirstInLine
    <3>2. InLine(bs, new, w, b2)
      BY <2>1, <3>1, Zenon
    <3>3. b2 <= Len(bs) - Limit /\ (b2 = b \/ b2 <= w - Limit)
      BY <2>1, <3>1, DebuggerAssumption
    <3> QED
      BY <3>2, <3>3 DEF Rows
  <2>3. CASE Wrapped(bs, rows, v, b)
    <3>1. PICK b2 \in Int : /\ b2 <= Len(bs) - Limit /\ (b2 = b \/ b2 <= v + 1 - Limit)
                            /\ Wrapped(bs, new, v + 1, b2)
      BY <2>1, <2>3, FirstWrapped
    <3>2. Wrapped(bs, new, w, b2)
      BY <2>1, <3>1, Zenon
    <3>3. b2 <= Len(bs) - Limit /\ (b2 = b \/ b2 <= w - Limit)
      BY <2>1, <3>1, DebuggerAssumption
    <3> QED
      BY <3>2, <3>3 DEF Rows
  <2> QED
    BY <2>2, <2>3 DEF Rows
<1>2. CASE w = v /\ q <= v /\ q > v - Limit /\ q > b
  <2>1. \E i \in 1..Len(rows) : IdOf(rows[i]) = IdOf(trace)
    BY <1>2, LaterFindsRow
  <2>2. Len(new) = Len(rows) /\ \A i \in 1..Len(rows) : IdOf(new[i]) = IdOf(rows[i])
    BY <2>1 DEF Refreshed, Added
  <2>3. CASE InLine(bs, rows, v, b)
    <3>1. PICK e \in 0..Len(bs) :
            /\ v <= e /\ e <= v + Limit /\ b = e - Limit
            /\ Len(rows) = IF e < Limit THEN e ELSE Limit
            /\ \A i \in 1..Len(rows) : At(bs, rows[i], e - Len(rows) + i)
      BY <2>3 DEF InLine
    <3>2. \A i \in 1..Len(new) : At(bs, new[i], e - Len(new) + i)
      BY <2>2, <3>1 DEF At
    <3>3. InLine(bs, new, v, b)
      BY <2>2, <3>1, <3>2 DEF InLine
    <3> QED
      BY <1>2, <3>3 DEF Rows
  <2>4. CASE Wrapped(bs, rows, v, b)
    BY <1>2, <2>2, <2>4, RefreshedRows DEF Rows
  <2> QED
    BY <2>3, <2>4 DEF Rows
<1> QED
  BY <1>1, <1>2 DEF NextChange

-----------------------------------------------------------------------------
\* Published looks at nothing but who has yet to publish.
LEMMA PublishedSame ==
  ASSUME NEW bs, NEW where, NEW u, Published(bs, where, u), NEW where2,
         \A k \in 1..Len(bs) : where2[bs[k]] = "publish" <=> where[bs[k]] = "publish"
  PROVE  Published(bs, where2, u)
BY DEF Published

\* What the steps that announce nothing leave alone.
Quietly ==
  /\ begun' = begun /\ shown' = shown /\ screen' = screen
  /\ announced' => announced
  /\ calmStart' => calmStart
  /\ \A id \in IDs : Known(id)' => Known(id)
  /\ \A k \in 1..Len(begun) : pc'[begun[k]] = "publish" <=> pc[begun[k]] = "publish"

\* Steps that announce nothing keep the second invariant.
LEMMA QuietlyKeepsOrder ==
  ASSUME TypeOK, OrderInv, Quietly, Len(Queue') = Len(Queue),
         \A k \in 1..Len(Queue) : Queue'[k] = Queue[k]
  PROVE  OrderInv'
<1>1. Len(begun) \in Nat /\ Limit \in Nat
  BY Sequences, DebuggerAssumption
<1>2. \A c, b : b \in Int /\ Announces(begun, Queue, c, b) => Announces(begun, Queue', c, b)
  BY <1>1, AnnouncesWeaker
<1>3. \A u : Published(begun, pc, u) => Published(begun, pc', u)
  BY PublishedSame DEF Quietly
<1>4. \A id \in IDs : Known(id)' => \E k \in 1..Len(begun) : begun[k] = id
  BY DEF Quietly, OrderInv
<1>5. \A b \in Int : Ready(begun, Queue, pc, b) => Ready(begun, Queue', pc', b)
  BY <1>2, <1>3 DEF Ready
<1>6. Following(begun, Queue, pc, shown) => Following(begun, Queue', pc', shown)
  BY <1>2, <1>3 DEF Following
<1>7. Len(begun) - Limit \in Int
  BY <1>1
<1> QED
  BY <1>3, <1>4, <1>5, <1>6, <1>7 DEF Quietly, OrderInv

\* A change that is published joins the queue.
LEMMA JoinedKeepsOrder ==
  ASSUME Inv, OrderInv, NEW trace, Joins(Queue, trace, Queue'),
         begun' = begun, shown' = shown, screen' = screen, calmStart' => calmStart, announced,
         \A id \in IDs : Known(id)' => Known(id),
         NEW q, At(begun, trace, q), NEW u, Published(begun, pc, u),
         NEW w, Published(begun, pc', w),
         \/ w = u /\ q <= u /\ q > Len(begun) - Limit
         \/ w = q /\ q = u + 1
  PROVE  OrderInv'
<1>1. /\ Len(begun) \in Nat /\ Limit \in Nat /\ Len(Queue) \in Nat
      /\ Len(Queue') = Len(Queue) + 1 /\ Len(Queue') \in Nat
      /\ q \in 1..Len(begun) /\ u \in 0..Len(begun) /\ w \in 0..Len(begun)
  BY Sequences, LenProperties, DebuggerAssumption DEF Inv, Joins, At, Published
<1>2. ASSUME NEW c, NEW b \in Int, b <= Len(begun) - Limit,
             Announces(begun, Queue, c, b), Published(begun, pc, c[Len(Queue)])
      PROVE  \E d : Announces(begun, Queue', d, b) /\ d[0] = c[0] /\ d[Len(Queue')] = w
  <2>1. c[Len(Queue)] = u
    BY <1>1, <1>2, PublishedOnce
  <2>2. NextChange(q, c[Len(Queue)], w, b)
    BY <1>1, <1>2, <2>1 DEF NextChange
  <2> QED
    BY <1>1, <1>2, <2>2, AnnouncesJoins
<1>3. \A id \in IDs : Known(id)' => \E k \in 1..Len(begun) : begun[k] = id
  BY DEF OrderInv
<1>4. Ready(begun, Queue, pc, Len(begun) - Limit) => Ready(begun, Queue', pc', Len(begun) - Limit)
  <2>1. Len(begun) - Limit \in Int /\ Len(begun) - Limit <= Len(begun) - Limit
    BY <1>1
  <2> QED
    BY <1>2, <2>1 DEF Ready
<1>5. Following(begun, Queue, pc, shown) => Following(begun, Queue', pc', shown)
  <2> SUFFICES ASSUME NEW c, NEW b \in Int, b <= Len(begun) - Limit,
                      Announces(begun, Queue, c, b), Published(begun, pc, c[Len(Queue)]),
                      Rows(begun, shown, c[0], b)
               PROVE  Following(begun, Queue', pc', shown)
    BY DEF Following
  <2>1. PICK d : Announces(begun, Queue', d, b) /\ d[0] = c[0] /\ d[Len(Queue')] = w
    BY <1>2
  <2> QED
    BY <2>1 DEF Following
<1> QED
  BY <1>3, <1>4, <1>5 DEF OrderInv

\* A retained trace belongs to one of the latest requests.
LEMMA RetainedAt ==
  ASSUME Inv, NEW id \in IDs, Retained(id)
  PROVE  \E q \in 1..Len(begun) : begun[q] = id /\ q > Len(begun) - Limit
<1>1. PICK i \in 1..Len(traces) : IdOf(traces[i]) = id
  BY Sequences, LenProperties DEF Inv, Retained, IdOf
<1>2. At(begun, traces[i], Len(begun) - Len(traces) + i)
  BY HistoryAt
<1>3. Len(begun) \in Nat /\ Len(traces) \in Nat /\ Limit \in Nat /\ Len(traces) <= Limit
  BY HistoryAt DEF Inv, TypeOK, DebuggerTypeOK
<1> QED
  BY <1>1, <1>2, <1>3 DEF At

\* update publishes a later change of a retained trace.
LEMMA UpdateKeepsOrder ==
  ASSUME Inv, OrderInv, NEW id \in IDs, pc[id] = "serve", NEW trace, Update(id, trace),
         Retained(id) => trace \in Trace /\ IdOf(trace) = id,
         pc'[id] \in {"serve", "done"}, \A x \in IDs : x # id => pc'[x] = pc[x],
         UNCHANGED <<begun, announced, screen, message, shown>>, calmStart' => calmStart
  PROVE  OrderInv'
<1>1. /\ \A x \in IDs : Known(x)' => Known(x)
      /\ \A x \in IDs : pc'[x] = "publish" <=> pc[x] = "publish"
  BY DEF Known
<1>2. \A k \in 1..Len(begun) : begun[k] \in IDs
  BY Sequences DEF Inv
<1>3. Quietly
  BY <1>1, <1>2 DEF Quietly
<1>4. CASE events' = events
  <2>1. Queue' = Queue
    BY <1>4 DEF Queue
  <2> QED
    BY <1>3, <2>1, QuietlyKeepsOrder DEF Inv
<1>5. CASE ~announced
  BY <1>1, <1>5 DEF OrderInv
<1>6. CASE events' # events /\ announced
  <2>1. Retained(id) /\ Publish(trace) /\ trace \in Trace /\ IdOf(trace) = id
    <3>1. Retained(id)
      BY <1>6 DEF Update
    <3> QED
      BY <3>1 DEF Update
  <2>2. Joins(Queue, trace, Queue')
    BY <1>6, <2>1, PublishOutcome DEF Inv, Outcome
  <2>3. PICK q \in 1..Len(begun) : begun[q] = id /\ q > Len(begun) - Limit
    BY <2>1, RetainedAt
  <2>4. PICK u : Published(begun, pc, u)
    BY <1>6 DEF OrderInv
  <2>5. Published(begun, pc', u)
    BY <1>1, <1>2, <2>4, PublishedSame
  <2>6. q <= u
    BY <2>3, <2>4, Sequences DEF Published, Inv
  <2>7. At(begun, trace, q)
    BY <2>1, <2>3 DEF At
  <2>8. begun' = begun /\ shown' = shown /\ screen' = screen /\ (calmStart' => calmStart)
    OBVIOUS
  <2>9. u = u /\ q <= u /\ q > Len(begun) - Limit
    BY <2>3, <2>6
  <2> QED
    BY <1>1, <1>6, <2>2, <2>4, <2>5, <2>7, <2>8, <2>9, JoinedKeepsOrder
<1> QED
  BY <1>4, <1>5, <1>6

\* A change before Finish keeps the second invariant.
LEMMA RecordKeepsOrder ==
  ASSUME Inv, OrderInv, Still, calmStart' => calmStart, NEW id \in IDs, Record(id)
  PROVE  OrderInv'
<1> DEFINE trace == [TraceOf(id) EXCEPT !.updates = @ + 1]
<1>1. /\ pc[id] = "serve" /\ pc' = pc /\ Update(id, trace)
      /\ UNCHANGED <<begun, announced>>
  BY DEF Record
<1>2. ASSUME Retained(id) PROVE trace \in Trace /\ IdOf(trace) = id
  <2>1. TraceOf(id) \in Trace /\ IdOf(TraceOf(id)) = id
    BY <1>2, RetainedTrace DEF Inv
  <2>2. UpdatesOf(TraceOf(id)) < MaxUpdates
    BY <1>2 DEF Record, UpdatesOf
  <2> QED
    BY <2>1, <2>2, ChangedFields
<1> HIDE DEF trace
<1> QED
  BY <1>1, <1>2, UpdateKeepsOrder DEF Still

\* Finish keeps the second invariant.
LEMMA FinishKeepsOrder ==
  ASSUME Inv, OrderInv, Still, calmStart' => calmStart, NEW id \in IDs, Finish(id)
  PROVE  OrderInv'
<1> DEFINE trace == [TraceOf(id) EXCEPT !.finished = TRUE]
<1>1. /\ pc[id] = "serve" /\ pc' = [pc EXCEPT ![id] = "done"] /\ Update(id, trace)
      /\ UNCHANGED <<begun, announced>>
  BY DEF Finish
<1>2. pc'[id] = "done" /\ \A x \in IDs : x # id => pc'[x] = pc[x]
  BY <1>1 DEF Inv, TypeOK, DebuggerTypeOK
<1>3. ASSUME Retained(id) PROVE trace \in Trace /\ IdOf(trace) = id
  BY <1>3, RetainedTrace, ChangedFields DEF Inv
<1> HIDE DEF trace
<1> QED
  BY <1>1, <1>2, <1>3, UpdateKeepsOrder DEF Still

\* The first change of a request: the oldest that has not published, if no
\* change is announced out of order.
LEMMA PublishBegunKeepsOrder ==
  ASSUME Inv, OrderInv, Still, calmStart' => calmStart, NEW id \in IDs, PublishBegun(id)
  PROVE  OrderInv'
<1> DEFINE trace == NewTrace(id)
<1>1. /\ pc[id] = "publish" /\ pc' = [pc EXCEPT ![id] = "serve"] /\ Publish(trace)
      /\ begun' = begun /\ subscribed' = subscribed
      /\ announced' = (announced /\ (subscribed => events' # events)
                         /\ \A i, j \in DOMAIN begun :
                              i < j /\ begun[j] = id => pc[begun[i]] # "publish")
  BY DEF PublishBegun
<1>2. pc'[id] = "serve" /\ \A x \in IDs : x # id => pc'[x] = pc[x]
  BY <1>1 DEF Inv, TypeOK, DebuggerTypeOK
<1>3. trace \in Trace /\ IdOf(trace) = id
  BY NewTraceFields
<1> HIDE DEF trace
<1>4. \A x \in IDs : Known(x)' => Known(x)
  BY <1>1, <1>2 DEF Known
<1>5. CASE ~announced'
  BY <1>1, <1>4, <1>5 DEF OrderInv
<1>6. CASE announced'
  <2>1. /\ announced /\ (subscribed => events' # events)
        /\ \A i, j \in DOMAIN begun : i < j /\ begun[j] = id => pc[begun[i]] # "publish"
    BY <1>1, <1>6
  <2>2. /\ Len(begun) \in Nat /\ DOMAIN begun = 1..Len(begun) /\ Limit \in Nat /\ Limit > 0
        /\ \A k \in 1..Len(begun) : begun[k] \in IDs
    BY Sequences, LenProperties, DebuggerAssumption DEF Inv
  <2>3. PICK u : Published(begun, pc, u)
    BY <2>1 DEF OrderInv
  <2>4. PICK q \in 1..Len(begun) : begun[q] = id
    BY <1>1 DEF OrderInv, Known
  <2>5. q = u + 1
    <3>1. u \in 0..Len(begun) /\ q > u
      BY <1>1, <2>3, <2>4 DEF Published
    <3>2. CASE u + 1 < q
      <4>1. u + 1 \in 1..Len(begun) /\ u + 1 > u
        BY <2>2, <3>1, <3>2
      <4>2. pc[begun[u + 1]] = "publish"
        BY <2>3, <4>1 DEF Published
      <4> QED
        BY <2>1, <2>2, <2>4, <3>2, <4>1, <4>2
    <3> QED
      BY <2>2, <3>1, <3>2
  <2>6. Published(begun, pc', q)
    <3>1. ASSUME NEW k \in 1..Len(begun) PROVE pc'[begun[k]] = "publish" <=> k > q
      <4>1. CASE k = q
        BY <1>2, <2>4, <4>1
      <4>2. CASE k # q
        <5>1. begun[k] # id
          BY <2>4, <4>2, BegunOnce DEF Once, Inv
        <5>2. pc'[begun[k]] = pc[begun[k]]
          BY <1>2, <2>2, <5>1
        <5>3. pc[begun[k]] = "publish" <=> k > u
          BY <2>3 DEF Published
        <5>4. k > u <=> k > q
          BY <2>2, <2>3, <2>5, <4>2 DEF Published
        <5> QED
          BY <5>2, <5>3, <5>4
      <4> QED
        BY <4>1, <4>2
    <3> QED
      BY <3>1 DEF Published
  <2>7. CASE ~subscribed
    <3>1. screen' \notin {"subscribed", "running"}
      BY <2>7 DEF Still, Inv, LoopInv
    <3> QED
      BY <1>1, <1>4, <2>6, <3>1 DEF OrderInv
  <2>8. CASE subscribed
    <3>1. Joins(Queue, trace, Queue')
      BY <1>1, <1>3, <2>1, <2>8, PublishOutcome DEF Inv, Outcome, Still
    <3>2. At(begun, trace, q)
      BY <1>3, <2>4 DEF At
    <3>3. begun' = begun /\ shown' = shown /\ screen' = screen /\ (calmStart' => calmStart)
      BY <1>1 DEF Still
    <3> QED
      BY <1>4, <2>1, <2>3, <2>5, <2>6, <3>1, <3>2, <3>3, JoinedKeepsOrder
  <2> QED
    BY <2>7, <2>8
<1> QED
  BY <1>5, <1>6

\* A new trace is pending.
LEMMA AppendTraceKeepsOrder ==
  ASSUME Inv, OrderInv, Still, NEW id \in IDs, AppendTrace(id),
         calmStart' = (calmStart /\ (screen = "subscribed" =>
                         \A i \in DOMAIN traces :
                           \E j \in DOMAIN traces' : traces'[j].id = traces[i].id))
  PROVE  OrderInv'
<1>1. /\ pc[id] = "append" /\ pc' = [pc EXCEPT ![id] = "publish"]
      /\ traces' = Latest(Append(traces, NewTrace(id))) /\ begun' = Append(begun, id)
      /\ events' = events /\ announced' = announced
  BY DEF AppendTrace
<1>2. pc'[id] = "publish" /\ \A x \in IDs : x # id => pc'[x] = pc[x]
  BY <1>1 DEF Inv, TypeOK, DebuggerTypeOK
<1> DEFINE n == Len(begun)
<1>3. /\ n \in Nat /\ Len(begun') = n + 1 /\ Len(begun') \in Nat /\ begun'[n + 1] = id
      /\ \A k \in 1..n : begun'[k] = begun[k] /\ begun[k] \in IDs
      /\ Limit \in Nat /\ Limit > 0
  BY <1>1, Sequences, AppendProperties, DebuggerAssumption DEF Inv
<1>4. \A k \in 1..n : begun[k] # id /\ pc'[begun[k]] = pc[begun[k]]
  <2>1. \A k \in 1..n : begun[k] # id
    BY <1>1 DEF Inv, HistoryInv, Known
  <2> QED
    BY <1>2, <1>3, <2>1
<1>5. Queue' = Queue
  BY <1>1 DEF Queue, Still
<1>6. \A x \in IDs : Known(x)' => \E k \in 1..Len(begun') : begun'[k] = x
  <2> SUFFICES ASSUME NEW x \in IDs, Known(x)'
               PROVE  \E k \in 1..Len(begun') : begun'[k] = x
    OBVIOUS
  <2>1. CASE x = id
    BY <1>3, <2>1
  <2>2. CASE x # id
    <3>1. Known(x)
      BY <1>2, <2>2 DEF Known
    <3>2. PICK k \in 1..n : begun[k] = x
      BY <3>1 DEF OrderInv
    <3> QED
      BY <1>3, <3>2
  <2> QED
    BY <2>1, <2>2
<1>7. ASSUME NEW u, Published(begun, pc, u) PROVE Published(begun', pc', u)
  <2>1. u \in 0..n /\ \A k \in 1..n : pc[begun[k]] = "publish" <=> k > u
    BY <1>7 DEF Published
  <2>2. ASSUME NEW k \in 1..Len(begun') PROVE pc'[begun'[k]] = "publish" <=> k > u
    <3>1. CASE k = n + 1
      BY <1>2, <1>3, <2>1, <3>1
    <3>2. CASE k \in 1..n
      BY <1>3, <1>4, <2>1, <3>2
    <3> QED
      BY <1>3, <3>1, <3>2
  <2>3. u \in 0..Len(begun')
    BY <1>3, <2>1
  <2> QED
    BY <2>2, <2>3 DEF Published
<1>8. ASSUME NEW c, NEW b \in Int, Announces(begun, Queue, c, b), NEW b2 \in Int, b2 <= b \/ b2 <= 0
      PROVE  Announces(begun', Queue, c, b2)
  <2>1. Len(begun) <= Len(begun')
    BY <1>3
  <2> QED
    BY <1>3, <1>8, <2>1, AnnouncesWeaker DEF n
<1>9. ASSUME screen = "subscribed", calmStart'
      PROVE  Len(begun') - Limit <= 0
  <2>1. CASE Len(traces) = Limit
    <3>1. /\ traces \in Seq(Trace) /\ Len(traces) \in Nat /\ DOMAIN traces = 1..Len(traces)
          /\ traces' \in Seq(Trace) /\ Rolled(traces, NewTrace(id), traces')
      BY <1>1, NewTraceFields, Sequences, LenProperties, AppendRolls
         DEF Inv, TypeOK, DebuggerTypeOK
    <3>2. Len(traces') \in Nat /\ DOMAIN traces' = 1..Len(traces') /\ 1 \in 1..Len(traces)
      BY <1>3, <2>1, <3>1, LenProperties
    <3>3. PICK j \in 1..Len(traces') : IdOf(traces'[j]) = IdOf(traces[1])
      BY <1>9, <3>1, <3>2 DEF IdOf
    <3>4. CASE j = Len(traces')
      <4>1. traces'[j] = NewTrace(id)
        BY <3>1, <3>4 DEF Rolled
      <4>2. IdOf(traces[1]) = id
        BY <3>3, <4>1, NewTraceFields
      <4>3. At(begun, traces[1], Len(begun) - Len(traces) + 1)
        BY <3>2, HistoryAt
      <4> QED
        BY <1>4, <4>2, <4>3 DEF At
    <3>5. CASE j # Len(traces')
      <4>1. j + 1 \in 1..Len(traces) /\ traces'[j] = traces[j + 1]
        BY <2>1, <3>1, <3>5 DEF Rolled
      <4>2. j + 1 = 1
        BY <3>2, <3>3, <4>1, TracesAlike DEF Alike, Inv
      <4> QED
        BY <4>2
    <3> QED
      BY <3>4, <3>5
  <2>2. CASE Len(traces) # Limit
    <3>1. n < Limit
      BY <1>3, <2>2, HistoryAt
    <3> QED
      BY <1>3, <3>1
  <2> QED
    BY <2>1, <2>2
<1>10. CASE ~announced
  BY <1>1, <1>6, <1>10 DEF OrderInv
<1>11. CASE announced
  <2>1. \E u : Published(begun', pc', u)
    BY <1>7, <1>11 DEF OrderInv
  <2>2. ASSUME screen = "subscribed", calmStart'
        PROVE  Ready(begun', Queue, pc', Len(begun') - Limit)
    <3>1. PICK c : Announces(begun, Queue, c, n - Limit) /\ Published(begun, pc, c[Len(Queue)])
      BY <1>11, <2>2 DEF OrderInv, Ready
    <3>2. n - Limit \in Int /\ Len(begun') - Limit \in Int /\ Len(begun') - Limit <= 0
      BY <1>3, <1>9, <2>2
    <3>3. Announces(begun', Queue, c, Len(begun') - Limit)
      BY <1>8, <3>1, <3>2
    <3> QED
      BY <1>7, <3>1, <3>3 DEF Ready
  <2>3. ASSUME screen = "running", calmStart'
        PROVE  Following(begun', Queue, pc', shown)
    <3>1. PICK c, b : /\ b \in Int /\ b <= Len(begun) - Limit
                      /\ Announces(begun, Queue, c, b) /\ Published(begun, pc, c[Len(Queue)])
                      /\ Rows(begun, shown, c[0], b)
      BY <1>11, <2>3 DEF OrderInv, Following
    <3>2. b \in Int /\ b <= Len(begun') - Limit /\ b <= b /\ Len(begun) <= Len(begun')
      BY <1>3, <3>1
    <3>3. Announces(begun', Queue, c, b)
      BY <1>8, <3>1, <3>2
    <3>4. Rows(begun', shown, c[0], b)
      BY <1>3, <3>1, <3>2, RowsWeaker DEF n
    <3> QED
      BY <1>7, <3>1, <3>2, <3>3, <3>4 DEF Following
  <2> QED
    BY <1>5, <1>6, <2>1, <2>2, <2>3 DEF OrderInv, Still
<1> QED
  BY <1>10, <1>11

\* An ID that is taken is not in begun.
LEMMA TakeIDKeepsOrder ==
  ASSUME Inv, OrderInv, Still, calmStart' => calmStart, TakeID
  PROVE  OrderInv'
<1>1. /\ nextID < MaxRequests /\ pc' = [pc EXCEPT ![nextID + 1] = "append"]
      /\ begun' = begun /\ events' = events /\ announced' = announced
  BY DEF TakeID
<1>2. nextID + 1 \in IDs /\ nextID + 1 > nextID
  BY <1>1, DebuggerAssumption DEF Inv, TypeOK, DebuggerTypeOK, IDs
<1>3. /\ pc[nextID + 1] = "new" /\ pc'[nextID + 1] = "append"
      /\ \A x \in IDs : x # nextID + 1 => pc'[x] = pc[x]
  BY <1>1, <1>2 DEF Inv, TypeOK, DebuggerTypeOK, HistoryInv
<1>4. /\ \A x \in IDs : Known(x)' => Known(x)
      /\ \A x \in IDs : pc'[x] = "publish" <=> pc[x] = "publish"
  BY <1>3 DEF Known
<1>5. Quietly
  BY <1>1, <1>4, Sequences DEF Quietly, Still, Inv
<1>6. Queue' = Queue
  BY <1>1 DEF Queue, Still
<1> QED
  BY <1>5, <1>6, QuietlyKeepsOrder DEF Inv

\* Subscribe starts with an empty channel.
LEMMA StartKeepsOrder ==
  ASSUME Inv, OrderInv, StartDashboard
  PROVE  OrderInv'
<1>1. /\ screen = "off" /\ screen' = "subscribed"
      /\ UNCHANGED <<pc, events, begun, announced, message, shown, calmStart>>
  BY DEF StartDashboard, Subscribe
<1>2. events = <<>> /\ message = <<>>
  BY <1>1 DEF Inv, LoopInv
<1>3. Len(Queue') = 0
  <2>1. Queue' = <<>> \o <<>>
    BY <1>1, <1>2 DEF Queue
  <2> QED
    BY <2>1
<1>4. ASSUME NEW u, Published(begun, pc, u)
      PROVE  Ready(begun, Queue', pc, Len(begun) - Limit)
  <2> DEFINE c == [k \in 0..0 |-> u]
  <2>1. u \in 0..Len(begun) /\ Len(begun) \in Nat
    BY <1>4, Sequences DEF Published, Inv
  <2>2. /\ c \in [0..0 -> 0..Len(begun)] /\ c[0] = u
        /\ \A k, l \in 0..0 : k <= l => c[k] <= c[l]
    <3>1. \A k \in 0..0 : k = 0 /\ c[k] = u
      OBVIOUS
    <3>2. c[0] = u
      BY <3>1
    <3>3. u <= u
      BY <2>1
    <3> QED
      BY <2>1, <3>1, <3>2, <3>3
  <2> HIDE DEF c
  <2>3. 1..0 = {}
    OBVIOUS
  <2>4. Announces(begun, Queue', c, Len(begun) - Limit)
    BY <1>3, <2>2, <2>3 DEF Announces, NextChange
  <2>5. Published(begun, pc, c[Len(Queue')])
    BY <1>3, <1>4, <2>2
  <2> QED
    BY <2>4, <2>5 DEF Ready
<1> QED
  BY <1>1, <1>4 DEF OrderInv, Known

\* The list is the history; what the queue announces of it is not news.
LEMMA SnapshotKeepsOrder ==
  ASSUME Inv, OrderInv, Snapshot
  PROVE  OrderInv'
<1>1. /\ screen = "subscribed" /\ screen' = "running" /\ shown' = traces
      /\ UNCHANGED <<pc, events, begun, announced, message, calmStart>>
  BY DEF Snapshot, debuggerVars
<1>2. Queue' = Queue
  BY <1>1 DEF Queue
<1> DEFINE n == Len(begun)
<1>3. /\ n \in Nat /\ Len(traces) \in Nat /\ Limit \in Nat /\ Limit > 0 /\ n - Limit \in Int
      /\ Len(Queue) \in Nat
      /\ Len(traces) = IF n < Limit THEN n ELSE Limit
      /\ \A i \in 1..Len(traces) : At(begun, traces[i], n - Len(traces) + i)
  BY HistoryAt, Sequences, LenProperties DEF Inv
<1> HIDE DEF n
<1>4. ASSUME announced, calmStart PROVE Following(begun, Queue, pc, traces)
  <2>1. PICK c : Announces(begun, Queue, c, n - Limit) /\ Published(begun, pc, c[Len(Queue)])
    BY <1>1, <1>4 DEF OrderInv, Ready, n
  <2>2. c[0] \in 0..n
    BY <1>3, <2>1, AnnouncedLast DEF n
  <2>3. CASE c[0] >= n - Limit
    <3>1. n \in 0..n /\ c[0] <= n /\ n <= c[0] + Limit
      BY <1>3, <2>2, <2>3
    <3>2. InLine(begun, traces, c[0], n - Limit)
      BY <1>3, <3>1 DEF InLine, n
    <3>3. Rows(begun, traces, c[0], n - Limit) /\ n - Limit <= n - Limit
      BY <1>3, <3>2 DEF Rows
    <3> QED
      BY <1>3, <2>1, <3>3 DEF Following, n
  <2>4. CASE c[0] < n - Limit
    <3> DEFINE v == c[0]
    <3>1. v \in Int /\ v <= n - Limit /\ Len(traces) = Limit
      BY <1>3, <2>2, <2>4
    <3>2. Announces(begun, Queue, c, v)
      <4>1. Len(begun) \in Nat /\ Len(begun) <= Len(begun)
        BY <1>3 DEF n
      <4> QED
        BY <1>3, <2>1, <3>1, <4>1, AnnouncesWeaker
    <3>3. ASSUME NEW i \in 1..Limit
          PROVE  \E q \in 1..Len(begun) :
                   /\ At(begun, traces[i], q)
                   /\ i <= Limit - 0 => q > v + i
                   /\ i > Limit - 0 => q = v - Limit + i
      <4> DEFINE q == n - Len(traces) + i
      <4>1. At(begun, traces[i], q)
        BY <1>3, <3>1
      <4>2. q > v + i /\ ~(i > Limit - 0)
        BY <1>3, <2>2, <2>4, <3>1
      <4>3. q \in 1..Len(begun)
        BY <4>1 DEF At
      <4> HIDE DEF q, v
      <4> QED
        BY <4>1, <4>2, <4>3
    <3>4. 0 \in 0..Limit /\ v = v - 0
      BY <1>3, <3>1
    <3> HIDE DEF v
    <3>5. Wrapped(begun, traces, v, v)
      BY <3>1, <3>3, <3>4 DEF Wrapped
    <3>6. Rows(begun, traces, c[0], v)
      BY <3>5 DEF Rows, v
    <3> QED
      BY <2>1, <3>1, <3>2, <3>6 DEF Following, n
  <2> QED
    BY <1>3, <2>2, <2>3, <2>4
<1> QED
  BY <1>1, <1>2, <1>4 DEF OrderInv, Known

\* waitForTrace keeps the second invariant.
LEMMA ReceiveKeepsOrder ==
  ASSUME Inv, OrderInv, Receive
  PROVE  OrderInv'
<1>1. /\ waiting /\ events # <<>> /\ message' = <<Head(events)>> /\ events' = Tail(events)
      /\ UNCHANGED <<pc, begun, announced, screen, shown, calmStart>>
  BY DEF Receive
<1>2. Len(Queue') = Len(Queue) /\ \A k \in 1..Len(Queue) : Queue'[k] = Queue[k]
  BY ReceivedQueue
<1>3. Quietly
  BY <1>1 DEF Quietly, Known
<1> QED
  BY <1>2, <1>3, QuietlyKeepsOrder DEF Inv

\* The list follows the change it takes from the queue.
LEMMA TraceUpdateKeepsOrder ==
  ASSUME Inv, OrderInv, TraceUpdate
  PROVE  OrderInv'
<1> DEFINE h == message[1]
<1>1. /\ message # <<>> /\ message' = <<>>
      /\ UNCHANGED <<pc, events, begun, announced, screen, calmStart>>
  BY DEF TraceUpdate, debuggerVars
<1>2. Upserted(h)
  BY UpdateUpserts DEF Inv
<1>3. /\ Len(Queue) \in Nat /\ Len(Queue') = Len(Queue) - 1 /\ 1 \in 1..Len(Queue)
      /\ h = Queue[1]
      /\ \A k \in 1..Len(Queue') : k + 1 \in 1..Len(Queue) /\ Queue'[k] = Queue[k + 1]
  BY <1>1, TakenQueue DEF Inv
<1> HIDE DEF h
<1>4. screen = "running"
  BY <1>1 DEF Inv, LoopInv
<1>5. Refreshed(shown, h, shown') \/ Added(shown, h, shown')
  BY <1>2 DEF Upserted, Replaced, Refreshed, Added
<1>6. /\ Len(begun) \in Nat /\ Len(shown) \in Nat /\ Once(begun) /\ Limit \in Nat
      /\ Len(Queue') \in Nat /\ Len(Queue) = Len(Queue') + 1
  BY <1>3, Sequences, BegunOnce, DebuggerAssumption DEF Inv
<1>7. ASSUME announced, calmStart PROVE Following(begun, Queue', pc, shown')
  <2>1. PICK c, b : /\ b \in Int /\ b <= Len(begun) - Limit
                    /\ Announces(begun, Queue, c, b) /\ Published(begun, pc, c[Len(Queue)])
                    /\ Rows(begun, shown, c[0], b)
    BY <1>4, <1>7 DEF OrderInv, Following
  <2>2. PICK q \in 1..Len(begun) :
          /\ At(begun, Queue[1], q)
          /\ \/ q = c[1 - 1] + 1 /\ c[1] = q
             \/ c[1] = c[1 - 1] /\ q <= c[1] /\ q > c[1] - Limit /\ q > b
    BY <1>3, <2>1 DEF Announces, NextChange
  <2>3. At(begun, h, q) /\ NextChange(q, c[0], c[1], b) /\ c[0] \in 0..Len(begun)
    <3>1. c[0] \in 0..Len(begun)
      BY <1>3, <1>6, <2>1, AnnouncedLast
    <3>2. 1 - 1 = 0
      OBVIOUS
    <3>3. NextChange(q, c[0], c[1], b)
      BY <2>2, <3>2 DEF NextChange
    <3> QED
      BY <1>3, <2>2, <3>1, <3>3
  <2>4. PICK b2 \in Int : /\ b2 <= Len(begun) - Limit
                          /\ b2 = b \/ b2 <= c[1] - Limit
                          /\ Rows(begun, shown', c[1], b2)
    BY <1>5, <1>6, <2>1, <2>3, NextRows
  <2>5. PICK d : /\ Announces(begun, Queue', d, b2)
                 /\ d[0] = c[1] /\ d[Len(Queue')] = c[Len(Queue)]
    <3>1. \A k \in 1..Len(Queue') : Queue'[k] = Queue[k + 1]
      BY <1>3
    <3>2. b2 \in Int /\ b \in Int /\ (b2 = b \/ b2 <= c[1] - Limit)
      BY <2>1, <2>4
    <3>3. Announces(begun, Queue, c, b)
      BY <2>1
    <3> QED
      BY <1>6, <3>1, <3>2, <3>3, AnnouncesTaken
  <2>6. Published(begun, pc, d[Len(Queue')]) /\ Rows(begun, shown', d[0], b2)
    BY <2>1, <2>4, <2>5
  <2> QED
    BY <2>4, <2>5, <2>6 DEF Following
<1> QED
  BY <1>1, <1>4, <1>7 DEF OrderInv, Known

\* Every step keeps the second invariant.
LEMMA KeepsOrder ==
  ASSUME Inv, OrderInv, [Next]_vars
  PROVE  OrderInv'
<1>1. CASE Serve
  <2>1. /\ UNCHANGED <<screen, waiting, message, shown, selected>>
        /\ calmStart' = (calmStart /\ (screen = "subscribed" =>
                           \A i \in DOMAIN traces :
                             \E j \in DOMAIN traces' : traces'[j].id = traces[i].id))
    BY <1>1 DEF Serve
  <2>2. Still /\ (calmStart' => calmStart)
    BY <2>1 DEF Still
  <2>3. CASE TakeID
    BY <2>2, <2>3, TakeIDKeepsOrder
  <2>4. ASSUME NEW id \in IDs, Request(id) PROVE OrderInv'
    <3>1. CASE AppendTrace(id)
      BY <2>1, <2>2, <3>1, AppendTraceKeepsOrder
    <3> QED
      BY <2>2, <2>4, <3>1, PublishBegunKeepsOrder, RecordKeepsOrder, FinishKeepsOrder DEF Request
  <2> QED
    BY <1>1, <2>3, <2>4 DEF Serve
<1>2. CASE Select
  <2>1. /\ UNCHANGED <<pc, begun, announced, events>>
        /\ UNCHANGED <<screen, message, shown, calmStart>>
    BY <1>2 DEF Select, debuggerVars
  <2>2. Quietly /\ Queue' = Queue
    BY <2>1 DEF Quietly, Queue, Known
  <2> QED
    BY <2>2, QuietlyKeepsOrder DEF Inv
<1>3. CASE Quit
  <2>1. screen' = "quit" /\ UNCHANGED <<pc, begun, announced>>
    BY <1>3 DEF Quit, Unsubscribe
  <2> QED
    BY <2>1 DEF OrderInv, Known
<1>4. CASE UNCHANGED vars
  <2>1. /\ UNCHANGED <<pc, begun, announced, events>>
        /\ UNCHANGED <<screen, message, shown, calmStart>>
    BY <1>4 DEF vars, debuggerVars, dashboardVars
  <2>2. Quietly /\ Queue' = Queue
    BY <2>1 DEF Quietly, Queue, Known
  <2> QED
    BY <2>2, QuietlyKeepsOrder DEF Inv
<1> QED
  BY <1>1, <1>2, <1>3, <1>4, StartKeepsOrder, SnapshotKeepsOrder, ReceiveKeepsOrder,
     TraceUpdateKeepsOrder DEF Next

\* The second invariant holds at first.
LEMMA InitOrder == Init => OrderInv
<1> SUFFICES ASSUME Init PROVE OrderInv
  OBVIOUS
<1>1. pc = [id \in IDs |-> "new"] /\ begun = <<>> /\ screen = "off"
  BY DEF Init, DebuggerInit
<1>2. Published(begun, pc, 0)
  BY <1>1 DEF Published
<1>3. \A id \in IDs : ~Known(id)
  BY <1>1 DEF Known
<1> QED
  BY <1>1, <1>2, <1>3 DEF OrderInv

\* What a quiet dashboard shows, from the two invariants.
LEMMA QuietShowsIDs ==
  ASSUME Inv, OrderInv, Quiet, announced, calmStart
  PROVE  /\ Len(Queue) = 0 /\ Len(shown) = Len(traces)
         /\ \A i \in 1..Len(shown) : IdOf(shown[i]) = IdOf(traces[i])
<1> DEFINE n == Len(begun)
<1>1. /\ n \in Nat /\ Len(traces) \in Nat /\ Limit \in Nat /\ Limit > 0 /\ Len(shown) \in Nat
      /\ Len(traces) = IF n < Limit THEN n ELSE Limit
      /\ \A i \in 1..Len(traces) : At(begun, traces[i], n - Len(traces) + i)
      /\ \A k \in 1..n : begun[k] \in IDs
  BY HistoryAt, Sequences DEF Inv
<1>2. Len(Queue) = 0
  <2>1. Queue = <<>> \o <<>>
    BY DEF Quiet, Queue
  <2> QED
    BY <2>1
<1>3. PICK c, b : /\ b \in Int /\ b <= Len(begun) - Limit
                  /\ Announces(begun, Queue, c, b) /\ Published(begun, pc, c[Len(Queue)])
                  /\ Rows(begun, shown, c[0], b)
  BY DEF Quiet, OrderInv, Following
<1>4. c[0] = n
  <2>1. c[0] \in 0..n /\ \A k \in 1..n : pc[begun[k]] = "publish" <=> k > c[0]
    BY <1>2, <1>3 DEF Published
  <2>2. \A k \in 1..n : pc[begun[k]] # "publish"
    BY <1>1 DEF Quiet
  <2>3. ~(n > c[0])
    <3>1. n > c[0] => n \in 1..n
      BY <1>1, <2>1
    <3> QED
      BY <2>1, <2>2, <3>1
  <2> QED
    BY <1>1, <2>1, <2>3
<1> HIDE DEF n
<1>5. Len(shown) = Len(traces) /\ \A i \in 1..Len(shown) : At(begun, shown[i], n - Len(shown) + i)
  <2>1. CASE InLine(begun, shown, c[0], b)
    <3>1. PICK e \in 0..Len(begun) :
            /\ c[0] <= e /\ e <= c[0] + Limit /\ b = e - Limit
            /\ Len(shown) = IF e < Limit THEN e ELSE Limit
            /\ \A i \in 1..Len(shown) : At(begun, shown[i], e - Len(shown) + i)
      BY <2>1 DEF InLine
    <3>2. e = n
      BY <1>1, <1>4, <3>1 DEF n
    <3> QED
      BY <1>1, <3>1, <3>2
  <2>2. CASE Wrapped(begun, shown, c[0], b)
    <3>1. PICK j \in 0..Limit :
            /\ b = c[0] - j /\ Len(shown) = Limit
            /\ \A i \in 1..Limit : \E q \in 1..Len(begun) :
                 /\ At(begun, shown[i], q)
                 /\ i <= Limit - j => q > c[0] + i
                 /\ i > Limit - j => q = c[0] - Limit + i
      BY <2>2 DEF Wrapped
    <3>2. j = Limit
      <4>1. b <= n - Limit
        BY <1>3 DEF n
      <4> QED
        BY <1>1, <1>4, <3>1, <4>1
    <3>3. \A i \in 1..Limit : At(begun, shown[i], n - Limit + i)
      <4>1. ASSUME NEW i \in 1..Limit PROVE At(begun, shown[i], n - Limit + i)
        <5>1. PICK q \in 1..Len(begun) :
                /\ At(begun, shown[i], q)
                /\ i <= Limit - j => q > c[0] + i
                /\ i > Limit - j => q = c[0] - Limit + i
          BY <3>1
        <5>2. q = n - Limit + i
          BY <1>1, <1>4, <3>2, <5>1
        <5> QED
          BY <5>1, <5>2
      <4> QED
        BY <4>1
    <3>4. n >= Limit
      <4>1. At(begun, shown[1], n - Limit + 1)
        BY <1>1, <3>3
      <4> QED
        BY <1>1, <4>1 DEF At, n
    <3> QED
      BY <1>1, <3>1, <3>3, <3>4
  <2> QED
    BY <1>3, <2>1, <2>2 DEF Rows
<1> QED
  BY <1>1, <1>2, <1>5 DEF At

\* When nothing is on its way and no request is served, the list is the
\* history: every trace, in its newest state, in order.
THEOREM QuietShowsHistory == Spec => []QuietDashboardShowsHistory
<1>1. ASSUME Inv, OrderInv, Quiet, dropped = {}, announced, calmStart
      PROVE  shown = traces
  <2>1. /\ Len(Queue) = 0 /\ Len(shown) = Len(traces)
        /\ \A i \in 1..Len(shown) : IdOf(shown[i]) = IdOf(traces[i])
    BY <1>1, QuietShowsIDs
  <2>2. /\ shown \in Seq(Trace) /\ traces \in Seq(Trace) /\ Len(shown) \in Nat
        /\ DOMAIN shown = 1..Len(shown) /\ DOMAIN traces = 1..Len(traces)
    BY <1>1, Sequences, LenProperties DEF Inv
  <2>3. ASSUME NEW i \in 1..Len(shown) PROVE shown[i] = traces[i]
    <3>1. screen = "running" /\ i \in 1..Len(traces) /\ ~\E m \in 1..Len(Queue) : TRUE
      BY <1>1, <2>1 DEF Quiet
    <3> QED
      BY <1>1, <2>1, <3>1 DEF Inv, RowsCatchUp
  <2> QED
    BY <2>1, <2>2, <2>3, SeqEqual
<1>2. Inv /\ OrderInv => QuietDashboardShowsHistory
  BY <1>1 DEF QuietDashboardShowsHistory
<1>3. Inv /\ OrderInv /\ [Next]_vars => OrderInv'
  BY KeepsOrder
<1> QED
  BY <1>2, <1>3, InitOrder, Invariance, PTL DEF Spec

=============================================================================
