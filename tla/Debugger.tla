------------------------------ MODULE Debugger ------------------------------
(***************************************************************************)
(* The request inspector (debug.go): every proxied request records itself  *)
(* in a bounded history that is shared under a mutex, and each change is    *)
(* published to the dashboard over a bounded channel.                      *)
(*                                                                         *)
(* A request is known by the ID Begin gives it.  What a request records    *)
(* (bodies, headers, redaction) is left out: a trace is the number of      *)
(* changes made to it and whether Finish has run.  There is one            *)
(* subscriber, the dashboard of --tui, which module Dashboard models.      *)
(***************************************************************************)
EXTENDS Naturals, Sequences, SequencesExt

CONSTANTS
  Limit,         \* debugHistoryLimit
  Capacity,      \* capacity of a subscriber's channel
  MaxRequests,   \* bound: requests served
  MaxInFlight,   \* bound: requests served at the same time
  MaxUpdates     \* bound: changes recorded for a request before Finish

ASSUME DebuggerAssumption ==
  /\ Limit \in Nat \ {0}
  /\ Capacity \in Nat \ {0}
  /\ MaxRequests \in Nat
  /\ MaxInFlight \in Nat
  /\ MaxUpdates \in Nat

VARIABLES
  nextID,        \* the last ID given
  pc,            \* where each request is in withDebug
  traces,        \* the history, oldest first
  subscribed,    \* subscribers holds the dashboard's channel
  events,        \* the dashboard's channel
  begun,         \* history variable: IDs in the order they entered traces
  dropped,       \* history variable: IDs whose last change found the channel full
  announced      \* history variable: the channel took every new trace, in the
                 \* order of begun

debuggerVars == <<nextID, pc, traces, subscribed, events, begun, dropped, announced>>

IDs == 1..MaxRequests
Trace == [id : IDs, updates : 0..MaxUpdates, finished : BOOLEAN]

DebuggerTypeOK ==
  /\ nextID \in 0..MaxRequests
  /\ pc \in [IDs -> {"new", "append", "publish", "serve", "done"}]
  /\ traces \in Seq(Trace) /\ Len(traces) =< Limit
  /\ subscribed \in BOOLEAN
  /\ events \in Seq(Trace) /\ Len(events) =< Capacity
  /\ begun \in Seq(IDs) /\ IsInjective(begun)
  /\ dropped \subseteq IDs
  /\ announced \in BOOLEAN

DebuggerInit ==
  /\ nextID = 0
  /\ pc = [id \in IDs |-> "new"]
  /\ traces = <<>>
  /\ subscribed = FALSE
  /\ events = <<>>
  /\ begun = <<>>
  /\ dropped = {}
  /\ announced = TRUE

-----------------------------------------------------------------------------
NewTrace(id) == [id |-> id, updates |-> 0, finished |-> FALSE]

Retained(id) == \E i \in DOMAIN traces : traces[i].id = id

TraceOf(id) == traces[CHOOSE i \in DOMAIN traces : traces[i].id = id]

\* Mutant: the trim looks at the length before the append.
LatestLate(s) == IF Len(s) > Limit + 1 THEN Tail(s) ELSE s

\* The newest Limit elements of a history.
Latest(s) == IF Len(s) > Limit THEN Tail(s) ELSE s

\* Mutant: the send waits until the channel has room.
PublishBlocking(trace) ==
  /\ subscribed => Len(events) < Capacity
  /\ events' = IF subscribed THEN Append(events, trace) ELSE events
  /\ UNCHANGED dropped

\* publishLocked: a subscriber whose channel is full misses the change.
Publish(trace) ==
  IF subscribed /\ Len(events) < Capacity
    THEN /\ events' = Append(events, trace)
         /\ dropped' = dropped \ {trace.id}
    ELSE /\ dropped' = IF subscribed THEN dropped \cup {trace.id} ELSE dropped
         /\ UNCHANGED events

-----------------------------------------------------------------------------
\* Begin takes an ID before it takes the lock.
TakeID ==
  /\ nextID < MaxRequests
  /\ Cardinality({id \in IDs : pc[id] \notin {"new", "done"}}) < MaxInFlight
  /\ nextID' = nextID + 1
  /\ pc' = [pc EXCEPT ![nextID + 1] = "append"]
  /\ UNCHANGED <<traces, subscribed, events, begun, dropped, announced>>

\* Begin's critical section.
AppendTrace(id) ==
  /\ pc[id] = "append"
  /\ traces' = Latest(Append(traces, NewTrace(id)))
  /\ begun' = Append(begun, id)
  /\ pc' = [pc EXCEPT ![id] = "publish"]
  /\ UNCHANGED <<nextID, subscribed, events, dropped, announced>>

\* Begin publishes the new trace in a second critical section.
PublishBegun(id) ==
  /\ pc[id] = "publish"
  /\ Publish(NewTrace(id))
  /\ announced' = (announced /\ (subscribed => events' # events)
                     /\ \A i, j \in DOMAIN begun :
                          i < j /\ begun[j] = id => pc[begun[i]] # "publish")
  /\ pc' = [pc EXCEPT ![id] = "serve"]
  /\ UNCHANGED <<nextID, traces, subscribed, begun>>

\* Mutant: the copy that is published is taken before the change.
UpdateStale(id, trace) ==
  IF Retained(id)
    THEN /\ traces' = [i \in DOMAIN traces |->
                         IF traces[i].id = id THEN trace ELSE traces[i]]
         /\ Publish(TraceOf(id))
    ELSE UNCHANGED <<traces, events, dropped>>

\* Mutant: the position in the history is taken before the lock, when the
\* trace was the last one.
UpdateLast(id, trace) ==
  IF traces # <<>>
    THEN /\ traces' = [traces EXCEPT ![Len(traces)] = trace]
         /\ Publish(trace)
    ELSE UNCHANGED <<traces, events, dropped>>

\* update: a trace that has left the history is not changed and not published.
Update(id, trace) ==
  IF Retained(id)
    THEN /\ traces' = [i \in DOMAIN traces |->
                         IF traces[i].id = id THEN trace ELSE traces[i]]
         /\ Publish(trace)
    ELSE UNCHANGED <<traces, events, dropped>>

\* SetRequest, SetInboundBody and the RecordUpstream... functions.
Record(id) ==
  /\ pc[id] = "serve"
  /\ Retained(id) => TraceOf(id).updates < MaxUpdates
  /\ Update(id, [TraceOf(id) EXCEPT !.updates = @ + 1])
  /\ UNCHANGED <<nextID, pc, subscribed, begun, announced>>

\* Mutant: Finish changes the trace and publishes nothing.
FinishSilent(id) ==
  /\ pc[id] = "serve"
  /\ traces' = [i \in DOMAIN traces |->
                  IF traces[i].id = id THEN [traces[i] EXCEPT !.finished = TRUE]
                  ELSE traces[i]]
  /\ pc' = [pc EXCEPT ![id] = "done"]
  /\ UNCHANGED <<nextID, subscribed, events, begun, dropped, announced>>

Finish(id) ==
  /\ pc[id] = "serve"
  /\ Update(id, [TraceOf(id) EXCEPT !.finished = TRUE])
  /\ pc' = [pc EXCEPT ![id] = "done"]
  /\ UNCHANGED <<nextID, subscribed, begun, announced>>

Request(id) == AppendTrace(id) \/ PublishBegun(id) \/ Record(id) \/ Finish(id)

-----------------------------------------------------------------------------
\* Called by RunDashboard.
Subscribe ==
  /\ subscribed' = TRUE
  /\ UNCHANGED <<nextID, pc, traces, events, begun, dropped, announced>>

Unsubscribe ==
  /\ subscribed' = FALSE
  /\ events' = <<>>
  /\ UNCHANGED <<nextID, pc, traces, begun, dropped, announced>>
=============================================================================
