----------------------------- MODULE Dashboard -----------------------------
(***************************************************************************)
(* The dashboard of --tui (tui.go) as a subscriber of module Debugger: a   *)
(* list of traces of its own, kept up to date by the changes published, and *)
(* a cursor in it.  Scrolling, panels and drawing are left out.            *)
(***************************************************************************)
EXTENDS Debugger

VARIABLES
  screen,        \* where RunDashboard is
  waiting,       \* a waitForTrace command is blocked on the channel
  message,       \* the change it has received, not yet handled: at most one
  shown,         \* the model's traces
  selected,      \* position of the cursor in shown, 0 while shown is empty
  calmStart      \* history variable: no trace left the history between
                 \* Subscribe and Snapshot

dashboardVars == <<screen, waiting, message, shown, selected, calmStart>>

vars == <<debuggerVars, dashboardVars>>

TypeOK ==
  /\ DebuggerTypeOK
  /\ screen \in {"off", "subscribed", "running", "quit"}
  /\ waiting \in BOOLEAN
  /\ message \in Seq(Trace) /\ Len(message) =< 1
  /\ shown \in Seq(Trace) /\ Len(shown) =< Limit
  /\ \A i, j \in DOMAIN shown : shown[i].id = shown[j].id => i = j
  /\ IF shown = <<>> THEN selected = 0 ELSE selected \in DOMAIN shown
  /\ calmStart \in BOOLEAN

Init ==
  /\ DebuggerInit
  /\ screen = "off"
  /\ waiting = FALSE
  /\ message = <<>>
  /\ shown = <<>>
  /\ selected = 0
  /\ calmStart = TRUE

-----------------------------------------------------------------------------
\* The steps of the requests, seen from the dashboard.
Serve ==
  /\ TakeID \/ \E id \in IDs : Request(id)
  /\ calmStart' = (calmStart /\ (screen = "subscribed" =>
                     \A i \in DOMAIN traces :
                        \E j \in DOMAIN traces' : traces'[j].id = traces[i].id))
  /\ UNCHANGED <<screen, waiting, message, shown, selected>>

\* RunDashboard: Subscribe, then Snapshot, then the event loop.
StartDashboard ==
  /\ screen = "off"
  /\ Subscribe
  /\ screen' = "subscribed"
  /\ UNCHANGED <<waiting, message, shown, selected, calmStart>>

Snapshot ==
  /\ screen = "subscribed"
  /\ shown' = traces
  /\ selected' = Len(traces)
  /\ screen' = "running"
  /\ waiting' = TRUE
  /\ UNCHANGED <<debuggerVars, message, calmStart>>

\* waitForTrace
Receive ==
  /\ waiting /\ events # <<>>
  /\ message' = <<Head(events)>>
  /\ events' = Tail(events)
  /\ waiting' = FALSE
  /\ UNCHANGED <<nextID, pc, traces, subscribed, begun, dropped, announced,
                 screen, shown, selected, calmStart>>

\* Mutant: the cursor does not move with its trace when the oldest one goes.
UpsertDrift(trace) ==
  IF \E i \in DOMAIN shown : shown[i].id = trace.id
    THEN [list |-> [i \in DOMAIN shown |->
                      IF shown[i].id = trace.id THEN trace ELSE shown[i]],
          cursor |-> selected]
    ELSE [list |-> Latest(Append(shown, trace)), cursor |-> selected]

\* upsert: replace the trace, or append it and let the oldest one go.
Upsert(trace) ==
  IF \E i \in DOMAIN shown : shown[i].id = trace.id
    THEN [list |-> [i \in DOMAIN shown |->
                      IF shown[i].id = trace.id THEN trace ELSE shown[i]],
          cursor |-> selected]
    ELSE [list |-> Latest(Append(shown, trace)),
          cursor |-> IF Len(shown) = Limit /\ selected > 1 THEN selected - 1
                     ELSE selected]

\* Mutant: the model stops listening at a trace that it shows already.
TraceUpdateDeaf ==
  /\ message # <<>>
  /\ LET upserted == Upsert(message[1])
         wasAtNewest == selected = Len(shown)
     IN /\ shown' = upserted.list
        /\ selected' = IF wasAtNewest THEN Len(shown') ELSE upserted.cursor
        /\ waiting' = (Len(shown') # Len(shown))
  /\ message' = <<>>
  /\ UNCHANGED <<debuggerVars, screen, calmStart>>

\* Update on traceUpdateMsg.
TraceUpdate ==
  /\ message # <<>>
  /\ LET upserted == Upsert(message[1])
         wasAtNewest == selected = Len(shown)
     IN /\ shown' = upserted.list
        /\ selected' = IF wasAtNewest THEN Len(shown') ELSE upserted.cursor
  /\ message' = <<>>
  /\ waiting' = TRUE
  /\ UNCHANGED <<debuggerVars, screen, calmStart>>

\* selectRequest (a key) and selectRequestIndex (a click): any row.
Select ==
  /\ screen = "running"
  /\ \E row \in DOMAIN shown \ {selected} : selected' = row
  /\ UNCHANGED <<debuggerVars, screen, waiting, message, shown, calmStart>>

\* q: the event loop ends and RunDashboard's defer unsubscribes.
Quit ==
  /\ screen = "running"
  /\ Unsubscribe
  /\ screen' = "quit"
  /\ waiting' = FALSE
  /\ message' = <<>>
  /\ UNCHANGED <<shown, selected, calmStart>>

Next == \/ Serve \/ StartDashboard \/ Snapshot
        \/ Receive \/ TraceUpdate \/ Select \/ Quit

Spec == Init /\ [][Next]_vars

\* A request that has been accepted runs to its end; the event loop is not
\* assumed to run.
RequestsRun ==
  \A id \in IDs : WF_vars(Serve /\ pc[id] # "new" /\ pc'[id] # pc[id])

\* The event loop handles what it is sent.
LoopRuns == WF_vars(Snapshot) /\ WF_vars(Receive) /\ WF_vars(TraceUpdate)

ServingSpec == Spec /\ RequestsRun

-----------------------------------------------------------------------------
\* Nothing is on its way to the dashboard, and no request is being served.
Quiet ==
  /\ screen = "running" /\ events = <<>> /\ message = <<>>
  /\ \A id \in IDs : pc[id] \in {"new", "done"}

\* The history is what Begin's critical sections say it is: the traces that
\* entered last, whatever order their IDs were given in, and the changes of
\* a request reach its own trace.
HistoryIsLatest ==
  /\ [i \in DOMAIN traces |-> traces[i].id]
       = SubSeq(begun, Len(begun) - Len(traces) + 1, Len(begun))
  /\ Len(traces) = IF Len(begun) < Limit THEN Len(begun) ELSE Limit
  /\ \A i \in DOMAIN traces : traces[i].finished <=> pc[traces[i].id] = "done"

\* When everything has come to rest the dashboard shows the history, trace by
\* trace, unless one of these happened: the last change of a request or its
\* first met a full channel, two requests' Begins published in the other order
\* than they appended, or the history rolled over between Subscribe and Snapshot.
QuietDashboardShowsHistory ==
  Quiet /\ dropped = {} /\ announced /\ calmStart => shown = traces

\* A row is out of date only while its newest state is on its way, or if that
\* state was dropped: the subscription and the snapshot together miss nothing.
StaleRowsCatchUp ==
  screen = "running" =>
    \A i \in DOMAIN shown, j \in DOMAIN traces :
      shown[i].id = traces[j].id =>
        \/ shown[i] = traces[j]
        \/ traces[j].id \in dropped
        \/ \E k \in DOMAIN (message \o events) : (message \o events)[k] = traces[j]

\* Traffic does not move the cursor off the trace the user reads: unless the
\* cursor was on the newest row, which it follows, it stays on its trace until
\* that trace leaves the list.
CursorStaysOnTrace ==
  [][message # <<>> /\ shown' # shown /\ selected < Len(shown) =>
       \/ shown'[selected'].id = shown[selected].id
       \/ \A i \in DOMAIN shown' : shown'[i].id # shown[selected].id]_vars

\* A request never waits for the dashboard: whatever the event loop does,
\* every request that was accepted is served to its end.
RequestsFinish == \A id \in IDs : pc[id] = "append" ~> pc[id] = "done"

\* As long as the event loop runs, a request that has finished, and is one of
\* the last Limit requests, is shown as finished unless the user quits or one
\* of the three above happened: a change that is lost, or a row that comes late
\* and takes the place of a newer one.
FinishedIsShown ==
  LoopRuns =>
    \A id \in IDs :
      (screen = "running" /\ pc[id] = "done" /\ Retained(id)) ~>
        \/ screen = "quit"
        \/ ~Retained(id)
        \/ id \in dropped \/ ~announced \/ ~calmStart
        \/ \E i \in DOMAIN shown : shown[i].id = id /\ shown[i].finished
=============================================================================
