------------------------------ MODULE Exchange ------------------------------
(***************************************************************************)
(* One request from its arrival to the end of its trace: withDebug around  *)
(* handleCompletions, handleResponses or handleAnthropic, executeUpstream, *)
(* and the answer of module ChatExchange.  The client may leave at any     *)
(* time.  That cancels the request's context if the server watches the     *)
(* connection, which net/http does once the request's body has been read   *)
(* to its end, and it matters where the handler waits with that context:   *)
(* not while it waits for a client of module SidecarTransport.             *)
(*                                                                         *)
(* Bodies of answers other than 200 are one piece or empty.  Request       *)
(* bodies and headers are left out of the trace, and so is the history     *)
(* that holds it (module Debugger).                                        *)
(***************************************************************************)
EXTENDS ChatExchange

CONSTANT Rejections   \* the statuses other than 200 the upstream answers with

ASSUME RejectionsAssumption == Rejections \subseteq Nat \ {0, 200}

Unset == 0

\* Answered without the upstream: /health, /v1/models and count_tokens (200),
\* OPTIONS (204), a body that cannot be read or decoded (400), an origin that is
\* not allowed (403), no such route (404), a malformed upstream URL (502).
LocalStatus == {200, 204, 400, 403, 404, 502}

VARIABLES
  pc,            \* where the request is: "reading" its body, in Places, which
                 \* are those of executeUpstream, "answering", "returned" to
                 \* withDebug, "done"
  client,        \* "here" or "gone"
  watched,       \* the server has seen the end of the request's body
  header,        \* the status written to the client, 0 before it is
  trace,         \* what the request has recorded of itself
  cut            \* history variable: reading the upstream's body failed

pathVars == <<pc, client, watched, header, trace, cut>>
exchangeVars == <<vars, pathVars>>

\* In executeUpstream: upstreamHTTPClient, Do, RoundTrip's restart of a sidecar
\* that refused the connection, Do's second attempt after it.
Places == {"acquiring", "asking", "restarting", "retrying"}

ExchangeTypeOK ==
  /\ TypeOK
  /\ pc \in Places \cup {"reading", "answering", "returned", "done"}
  /\ client \in {"here", "gone"}
  /\ watched \in BOOLEAN
  /\ header \in {Unset, 200} \cup LocalStatus \cup Rejections
  /\ trace \in [upstream : BOOLEAN, error : BOOLEAN,
                upstreamStatus : {Unset, 200} \cup Rejections,
                upstreamBody : Seq(Event),
                inbound : BOOLEAN, status : Nat]
  /\ cut \in BOOLEAN

ExchangeInit ==
  /\ Init
  /\ pc = "reading"
  /\ client = "here"
  /\ watched = FALSE
  /\ header = Unset
  /\ trace = [upstream |-> FALSE, error |-> FALSE, upstreamStatus |-> Unset,
              upstreamBody |-> <<>>, inbound |-> FALSE, status |-> Unset]
  /\ cut = FALSE

-----------------------------------------------------------------------------
\* The status is written and the handler returns.
Refuse(code) ==
  /\ header' = code
  /\ pc' = "returned"

AnswerAlone(code) ==
  /\ pc = "reading"
  /\ Refuse(code)
  /\ UNCHANGED <<vars, client, watched, trace, cut>>

\* The request is decoded and shaped, RecordUpstreamRequest.  io.ReadAll sees the
\* end of the body; a json.Decoder stops after the value, and whether the server
\* has seen the end by then depends on how the body was sent.
Ask ==
  /\ pc = "reading"
  /\ pc' = "acquiring"
  /\ watched' \in IF protocol = "chat" THEN {TRUE} ELSE BOOLEAN
  /\ trace' = [trace EXCEPT !.upstream = TRUE]
  /\ UNCHANGED <<vars, client, header, cut>>

\* upstreamHTTPClient returns, maybe after the start of a sidecar.
Acquired ==
  /\ pc = "acquiring"
  /\ pc' = "asking"
  /\ UNCHANGED <<vars, client, watched, header, trace, cut>>

\* RoundTrip's connection was refused: invalidateBunSidecar, bunSidecarEndpoint.
Refused ==
  /\ pc = "asking"
  /\ pc' = "restarting"
  /\ UNCHANGED <<vars, client, watched, header, trace, cut>>

Restarted ==
  /\ pc = "restarting"
  /\ pc' = "retrying"
  /\ UNCHANGED <<vars, client, watched, header, trace, cut>>

\* Do fails, by an error of the restart too: RecordUpstreamError.
Unreachable ==
  /\ pc \in Places \ {"acquiring"}
  /\ Refuse(502)
  /\ trace' = [trace EXCEPT !.error = TRUE]
  /\ UNCHANGED <<vars, client, watched, cut>>

\* RecordUpstreamResponse.  The status goes out at once where the body is
\* passed on as it comes, after the body where it is read first.
Answered(code) ==
  /\ pc \in {"asking", "retrying"}
  /\ pc' = "answering"
  /\ trace' = [trace EXCEPT !.upstreamStatus = code]
  /\ header' = IF IF code = 200 THEN PutTogether ELSE protocol # "chat"
                 THEN header ELSE code
  /\ UNCHANGED <<vars, client, watched, cut>>

-----------------------------------------------------------------------------
Answering == pc = "answering" /\ trace.upstreamStatus = 200

\* Mutant: nobody closes the body that was aggregated: the handler's defer
\* closes the response made from the completion.
RecordedUnlessAggregated ==
  IF Aggregates /\ protocol # "chat" THEN trace
  ELSE [trace EXCEPT !.upstreamBody = sent']

\* The body is closed: RecordUpstreamBody.
Recorded == [trace EXCEPT !.upstreamBody = sent']

\* When the answer has ended the handler returns: with the completion, with an
\* error, or after what it has written already.
ReturnAtEnd ==
  IF status' = "open" THEN UNCHANGED <<pc, header, trace>>
  ELSE /\ pc' = "returned"
       /\ header' = CASE ~PutTogether -> header
                      [] PutTogether /\ status' = "completion" -> 200
                      [] OTHER -> 502
       /\ trace' = Recorded

Serve ==
  /\ Answering /\ Part
  /\ ReturnAtEnd
  /\ UNCHANGED <<client, watched, cut>>

ServeEnd(broken) ==
  /\ Answering /\ BodyEnds(broken)
  /\ ReturnAtEnd
  /\ cut' = broken
  /\ UNCHANGED <<client, watched>>

\* The body of an answer other than 200 is copied, or read and told.  Where
\* reading it fails, what there is of it counts.
Reject(body) ==
  /\ pc = "answering" /\ trace.upstreamStatus # 200
  /\ sent' = body
  /\ relayed' = body
  /\ status' = "failed"
  /\ Refuse(trace.upstreamStatus)
  /\ trace' = Recorded
  /\ UNCHANGED <<requestVars, meant, completion, client, watched, cut>>

\* withDebug: SetInboundBody and Finish.
FinishTrace ==
  /\ pc = "returned"
  /\ trace' = [trace EXCEPT !.inbound = TRUE,
                            !.status = IF header = Unset THEN 200 ELSE header]
  /\ pc' = "done"
  /\ UNCHANGED <<vars, client, watched, header, cut>>

ClientLeaves ==
  /\ client = "here" /\ pc # "done"
  /\ client' = "gone"
  /\ UNCHANGED <<vars, pc, watched, header, trace, cut>>

\* Mutant: the upstream request does not carry the request's context.
CancelledDetached == FALSE

\* The context of a client that has left, where the server has noticed: the
\* upstream request carries it, so Do and Read return its error.  The wait for
\* bunMu and the start of a sidecar do not.
Cancelled ==
  /\ client = "gone" /\ watched
  /\ \/ pc # "restarting" /\ Unreachable
     \/ ServeEnd(TRUE)
     \/ trace.upstreamStatus # 200 /\ \E body \in {<<>>, <<Simple("error")>>} : Reject(body)

ExchangeNext ==
  \/ \E code \in LocalStatus : AnswerAlone(code)
  \/ Ask \/ Acquired \/ Refused \/ Restarted \/ Unreachable
  \/ \E code \in Rejections \cup {200} : Answered(code)
  \/ Serve
  \/ \E broken \in BOOLEAN : ServeEnd(broken)
  \/ \E body \in {<<>>, <<Simple("error")>>} : Reject(body)
  \/ FinishTrace \/ ClientLeaves

\* The handler runs: the body of a client that has left is there or cannot be
\* read, a cancelled context is met, and the handler returns.  Neither is the
\* upstream assumed to answer, nor what it is sending to end, nor the start of a
\* sidecar to end.
ExchangeSpec ==
  /\ ExchangeInit /\ [][ExchangeNext]_exchangeVars
  /\ WF_exchangeVars(client = "gone" /\ (Ask \/ \E code \in LocalStatus : AnswerAlone(code)))
  /\ WF_exchangeVars(Cancelled)
  /\ WF_exchangeVars(FinishTrace)

-----------------------------------------------------------------------------
\* Whichever way a request took, the trace of a finished one is whole: it has
\* the request, the status the client was sent, and of an upstream that was
\* asked either the error or the status, with all of the body that was read.
FinishedTraceIsWhole ==
  pc = "done" =>
    /\ trace.inbound
    /\ header # Unset /\ trace.status = header
    /\ trace.upstream /\ ~trace.error => trace.upstreamStatus # Unset
    /\ trace.error => trace.upstream /\ trace.upstreamStatus = Unset
    /\ trace.upstreamBody = sent

\* The upstream could not be reached, refused, told of an error, or its body
\* could not be read.
UpstreamFailed ==
  \/ trace.error
  \/ trace.upstreamStatus \in Rejections
  \/ \E i \in DOMAIN sent : sent[i].kind = "error"
  \/ cut

\* The upstream did not say [DONE], or said nothing else.
Unfinished ==
  \/ \A i \in DOMAIN sent : sent[i].kind # "done"
  \/ sent = <<Simple("done")>>

ToldOfFailure ==
  header # 200 \/ \E i \in DOMAIN relayed : relayed[i].kind = "error"

\* A client that stays is told of a failure of the upstream, at whatever point
\* it comes, and of a failure only if there was one or the upstream never
\* finished.  Of the passthrough streams this is not so: one that is copied
\* ends as if nothing had happened when its body breaks, and one whose names
\* are restored hides errors too.
AnswerTellsFailure ==
  pc = "done" /\ client = "here" =>
    /\ ToldOfFailure => UpstreamFailed \/ Unfinished
    /\ UpstreamFailed /\ ~Restores /\ ~(Copies /\ cut) => ToldOfFailure

\* The wait for a client of the upstream ends, as NoRequestStuck of module
\* SidecarTransport says it does while sidecars respond.
StartsEnd ==
  /\ WF_exchangeVars(Acquired)
  /\ WF_exchangeVars(Restarted \/ (pc = "restarting" /\ Unreachable))

\* As long as starts end, a request ends whose client has left and whose body
\* the server has seen the end of, which of Chat Completions it always does: an
\* upstream that is silent or goes on forever does not hold its handler.
GoneClientEndsRequest ==
  StartsEnd => (client = "gone" /\ (watched \/ protocol = "chat") ~> pc = "done")
=============================================================================
