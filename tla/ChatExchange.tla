---------------------------- MODULE ChatExchange ----------------------------
(***************************************************************************)
(* What passes between one client and the upstream: the shaping of the     *)
(* client's tools for the free tier (shapePassthroughTools for Chat        *)
(* Completions, normalizeReadTool for the translated protocols), and the   *)
(* ways an upstream's answer of status 200 is handed to the client.        *)
(* Module Exchange adds the request and its trace.                         *)
(*                                                                         *)
(* The upstream's answer is a sequence of events, numbered in their order; *)
(* a piece of text or of a call's arguments is the number of its event.    *)
(* An upstream that was not asked to stream sends one document instead:    *)
(* the events are then the parts it puts the document together from, and   *)
(* "done" is the document's end.  Headers, schemas, the <env> block, token *)
(* counts, reasoning (put together as the text is) and events that cannot  *)
(* be decoded are left out.                                                *)
(***************************************************************************)
EXTENDS Naturals, Sequences, FiniteSets, SequencesExt

None == "none"

CONSTANTS
  Protocols,     \* what clients speak: "chat", "responses" or "anthropic"
  Names,         \* names of tools, "read" among them
  ReadLike,      \* the names readLike accepts, "read" among them
  Indexes,       \* indexes of the upstream's tool calls
  ZeroIndex,     \* the index 0, which the encoder omits
  MaxTools,      \* bound: tools of the client
  MaxEvents      \* bound: events of the upstream

ASSUME ExchangeAssumption ==
  /\ Protocols \subseteq {"chat", "responses", "anthropic"}
  /\ "read" \in ReadLike /\ ReadLike \subseteq Names
  /\ ZeroIndex \in Indexes
  /\ None \notin Names \cup Indexes   \* it stands for no name and no index
  /\ "text" \notin Indexes            \* it is the item of an answer that is no call
  /\ MaxTools \in Nat /\ MaxEvents \in Nat

VARIABLES
  protocol,
  tools,         \* the names of the client's tools, in its order
  freeTier,      \* cfg.FreeTierClient
  stream,        \* the client asked for a stream
  meant,         \* history variable: for each call the position, in the list
                 \* offered, of the tool the upstream means; 0 before the call
  sent,          \* history variable: the upstream's events
  completion,    \* the completion put together from the events
  relayed,       \* what the client has been told of each event in turn
  status         \* "open", or how the client's answer has ended

requestVars == <<protocol, tools, freeTier, stream>>
answerVars == <<meant, sent, completion, relayed, status>>
vars == <<requestVars, answerVars>>

Pieces == 1..MaxEvents
FinishReasons == {"stop", "tool_calls"}
Event == [kind : {"text", "tool", "error", "done", "chunk"} \cup FinishReasons,
          index : Indexes \cup {None}, name : Names \cup {None}]
Simple(kind) == [kind |-> kind, index |-> None, name |-> None]

TypeOK ==
  /\ protocol \in Protocols
  /\ tools \in Seq(Names) /\ IsInjective(tools)
  /\ freeTier \in BOOLEAN /\ stream \in BOOLEAN
  /\ meant \in [Indexes -> 0..(MaxTools + 1)]
  /\ sent \in Seq(Event)
  /\ completion \in [text : SUBSET Pieces, toolOrder : Seq(Indexes),
                     name : [Indexes -> Names \cup {None}],
                     arguments : [Indexes -> SUBSET Pieces],
                     finishReason : FinishReasons \cup {None}]
  /\ relayed \in Seq(Event)
  /\ status \in {"open", "relayed", "completion", "failed"}

Init ==
  /\ protocol \in Protocols
  /\ tools \in {t \in SeqOf(Names, MaxTools) : IsInjective(t)}
  /\ freeTier \in BOOLEAN /\ stream \in BOOLEAN
  /\ meant = [k \in Indexes |-> 0]
  /\ sent = <<>>
  /\ completion = [text |-> {}, toolOrder |-> <<>>,
                   name |-> [k \in Indexes |-> None],
                   arguments |-> [k \in Indexes |-> {}],
                   finishReason |-> None]
  /\ relayed = <<>>
  /\ status = "open"

-----------------------------------------------------------------------------
\* Position of the first tool that reads files, 0 if there is none.
FirstReadLike == SelectInSeq(tools, LAMBDA name : name \in ReadLike)

\* The tools the upstream is offered.
Offered ==
  IF ~freeTier THEN tools
  ELSE IF FirstReadLike = 0 THEN Append(tools, "read")
  ELSE [tools EXCEPT ![FirstReadLike] = "read"]

\* len(toolRenames) > 0
Renames == freeTier /\ FirstReadLike # 0 /\ tools[FirstReadLike] # "read"

\* Mutant: the rename is not undone.
KeepToolName(name) == name

RestoreToolName(name) ==
  IF Renames /\ name = "read" THEN tools[FirstReadLike] ELSE name

-----------------------------------------------------------------------------
\* The ways of an answer.  The free tier always streams upstream.
Aggregates == freeTier /\ ~stream
Decodes == ~freeTier /\ ~stream /\ protocol # "chat"
Translates == stream /\ protocol # "chat"
Restores == protocol = "chat" /\ freeTier /\ stream /\ Renames
Copies == protocol = "chat" /\ ~Aggregates /\ ~Restores

PutTogether == Aggregates \/ Decodes

\* What the client is told of an event.  copyStreamWithToolRenames writes back
\* what it has decoded: of an error event that is a chunk without choices, and
\* the index 0 is left out.  A translated stream ends in a failure if there was
\* no chunk before its end.
Relayed(event) ==
  LET renamed == [event EXCEPT !.name = RestoreToolName(@)]
  IN CASE Copies -> event
       [] Translates /\ event.kind = "done" /\ sent = <<>> -> Simple("error")
       [] Restores /\ event.kind = "error" -> Simple("chunk")
       [] Restores /\ event.index = ZeroIndex -> [renamed EXCEPT !.index = None]
       [] OTHER -> renamed

\* The passthroughs go on after an error event, a translated stream ends.
Relay(event) ==
  /\ ~PutTogether
  /\ sent' = Append(sent, event)
  /\ relayed' = Append(relayed, Relayed(event))
  /\ status' = IF Translates /\ Relayed(event).kind = "error" THEN "failed"
               ELSE IF event.kind = "done" THEN "relayed" ELSE "open"
  /\ UNCHANGED <<requestVars, completion>>

\* Mutant: every chunk is taken for a fragment of a call.
AggregatedAny(event, piece) ==
  [completion EXCEPT
     !.text = IF event.kind = "text" THEN @ \cup {piece} ELSE @,
     !.toolOrder = IF Contains(@, event.index) THEN @ ELSE Append(@, event.index)]

\* Mutant: the arguments of a call start again with each fragment.
AggregatedLast(event, piece) ==
  CASE event.kind = "text" -> [completion EXCEPT !.text = @ \cup {piece}]
    [] event.kind = "tool" ->
         [completion EXCEPT
            !.toolOrder =
               IF Contains(@, event.index) THEN @ ELSE Append(@, event.index),
            !.name[event.index] =
               IF event.name = None THEN @ ELSE RestoreToolName(event.name),
            !.arguments[event.index] = {piece}]
    [] OTHER -> completion

\* The callback of aggregateSSECompletion.
Aggregated(event, piece) ==
  CASE event.kind = "text" -> [completion EXCEPT !.text = @ \cup {piece}]
    [] event.kind = "tool" ->
         [completion EXCEPT
            !.toolOrder =
               IF Contains(@, event.index) THEN @ ELSE Append(@, event.index),
            !.name[event.index] =
               IF event.name = None THEN @ ELSE RestoreToolName(event.name),
            !.arguments[event.index] = @ \cup {piece}]
    [] event.kind \in FinishReasons ->
         [completion EXCEPT !.finishReason = event.kind]
    [] OTHER -> completion

\* iterateSSE: [DONE] ends the loop, and an error fails the request.  A document
\* with an error has no choices and fails it too.
Aggregate(event) ==
  /\ PutTogether
  /\ sent' = Append(sent, event)
  /\ completion' = Aggregated(event, Len(sent'))
  /\ status' = CASE event.kind = "error" -> "failed"
                 [] event.kind = "done" -> "completion"
                 [] OTHER -> "open"
  /\ UNCHANGED <<requestVars, relayed>>

Receive(event) ==
  /\ status = "open" /\ Len(sent) < MaxEvents
  /\ Relay(event) \/ Aggregate(event)

\* A piece of text, a finish reason, an error, or [DONE].
Text == Receive(Simple("text")) /\ UNCHANGED meant
Finish(reason) == Receive(Simple(reason)) /\ UNCHANGED meant
Error == Receive(Simple("error")) /\ UNCHANGED meant
Done == Receive(Simple("done")) /\ UNCHANGED meant

\* The first fragment of a call names the tool, those that follow do not.
ToolCall(k) ==
  \/ \E tool \in DOMAIN Offered :
       /\ meant[k] = 0
       /\ meant' = [meant EXCEPT ![k] = tool]
       /\ Receive([kind |-> "tool", index |-> k, name |-> Offered[tool]])
  \/ /\ meant[k] # 0
     /\ Receive([kind |-> "tool", index |-> k, name |-> None])
     /\ UNCHANGED meant

Part == \/ Text \/ Error \/ Done
        \/ \E reason \in FinishReasons : Finish(reason)
        \/ \E k \in Indexes : ToolCall(k)

\* Mutant: iterateSSE does not return the error of its scanner.
BodyEndsQuietly(broken) ==
  /\ status = "open"
  /\ status' = CASE Aggregates -> "completion"
                 [] Decodes -> "failed"
                 [] Translates -> IF sent = <<>> THEN "failed" ELSE "relayed"
                 [] OTHER -> "relayed"
  /\ relayed' = IF ~Translates THEN relayed
                ELSE Append(relayed, Simple(IF status' = "failed" THEN "error" ELSE "done"))
  /\ UNCHANGED <<requestVars, meant, sent, completion>>

\* The body ends without [DONE]: at its end, or, where broken, by an error.  A
\* document is then cut short; a passthrough takes either for the end.
BodyEnds(broken) ==
  /\ status = "open"
  /\ status' = CASE Aggregates -> IF broken THEN "failed" ELSE "completion"
                 [] Decodes -> "failed"
                 [] Translates -> IF broken \/ sent = <<>> THEN "failed" ELSE "relayed"
                 [] OTHER -> "relayed"
  /\ relayed' = IF ~Translates THEN relayed
                ELSE Append(relayed, Simple(IF status' = "failed" THEN "error" ELSE "done"))
  /\ UNCHANGED <<requestVars, meant, sent, completion>>

Next == Part \/ \E broken \in BOOLEAN : BodyEnds(broken)

Spec == Init /\ [][Next]_vars

-----------------------------------------------------------------------------
\* The answer made of a completion (responsesNonStreaming, buildAnthropicContent):
\* its items in order, never none for an Anthropic client.
AnswerItems ==
  LET items == (IF completion.text = {} THEN <<>> ELSE <<"text">>)
                 \o completion.toolOrder
  IN IF protocol = "anthropic" /\ items = <<>> THEN <<"text">> ELSE items

\* The finish reason of a completion, which stop_reason is mapped from.
FinishReason ==
  IF completion.finishReason # None THEN completion.finishReason
  ELSE IF completion.toolOrder # <<>> THEN "tool_calls" ELSE "stop"

-----------------------------------------------------------------------------
Sent(kind, k) == {i \in DOMAIN sent : sent[i].kind = kind /\ sent[i].index = k}

FirstSent(k) == Min(Sent("tool", k))

\* The tool of the client that call k is for, by the name the client knows.
ToolMeant(k) == IF meant[k] \in DOMAIN tools THEN tools[meant[k]] ELSE "read"

\* The name the client is given for call k.
NameGiven(k) ==
  IF PutTogether THEN completion.name[k]
  ELSE relayed[CHOOSE i \in DOMAIN sent :
                 sent[i].index = k /\ sent[i].name # None].name

Begun(k) == meant[k] # 0

\* A client that has at most one tool to read files with is given the names
\* of its own tools: renaming is undone whichever way the answer takes, in
\* every protocol.
NamesRestored ==
  Cardinality({i \in DOMAIN tools : tools[i] \in ReadLike}) =< 1 =>
    \A k \in Indexes : Begun(k) => NameGiven(k) = ToolMeant(k)

\* The upstream tells no finish reason, or tells that of its last word.
ReasonIsLast ==
  \A i \in DOMAIN sent :
    sent[i].kind \in FinishReasons =>
      /\ \A j \in DOMAIN sent : j > i => sent[j].kind = "done"
      /\ sent[i].kind = "tool_calls" <=> \E k \in Indexes : Begun(k)

\* An answer put together from a stream is the stream: all of its text, and
\* of each of its interleaved calls the arguments, the calls in the order they
\* began, none left out of the answer; and the client is told to run tools
\* exactly when there is a call, also by an upstream that tells no finish reason.
CompletionIsStream ==
  PutTogether =>
    /\ completion.text = Sent("text", None)
    /\ \A k \in Indexes : completion.arguments[k] = Sent("tool", k)
    /\ Range(completion.toolOrder) = {k \in Indexes : Begun(k)}
    /\ \A i, j \in DOMAIN completion.toolOrder :
         i < j => FirstSent(completion.toolOrder[i]) < FirstSent(completion.toolOrder[j])
    /\ {k \in Indexes : Contains(AnswerItems, k)} = {k \in Indexes : Begun(k)}
    /\ ReasonIsLast =>
         (FinishReason = "tool_calls" <=> \E k \in Indexes : Begun(k))

\* completions.go:307: "copyStreamWithToolRenames relays an SSE stream to the
\* client, restoring renamed tool names inside tool_calls deltas".  What is
\* relayed is the upstream's stream up to the names: an error stays an error,
\* and a fragment belongs to the same call.
RelayChangesOnlyNames ==
  \A i \in DOMAIN relayed :
    [relayed[i] EXCEPT !.name = None] = [sent[i] EXCEPT !.name = None]
=============================================================================
