--------------------------- MODULE Exchange_proofs ---------------------------
(***************************************************************************)
(* Proofs about one request and the answer to it (modules ChatExchange and *)
(* Exchange).  Inv, at the end of the definitions, is the inductive        *)
(* invariant; it has a part for each thing that a step can disturb:        *)
(*                                                                         *)
(*   RequestInv     a call that has begun is for a tool that was offered;  *)
(*   TraceInv       what the trace, the status written and the place of    *)
(*                  the handler say of each other;                         *)
(*   StreamInv      the shape of what the upstream has sent;               *)
(*   RelayInv       what has been relayed is, event by event, what was     *)
(*                  sent;                                                  *)
(*   CompletionInv  what has been put together so far is what was sent;    *)
(*   OutcomeInv     how the answer has ended.                              *)
(*                                                                         *)
(* The properties speak of the end of a request, or of all of its stream;  *)
(* the parts speak of every moment before it.  Every event is first shown  *)
(* to be Heard, whichever action it came by, so that each part is shown    *)
(* once for all kinds of events.  The fields of records are seen through   *)
(* the operators below.                                                    *)
(***************************************************************************)
EXTENDS Exchange, SequenceTheorems, FiniteSetTheorems, WellFoundedInduction, TLAPS

(***************************************************************************)
(* What the proofs look at.                                                *)
(***************************************************************************)
\* What kind of event it is.
KindOf(event) == event.kind
\* The call it is a fragment of.
IndexOf(event) == event.index
\* The name of the tool, which the first fragment of a call has.
NameOf(event) == event.name

\* The trace has the request that was sent upstream.
Asked == trace.upstream = TRUE
\* The trace has an error of the upstream.
Failed == trace.error = TRUE
\* The trace has the answer to the client.
Told == trace.inbound = TRUE
\* The upstream's status, as the trace has it.
UpstreamStatus == trace.upstreamStatus
\* The upstream's body, as the trace has it.
UpstreamBody == trace.upstreamBody
\* The client's status, as the trace has it.
TraceStatus == trace.status

\* The pieces of the completion's text.
Texts == completion.text
\* The completion's calls, in their order.
Order == completion.toolOrder
\* The pieces of the arguments of a call.
Arguments(k) == completion.arguments[k]
\* The name the completion has for a call.
CallName(k) == completion.name[k]
\* The finish reason, None if none was told.
Reason == completion.finishReason

\* The handler has returned.
Ended == pc \in {"returned", "done"}

-----------------------------------------------------------------------------
(***************************************************************************)
(* The parts of the inductive invariant.                                   *)
(***************************************************************************)
\* A call that has begun is for a tool that was offered.
RequestInv ==
  /\ Len(tools) <= MaxTools
  /\ \A k \in Indexes : Begun(k) => meant[k] \in 1..Len(Offered)

\* What the trace has recorded at each place of the handler, and the status
\* that has been written.
TraceInv ==
  /\ Failed => Asked /\ UpstreamStatus = Unset
  /\ pc = "reading" => ~Asked
  /\ pc \in Places \cup {"reading"} => UpstreamStatus = Unset
  /\ pc \in Places \cup {"answering"} => Asked /\ ~Failed
  /\ pc = "answering" => UpstreamStatus # Unset
  /\ pc = "answering" /\ UpstreamStatus = 200 /\ ~PutTogether => header = 200
  /\ IF Ended THEN /\ header # Unset /\ UpstreamBody = sent
                   /\ Asked /\ ~Failed => UpstreamStatus # Unset
              ELSE UpstreamBody = <<>>
  /\ pc = "done" => Told /\ TraceStatus = header

\* The upstream has sent nothing.
NothingSent ==
  sent = <<>> /\ relayed = <<>> /\ ~cut /\ \A k \in Indexes : ~Begun(k)

\* Nothing is sent before the upstream has answered with 200; the calls in the
\* stream are those that have begun, and their first fragment names the tool.
StreamInv ==
  /\ UpstreamStatus = Unset \/ (pc = "answering" /\ UpstreamStatus # 200) => NothingSent
  /\ ~Ended => status = "open" /\ ~cut
  /\ \A i \in 1..Len(sent) :
       /\ status = "open" => KindOf(sent[i]) # "done"
       /\ KindOf(sent[i]) = "tool" <=> IndexOf(sent[i]) # None
       /\ KindOf(sent[i]) = "tool" => Begun(IndexOf(sent[i]))
       /\ NameOf(sent[i]) # None =>
            /\ KindOf(sent[i]) = "tool"
            /\ NameOf(sent[i]) = Offered[meant[IndexOf(sent[i])]]
  /\ \A k \in Indexes : Begun(k) =>
       \E i \in 1..Len(sent) : IndexOf(sent[i]) = k /\ NameOf(sent[i]) # None

\* The client's name of a tool, for the upstream's.
Original == [name \in Names \cup {None} |-> RestoreToolName(name)]

\* The name that a relayed answer has, for the upstream's.
Given == IF Copies THEN [name \in Names \cup {None} |-> name] ELSE Original

\* An answer that is passed on has, for each event sent, what the client is
\* told of it, and after these at most the end or the error that closes it.
RelayInv ==
  /\ PutTogether /\ UpstreamStatus \notin Rejections => relayed = <<>>
  /\ ~PutTogether =>
       /\ Len(sent) <= Len(relayed) /\ (status = "open" => Len(relayed) = Len(sent))
       /\ \A i \in 1..Len(sent) :
            /\ Copies => relayed[i] = sent[i]
            /\ KindOf(sent[i]) = "tool" => NameOf(relayed[i]) = Given[NameOf(sent[i])]
            /\ Translates /\ KindOf(sent[i]) = "error" => KindOf(relayed[i]) = "error"
            /\ KindOf(relayed[i]) = "error" =>
                 KindOf(sent[i]) = "error" \/ sent = <<Simple("done")>>
       /\ \A i \in 1..Len(relayed) :
            i > Len(sent) /\ KindOf(relayed[i]) = "error" =>
              cut \/ \A j \in 1..Len(sent) : KindOf(sent[j]) # "done"
       /\ Translates /\ cut => \E i \in 1..Len(relayed) : KindOf(relayed[i]) = "error"

\* The first event of call k among events is the m-th.
First(events, k, m) ==
  /\ m \in 1..Len(events) /\ KindOf(events[m]) = "tool" /\ IndexOf(events[m]) = k
  /\ \A x \in 1..Len(events) :
       KindOf(events[x]) = "tool" /\ IndexOf(events[x]) = k => m <= x

\* The completion has every piece so far in its place, and its calls in the
\* order of their first fragments.
CompletionInv ==
  PutTogether =>
    /\ Texts = Sent("text", None)
    /\ \A k \in Indexes : Arguments(k) = Sent("tool", k)
    /\ \A k \in Indexes : Begun(k) => CallName(k) = Original[Offered[meant[k]]]
    /\ \A k \in Indexes : Begun(k) <=> \E i \in 1..Len(Order) : Order[i] = k
    /\ \A i \in 1..Len(Order) : \E m \in 1..Len(sent) : First(sent, Order[i], m)
    /\ \A i, j \in 1..Len(Order) : i < j =>
         \A m, n \in 1..Len(sent) : First(sent, Order[i], m) /\ First(sent, Order[j], n) => m < n
    /\ Reason # None => \E i \in 1..Len(sent) : KindOf(sent[i]) = Reason

\* How the client's answer has ended.
OutcomeInv ==
  /\ cut => UpstreamStatus = 200
  /\ PutTogether /\ status \in {"open", "completion"} =>
       ~cut /\ \A i \in 1..Len(sent) : KindOf(sent[i]) # "error"
  /\ Ended /\ Failed => header = 502
  /\ Ended /\ UpstreamStatus \in Rejections => header = UpstreamStatus
  /\ Ended /\ UpstreamStatus = 200 /\ ~PutTogether => header = 200
  /\ Ended /\ UpstreamStatus = 200 /\ PutTogether =>
       \/ status = "completion" /\ header = 200
       \/ /\ status = "failed" /\ header = 502
          /\ \/ cut \/ \E i \in 1..Len(sent) : KindOf(sent[i]) = "error"
             \/ \A i \in 1..Len(sent) : KindOf(sent[i]) # "done"

\* The inductive invariant.
Inv == /\ ExchangeTypeOK /\ RequestInv /\ TraceInv /\ StreamInv /\ RelayInv
       /\ CompletionInv /\ OutcomeInv

-----------------------------------------------------------------------------
\* The type of the trace.
Traces == [upstream : BOOLEAN, error : BOOLEAN,
           upstreamStatus : {Unset, 200} \cup Rejections,
           upstreamBody : Seq(Event), inbound : BOOLEAN, status : Nat]

(***************************************************************************)
(* What the changes of a trace change.                                     *)
(***************************************************************************)
\* RecordUpstreamRequest.
LEMMA TraceAsked ==
  ASSUME trace \in Traces, trace' = [trace EXCEPT !.upstream = TRUE]
  PROVE  /\ trace' \in Traces
         /\ Asked' /\ (Failed <=> Failed') /\ (Told <=> Told')
         /\ UpstreamStatus' = UpstreamStatus /\ UpstreamBody' = UpstreamBody
         /\ TraceStatus' = TraceStatus
BY DEF Traces, Asked, Failed, Told, UpstreamStatus, UpstreamBody, TraceStatus

\* RecordUpstreamError.
LEMMA TraceFailed ==
  ASSUME trace \in Traces, trace' = [trace EXCEPT !.error = TRUE]
  PROVE  /\ trace' \in Traces
         /\ (Asked <=> Asked') /\ Failed' /\ (Told <=> Told')
         /\ UpstreamStatus' = UpstreamStatus /\ UpstreamBody' = UpstreamBody
         /\ TraceStatus' = TraceStatus
BY DEF Traces, Asked, Failed, Told, UpstreamStatus, UpstreamBody, TraceStatus

\* RecordUpstreamResponse.
LEMMA TraceAnswered ==
  ASSUME trace \in Traces, NEW code \in {200} \cup Rejections,
         trace' = [trace EXCEPT !.upstreamStatus = code]
  PROVE  /\ trace' \in Traces
         /\ (Asked <=> Asked') /\ (Failed <=> Failed') /\ (Told <=> Told')
         /\ UpstreamStatus' = code /\ UpstreamBody' = UpstreamBody
         /\ TraceStatus' = TraceStatus
BY DEF Traces, Asked, Failed, Told, UpstreamStatus, UpstreamBody, TraceStatus

\* RecordUpstreamBody.
LEMMA TraceRecorded ==
  ASSUME trace \in Traces, NEW body \in Seq(Event),
         trace' = [trace EXCEPT !.upstreamBody = body]
  PROVE  /\ trace' \in Traces
         /\ (Asked <=> Asked') /\ (Failed <=> Failed') /\ (Told <=> Told')
         /\ UpstreamStatus' = UpstreamStatus /\ UpstreamBody' = body
         /\ TraceStatus' = TraceStatus
BY DEF Traces, Asked, Failed, Told, UpstreamStatus, UpstreamBody, TraceStatus

\* SetInboundBody and Finish.
LEMMA TraceFinished ==
  ASSUME trace \in Traces, NEW code \in Nat,
         trace' = [trace EXCEPT !.inbound = TRUE, !.status = code]
  PROVE  /\ trace' \in Traces
         /\ (Asked <=> Asked') /\ (Failed <=> Failed') /\ Told'
         /\ UpstreamStatus' = UpstreamStatus /\ UpstreamBody' = UpstreamBody
         /\ TraceStatus' = code
BY DEF Traces, Asked, Failed, Told, UpstreamStatus, UpstreamBody, TraceStatus

(***************************************************************************)
(* The request: the way its answer takes, and the tools offered.           *)
(***************************************************************************)
\* They do not change while the request does not.
LEMMA ModesSame ==
  ASSUME UNCHANGED requestVars
  PROVE  /\ Offered' = Offered
         /\ (PutTogether' <=> PutTogether) /\ (Copies' <=> Copies)
         /\ (Translates' <=> Translates) /\ (Restores' <=> Restores)
         /\ Original' = Original /\ Given' = Given
<1>1. UNCHANGED <<protocol, tools, freeTier, stream>>
  BY DEF requestVars
<1>2. FirstReadLike' = FirstReadLike
  BY <1>1 DEF FirstReadLike, SelectInSeq
<1>3. Offered' = Offered /\ (Renames' <=> Renames) /\ (Aggregates' <=> Aggregates)
  BY <1>1, <1>2 DEF Offered, Renames, Aggregates
<1>4. /\ (PutTogether' <=> PutTogether) /\ (Translates' <=> Translates)
      /\ (Restores' <=> Restores)
  BY <1>1, <1>3 DEF PutTogether, Decodes, Translates, Restores
<1>5. Copies' <=> Copies
  BY <1>1, <1>3, <1>4 DEF Copies
<1>6. Original' = Original
  <2>1. \A name \in Names \cup {None} : RestoreToolName(name)' = RestoreToolName(name)
    BY <1>1, <1>2, <1>3 DEF RestoreToolName
  <2> QED
    BY <2>1 DEF Original
<1> QED
  BY <1>3, <1>4, <1>5, <1>6 DEF Given

\* An answer takes exactly one way.
LEMMA Modes ==
  ASSUME protocol \in {"chat", "responses", "anthropic"}
  PROVE  /\ PutTogether => ~Copies /\ ~Restores /\ ~Translates
         /\ ~PutTogether => Copies \/ Restores \/ Translates
         /\ Copies => ~Restores /\ ~Translates
         /\ Translates => ~Restores
         /\ Aggregates => PutTogether /\ ~Decodes
         /\ PutTogether => Aggregates \/ Decodes
BY DEF PutTogether, Copies, Restores, Translates, Aggregates, Decodes

\* A set of numbers that is not empty has a least one, which is its Min.
LEMMA Least ==
  ASSUME NEW S, S \subseteq Nat, S # {}
  PROVE  Min(S) \in S /\ \A y \in S : Min(S) <= y
<1>1. PICK x \in S : \A y \in S : <<y, x>> \notin OpToRel(<, Nat)
  BY NatLessThanWellFounded, WFMin
<1>2. \A y \in S : ~(y < x)
  BY <1>1 DEF OpToRel
<1>3. \A y \in S : x <= y
  BY <1>2
<1> QED
  BY <1>3 DEF Min

\* FirstReadLike is the position of a tool to read files with, or there is none.
LEMMA ReadLikeFound ==
  ASSUME tools \in Seq(Names)
  PROVE  /\ FirstReadLike \in 0..Len(tools)
         /\ FirstReadLike # 0 => tools[FirstReadLike] \in ReadLike
         /\ FirstReadLike = 0 => \A i \in 1..Len(tools) : tools[i] \notin ReadLike
<1> DEFINE S == {i \in 1..Len(tools) : tools[i] \in ReadLike}
<1>1. FirstReadLike = IF S # {} THEN Min(S) ELSE 0
  BY DEF FirstReadLike, SelectInSeq
<1>2. Len(tools) \in Nat
  BY LenProperties
<1>3. CASE S # {}
  <2>1. Min(S) \in S
    BY <1>2, <1>3, Least
  <2> QED
    BY <1>1, <1>2, <1>3, <2>1
<1>4. CASE S = {}
  BY <1>1, <1>2, <1>4
<1> QED
  BY <1>3, <1>4

\* The tools the upstream is offered have the client's names, or "read".
LEMMA OfferedTools ==
  ASSUME tools \in Seq(Names), Len(tools) <= MaxTools
  PROVE  /\ Len(tools) \in Nat /\ Len(Offered) \in Nat /\ Len(Offered) <= MaxTools + 1
         /\ DOMAIN Offered = 1..Len(Offered)
         /\ \A i \in 1..Len(Offered) : Offered[i] \in Names
         /\ \A name \in Names \cup {None} :
              /\ RestoreToolName(name) \in Names \cup {None}
              /\ Original[name] \in Names \cup {None} /\ Given[name] \in Names \cup {None}
              /\ Given[name] = IF Copies THEN name ELSE RestoreToolName(name)
              /\ Original[name] = RestoreToolName(name)
<1>1. Len(tools) \in Nat /\ MaxTools \in Nat /\ "read" \in Names /\ None \notin Names
  BY LenProperties, ExchangeAssumption
<1>2. FirstReadLike \in 0..Len(tools)
  BY ReadLikeFound
<1>3. Offered \in Seq(Names) /\ Len(Offered) <= Len(tools) + 1
  <2>1. CASE ~freeTier
    BY <1>1, <2>1 DEF Offered
  <2>2. CASE freeTier /\ FirstReadLike = 0
    BY <1>1, <2>2, AppendProperties DEF Offered
  <2>3. CASE freeTier /\ FirstReadLike # 0
    <3>1. Offered = [tools EXCEPT ![FirstReadLike] = "read"] /\ FirstReadLike \in 1..Len(tools)
      BY <1>2, <2>3 DEF Offered
    <3> QED
      BY <1>1, <3>1, ExceptSeq
  <2> QED
    BY <2>1, <2>2, <2>3
<1>6. \A i \in 1..Len(tools) : tools[i] \in Names
  BY ElementOfSeq
<1>7. ASSUME NEW name \in Names \cup {None}
      PROVE  RestoreToolName(name) \in Names \cup {None}
  <2>1. CASE Renames /\ name = "read"
    <3>1. FirstReadLike \in 1..Len(tools)
      BY <1>2, <2>1 DEF Renames
    <3>2. tools[FirstReadLike] \in Names
      BY <1>6, <3>1
    <3> QED
      BY <1>1, <2>1, <3>2 DEF RestoreToolName
  <2>2. CASE ~(Renames /\ name = "read")
    BY <1>1, <2>2 DEF RestoreToolName
  <2> QED
    BY <2>1, <2>2
<1>8. /\ Len(Offered) \in Nat /\ DOMAIN Offered = 1..Len(Offered)
      /\ \A i \in 1..Len(Offered) : Offered[i] \in Names
  BY <1>3, LenProperties, ElementOfSeq
<1>9. ASSUME NEW name \in Names \cup {None}
      PROVE  /\ Original[name] = RestoreToolName(name)
             /\ Given[name] = IF Copies THEN name ELSE RestoreToolName(name)
  BY DEF Original, Given
<1> QED
  BY <1>1, <1>3, <1>7, <1>8, <1>9

\* The client is given the name of the tool that is meant, if it has at most
\* one to read files with.
LEMMA NameOffered ==
  ASSUME tools \in Seq(Names), Len(tools) <= MaxTools, protocol \in Protocols,
         \A i, j \in 1..Len(tools) : tools[i] \in ReadLike /\ tools[j] \in ReadLike => i = j,
         NEW m \in 1..Len(Offered)
  PROVE  /\ Given[Offered[m]] = IF m \in 1..Len(tools) THEN tools[m] ELSE "read"
         /\ Original[Offered[m]] = IF m \in 1..Len(tools) THEN tools[m] ELSE "read"
<1> DEFINE name == IF m \in 1..Len(tools) THEN tools[m] ELSE "read"
<1>1. /\ FirstReadLike \in 0..Len(tools) /\ Len(tools) \in Nat
      /\ FirstReadLike # 0 => tools[FirstReadLike] \in ReadLike
      /\ "read" \in ReadLike /\ DOMAIN tools = 1..Len(tools)
  BY ReadLikeFound, LenProperties, ExchangeAssumption
<1>2. RestoreToolName(Offered[m]) = name /\ (~Renames => Offered[m] = name)
  <2>1. CASE ~freeTier
    BY <1>1, <2>1 DEF Offered, RestoreToolName, Renames
  <2>2. CASE freeTier /\ FirstReadLike = 0
    <3>1. /\ Offered = Append(tools, "read") /\ ~Renames
          /\ Len(Offered) = Len(tools) + 1 /\ Offered[Len(tools) + 1] = "read"
          /\ \A i \in 1..Len(tools) : Offered[i] = tools[i]
      BY <1>1, <2>2, AppendProperties, ExchangeAssumption DEF Offered, Renames
    <3>2. Offered[m] = name
      <4>1. CASE m \in 1..Len(tools)
        BY <3>1, <4>1
      <4>2. CASE m = Len(tools) + 1
        BY <1>1, <3>1, <4>2
      <4> QED
        BY <1>1, <3>1, <4>1, <4>2
    <3> QED
      BY <3>1, <3>2 DEF RestoreToolName
  <2>3. CASE freeTier /\ FirstReadLike # 0
    <3>1. /\ Len(Offered) = Len(tools) /\ Offered[FirstReadLike] = "read"
          /\ \A i \in 1..Len(tools) : i # FirstReadLike => Offered[i] = tools[i]
      BY <1>1, <2>3, ExceptSeq, ExchangeAssumption DEF Offered
    <3>2. CASE m = FirstReadLike
      BY <1>1, <2>3, <3>1, <3>2 DEF RestoreToolName, Renames
    <3>3. CASE m # FirstReadLike
      <4>1. Offered[m] = tools[m] /\ m \in 1..Len(tools) /\ tools[m] # "read"
        BY <1>1, <2>3, <3>1, <3>3
      <4> QED
        BY <4>1 DEF RestoreToolName
    <3> QED
      BY <3>2, <3>3
  <2> QED
    BY <2>1, <2>2, <2>3
<1>3. Copies => ~Renames
  BY ExchangeAssumption DEF Copies, Restores, Aggregates, Renames
<1>4. Offered[m] \in Names \cup {None}
  BY OfferedTools
<1> HIDE DEF name
<1>5. /\ Original[Offered[m]] = RestoreToolName(Offered[m])
      /\ Given[Offered[m]] = IF Copies THEN Offered[m] ELSE RestoreToolName(Offered[m])
  BY <1>4, OfferedTools
<1> QED
  BY <1>2, <1>3, <1>5 DEF name

\* What the type invariant says of the variables.
LEMMA Types ==
  ASSUME ExchangeTypeOK
  PROVE  /\ trace \in Traces /\ protocol \in Protocols
         /\ protocol \in {"chat", "responses", "anthropic"}
         /\ tools \in Seq(Names) /\ meant \in [Indexes -> 0..(MaxTools + 1)]
         /\ sent \in Seq(Event) /\ Len(sent) \in Nat
         /\ relayed \in Seq(Event) /\ Len(relayed) \in Nat
         /\ \A i \in 1..Len(sent) : sent[i] \in Event
         /\ \A i \in 1..Len(relayed) : relayed[i] \in Event
BY LenProperties, ElementOfSeq, ExchangeAssumption DEF ExchangeTypeOK, TypeOK, Traces

\* The steps of the path leave the answer alone.
LEMMA PathKeeps ==
  ASSUME Inv, UNCHANGED vars
  PROVE  TypeOK' /\ RequestInv' /\ CompletionInv'
<1>1. /\ UNCHANGED <<protocol, tools, freeTier, stream>>
      /\ UNCHANGED <<meant, sent, completion, relayed, status>>
      /\ UNCHANGED requestVars
  BY DEF vars, requestVars, answerVars
<1>2. /\ Offered' = Offered /\ (PutTogether' <=> PutTogether) /\ Original' = Original
  BY <1>1, ModesSame
<1>3. TypeOK'
  BY <1>1 DEF Inv, ExchangeTypeOK, TypeOK
<1>4. RequestInv'
  BY <1>1, <1>2 DEF Inv, RequestInv, Begun
<1>5. /\ Texts' = Texts /\ Order' = Order /\ Reason' = Reason
      /\ \A k \in Indexes : Arguments(k)' = Arguments(k) /\ CallName(k)' = CallName(k)
      /\ \A kind, k : Sent(kind, k)' = Sent(kind, k)
  BY <1>1 DEF Texts, Order, Reason, Arguments, CallName, Sent
<1>6. CompletionInv'
  BY <1>1, <1>2, <1>5 DEF Inv, CompletionInv, Begun
<1> QED
  BY <1>3, <1>4, <1>6

(***************************************************************************)
(* The steps of the handler that leave the answer alone.                   *)
(***************************************************************************)
\* The statuses that are written.
Codes == {Unset, 200} \cup LocalStatus \cup Rejections

\* The upstream's refusals are no status that means something else here.
LEMMA CodeTypes == Codes \subseteq Nat /\ Unset = 0 /\ Unset \notin LocalStatus
                   /\ Unset \notin Rejections /\ 200 \notin Rejections /\ 502 \in LocalStatus
BY RejectionsAssumption DEF Codes, Unset, LocalStatus

\* Such a step keeps the invariant if it keeps what is said of the trace and of
\* the outcome.
LEMMA PathStep ==
  ASSUME Inv, UNCHANGED vars, cut' = cut, trace' \in Traces,
         pc' \in Places \cup {"reading", "answering", "returned", "done"},
         client' \in {"here", "gone"}, watched' \in BOOLEAN, header' \in Codes,
         UpstreamStatus' = UpstreamStatus \/ NothingSent,
         ~Ended' => ~Ended,
         UpstreamStatus' = Unset \/ (pc' = "answering" /\ UpstreamStatus' # 200) => NothingSent,
         TraceInv', OutcomeInv'
  PROVE  Inv'
<1>1. /\ UNCHANGED <<protocol, tools, freeTier, stream>>
      /\ UNCHANGED <<meant, sent, completion, relayed, status>>
      /\ UNCHANGED requestVars
  BY DEF vars, requestVars, answerVars
<1>2. /\ Offered' = Offered /\ (PutTogether' <=> PutTogether) /\ Original' = Original
      /\ (Copies' <=> Copies) /\ (Translates' <=> Translates) /\ Given' = Given
  BY <1>1, ModesSame
<1>3. TypeOK' /\ RequestInv' /\ CompletionInv'
  BY PathKeeps
<1>4. ExchangeTypeOK'
  BY <1>3 DEF Inv, ExchangeTypeOK, Traces, Codes
<1>5. NothingSent => NothingSent'
  BY <1>1 DEF NothingSent, Begun
<1>6. StreamInv'
  BY <1>1, <1>2, <1>5 DEF Inv, StreamInv, Begun
<1>7. RelayInv'
  <2>1. PutTogether' /\ UpstreamStatus' \notin Rejections => relayed' = <<>>
    BY <1>1, <1>2 DEF Inv, RelayInv, NothingSent
  <2>2. UNCHANGED <<sent, relayed, cut, status>>
    BY <1>1
  <2> QED
    BY <1>2, <2>1, <2>2 DEF Inv, RelayInv
<1> QED
  BY <1>3, <1>4, <1>6, <1>7 DEF Inv

\* Answering without the upstream keeps the invariant.
LEMMA AnswerAloneKeepsInv ==
  ASSUME Inv, NEW code \in LocalStatus, AnswerAlone(code)
  PROVE  Inv'
<1>1. /\ pc = "reading" /\ pc' = "returned" /\ header' = code /\ UNCHANGED vars
      /\ UNCHANGED <<client, watched, trace, cut>>
  BY DEF AnswerAlone, Refuse
<1>2. /\ trace' \in Traces /\ UpstreamStatus' = UpstreamStatus /\ UpstreamBody' = UpstreamBody
      /\ (Asked' <=> Asked) /\ (Failed' <=> Failed)
  BY <1>1, Types DEF Inv, UpstreamStatus, UpstreamBody, Asked, Failed
<1>3. NothingSent /\ sent' = sent
  BY <1>1 DEF Inv, StreamInv, TraceInv, vars, answerVars
<1>4. header' \in Codes /\ header' # Unset
  BY <1>1, CodeTypes DEF Codes
<1>5. TraceInv'
  BY <1>1, <1>2, <1>3, <1>4 DEF Inv, TraceInv, Ended, NothingSent, Places
<1>6. OutcomeInv'
  <2>1. ~Failed' /\ UpstreamStatus' = Unset
    BY <1>1, <1>2 DEF Inv, TraceInv
  <2> QED
    BY <1>1, <1>3, <2>1, CodeTypes DEF OutcomeInv, NothingSent
<1> QED
  BY <1>1, <1>2, <1>3, <1>4, <1>5, <1>6, PathStep DEF Inv, ExchangeTypeOK, Ended

\* Asking the upstream keeps the invariant.
LEMMA AskKeepsInv ==
  ASSUME Inv, Ask
  PROVE  Inv'
<1>1. /\ pc = "reading" /\ pc' = "acquiring" /\ trace' = [trace EXCEPT !.upstream = TRUE]
      /\ watched' \in BOOLEAN
      /\ UNCHANGED vars /\ UNCHANGED <<client, header, cut>>
  BY DEF Ask
<1>2. /\ trace' \in Traces /\ UpstreamStatus' = UpstreamStatus /\ UpstreamBody' = UpstreamBody
      /\ Asked' /\ (Failed' <=> Failed)
  BY <1>1, Types, TraceAsked DEF Inv
<1>3. NothingSent /\ UpstreamStatus = Unset /\ sent' = sent /\ relayed' = relayed /\ ~Failed
  BY <1>1 DEF Inv, StreamInv, TraceInv, vars, answerVars
<1>4. header' \in Codes
  BY <1>1 DEF Inv, ExchangeTypeOK, Codes
<1>5. TraceInv'
  BY <1>1, <1>2, <1>3 DEF Inv, TraceInv, Ended, NothingSent
<1>6. OutcomeInv'
  BY <1>1, <1>2, <1>3, CodeTypes DEF OutcomeInv, NothingSent, Ended
<1> QED
  BY <1>1, <1>2, <1>3, <1>4, <1>5, <1>6, PathStep DEF Inv, ExchangeTypeOK, Ended, Places

\* Not reaching the upstream keeps the invariant.
LEMMA UnreachableKeepsInv ==
  ASSUME Inv, Unreachable
  PROVE  Inv'
<1>1. /\ pc \in Places /\ pc' = "returned" /\ header' = 502
      /\ trace' = [trace EXCEPT !.error = TRUE]
      /\ UNCHANGED vars /\ UNCHANGED <<client, watched, cut>>
  BY DEF Unreachable, Refuse
<1>2. /\ trace' \in Traces /\ UpstreamStatus' = UpstreamStatus /\ UpstreamBody' = UpstreamBody
      /\ Failed' /\ (Asked' <=> Asked)
  BY <1>1, Types, TraceFailed DEF Inv
<1>3. NothingSent /\ UpstreamStatus = Unset /\ sent' = sent /\ relayed' = relayed /\ Asked
  BY <1>1 DEF Inv, StreamInv, TraceInv, vars, answerVars
<1>4. header' \in Codes /\ header' # Unset
  BY <1>1, CodeTypes DEF Codes
<1>5. TraceInv'
  BY <1>1, <1>2, <1>3, <1>4 DEF Inv, TraceInv, Ended, NothingSent, Places
<1>6. OutcomeInv'
  BY <1>1, <1>2, <1>3, CodeTypes DEF OutcomeInv, NothingSent, Ended
<1> QED
  BY <1>1, <1>2, <1>3, <1>4, <1>5, <1>6, PathStep DEF Inv, ExchangeTypeOK, Ended

\* The upstream's status keeps the invariant.
LEMMA AnsweredKeepsInv ==
  ASSUME Inv, NEW code \in Rejections \cup {200}, Answered(code)
  PROVE  Inv'
<1>1. /\ pc \in Places /\ pc' = "answering" /\ trace' = [trace EXCEPT !.upstreamStatus = code]
      /\ header' = IF IF code = 200 THEN PutTogether ELSE protocol # "chat"
                     THEN header ELSE code
      /\ UNCHANGED vars /\ UNCHANGED <<client, watched, cut>>
  BY DEF Answered, Places
<1>2. /\ trace' \in Traces /\ UpstreamStatus' = code /\ UpstreamBody' = UpstreamBody
      /\ (Failed' <=> Failed) /\ (Asked' <=> Asked)
  BY <1>1, Types, TraceAnswered DEF Inv
<1>3. /\ NothingSent /\ sent' = sent /\ relayed' = relayed /\ Asked /\ ~Failed
      /\ code # Unset
  BY <1>1, CodeTypes DEF Inv, StreamInv, TraceInv, vars, answerVars
<1>4. header' \in Codes /\ (code = 200 /\ ~PutTogether => header' = 200)
  BY <1>1 DEF Inv, ExchangeTypeOK, Codes
<1>5. PutTogether' <=> PutTogether
  BY <1>1, ModesSame DEF vars
<1>6. TraceInv'
  BY <1>1, <1>2, <1>3, <1>4, <1>5 DEF Inv, TraceInv, Ended, NothingSent, Places
<1>7. OutcomeInv'
  BY <1>1, <1>2, <1>3, <1>5 DEF OutcomeInv, NothingSent, Ended
<1> QED
  BY <1>1, <1>2, <1>3, <1>4, <1>6, <1>7, PathStep DEF Inv, ExchangeTypeOK, Ended, Places

\* Finishing the trace keeps the invariant.
LEMMA FinishTraceKeepsInv ==
  ASSUME Inv, FinishTrace
  PROVE  Inv'
<1>1. /\ pc = "returned" /\ pc' = "done" /\ header # Unset
      /\ UNCHANGED vars /\ UNCHANGED <<client, watched, header, cut>>
  BY DEF FinishTrace, Inv, TraceInv, Ended
<1>2. trace' = [trace EXCEPT !.inbound = TRUE, !.status = header]
  BY <1>1 DEF FinishTrace
<1>3. header \in Codes /\ header \in Nat
  BY CodeTypes DEF Inv, ExchangeTypeOK, Codes
<1>4. /\ trace' \in Traces /\ UpstreamStatus' = UpstreamStatus /\ UpstreamBody' = UpstreamBody
      /\ (Failed' <=> Failed) /\ (Asked' <=> Asked) /\ Told' /\ TraceStatus' = header
  BY <1>2, <1>3, Types, TraceFinished DEF Inv
<1>5. UNCHANGED <<sent, relayed, status>> /\ (PutTogether' <=> PutTogether)
  BY <1>1, ModesSame DEF vars, answerVars
<1>6. TraceInv'
  BY <1>1, <1>4, <1>5 DEF Inv, TraceInv, Ended, Places
<1>7. OutcomeInv'
  BY <1>1, <1>4, <1>5 DEF Inv, OutcomeInv, Ended
<1>8. UpstreamStatus' = Unset => NothingSent
  BY <1>4 DEF Inv, StreamInv
<1> QED
  BY <1>1, <1>3, <1>4, <1>6, <1>7, <1>8, PathStep DEF Inv, ExchangeTypeOK, Ended

\* A step from one place of executeUpstream to another keeps the invariant.
LEMMA PlaceKeepsInv ==
  ASSUME Inv, pc \in Places, pc' \in Places,
         UNCHANGED <<vars, client, watched, header, trace, cut>>
  PROVE  Inv'
<1>1. /\ trace' \in Traces /\ UpstreamStatus' = UpstreamStatus /\ UpstreamBody' = UpstreamBody
      /\ (Asked' <=> Asked) /\ (Failed' <=> Failed)
  BY Types DEF Inv, UpstreamStatus, UpstreamBody, Asked, Failed
<1>2. UNCHANGED <<sent, relayed, status>> /\ (PutTogether' <=> PutTogether)
  BY ModesSame DEF vars, answerVars
<1>3. ~Ended /\ ~Ended'
  BY DEF Ended, Places
<1>4. TraceInv'
  BY <1>1, <1>2, <1>3 DEF Inv, TraceInv, Places
<1>5. OutcomeInv'
  BY <1>1, <1>2, <1>3 DEF Inv, OutcomeInv
<1>6. UpstreamStatus' = Unset \/ (pc' = "answering" /\ UpstreamStatus' # 200) => NothingSent
  BY <1>1 DEF Inv, StreamInv, Places
<1>7. header' \in Codes
  BY DEF Inv, ExchangeTypeOK, Codes
<1> QED
  BY <1>1, <1>3, <1>4, <1>5, <1>6, <1>7, PathStep DEF Inv, ExchangeTypeOK

\* The client's leaving, and no step at all, keep the invariant.
LEMMA ClientKeepsInv ==
  ASSUME Inv, UNCHANGED <<vars, pc, watched, header, trace, cut>>, client' \in {"here", "gone"}
  PROVE  Inv'
<1>1. /\ trace' \in Traces /\ UpstreamStatus' = UpstreamStatus /\ UpstreamBody' = UpstreamBody
      /\ (Asked' <=> Asked) /\ (Failed' <=> Failed) /\ (Told' <=> Told)
      /\ TraceStatus' = TraceStatus
  BY Types DEF Inv, UpstreamStatus, UpstreamBody, Asked, Failed, Told, TraceStatus
<1>2. UNCHANGED <<sent, relayed, status>> /\ (PutTogether' <=> PutTogether)
  BY ModesSame DEF vars, answerVars
<1>3. TraceInv'
  BY <1>1, <1>2 DEF Inv, TraceInv, Ended
<1>4. OutcomeInv'
  BY <1>1, <1>2 DEF Inv, OutcomeInv, Ended
<1>5. UpstreamStatus' = Unset \/ (pc' = "answering" /\ UpstreamStatus' # 200) => NothingSent
  BY <1>1 DEF Inv, StreamInv
<1>6. header' \in Codes
  BY DEF Inv, ExchangeTypeOK, Codes
<1> QED
  BY <1>1, <1>3, <1>4, <1>5, <1>6, PathStep DEF Inv, ExchangeTypeOK, Ended

-----------------------------------------------------------------------------
(***************************************************************************)
(* The events of the upstream.                                             *)
(***************************************************************************)
\* The type of the completion.
Completions == [text : SUBSET Pieces, toolOrder : Seq(Indexes),
                name : [Indexes -> Names \cup {None}],
                arguments : [Indexes -> SUBSET Pieces],
                finishReason : FinishReasons \cup {None}]

\* An event of the upstream, as the client's answer takes it.
Heard(event) ==
  /\ event \in Event
  /\ status = "open" /\ Len(sent) < MaxEvents
  /\ UNCHANGED requestVars
  /\ sent' = Append(sent, event)
  /\ Relay(event) \/ Aggregate(event)
  /\ KindOf(event) = "tool" <=> IndexOf(event) # None
  /\ IndexOf(event) \in Indexes \cup {None}
  /\ KindOf(event) = "done" => event = Simple("done")
  /\ NameOf(event) # None => /\ KindOf(event) = "tool" /\ ~Begun(IndexOf(event))
                             /\ NameOf(event) = Offered[meant'[IndexOf(event)]]
  /\ KindOf(event) = "tool" => Begun(IndexOf(event)) \/ NameOf(event) # None
  /\ meant' \in [Indexes -> 0..(MaxTools + 1)]
  /\ \A k \in Indexes :
       /\ Begun(k)' <=> Begun(k) \/ IndexOf(event) = k
       /\ Begun(k) => meant'[k] = meant[k]
       /\ Begun(k)' => meant'[k] \in 1..Len(Offered)

\* The fields of an event that is no fragment of a call.
LEMMA SimpleFields ==
  ASSUME NEW kind \in {"text", "error", "done"} \cup FinishReasons
  PROVE  /\ Simple(kind) \in Event /\ KindOf(Simple(kind)) = kind /\ kind # "tool"
         /\ IndexOf(Simple(kind)) = None /\ NameOf(Simple(kind)) = None
BY DEF Simple, Event, KindOf, IndexOf, NameOf, FinishReasons

\* The fields of a fragment of a call.
LEMMA CallFields ==
  ASSUME NEW k \in Indexes, NEW name \in Names \cup {None}
  PROVE  LET event == [kind |-> "tool", index |-> k, name |-> name]
         IN  /\ event \in Event /\ KindOf(event) = "tool"
             /\ IndexOf(event) = k /\ NameOf(event) = name
BY DEF Event, KindOf, IndexOf, NameOf

\* Text, a finish reason, an error and [DONE] are heard.
LEMMA HeardSimple ==
  ASSUME Inv, NEW kind \in {"text", "error", "done"} \cup FinishReasons,
         Receive(Simple(kind)), UNCHANGED meant
  PROVE  Heard(Simple(kind))
<1>1. /\ Simple(kind) \in Event /\ KindOf(Simple(kind)) = kind /\ kind # "tool"
      /\ IndexOf(Simple(kind)) = None /\ NameOf(Simple(kind)) = None
  BY SimpleFields
<1>2. status = "open" /\ Len(sent) < MaxEvents
  BY DEF Receive
<1>3. Relay(Simple(kind)) \/ Aggregate(Simple(kind))
  BY DEF Receive
<1>4. sent' = Append(sent, Simple(kind)) /\ UNCHANGED requestVars
  BY <1>3 DEF Relay, Aggregate
<1>5. Offered' = Offered /\ None \notin Indexes
  BY <1>4, ModesSame, ExchangeAssumption
<1>6. meant' \in [Indexes -> 0..(MaxTools + 1)]
  BY Types DEF Inv
<1>7. ASSUME NEW k \in Indexes
      PROVE  /\ Begun(k)' <=> Begun(k)
             /\ Begun(k) => meant'[k] \in 1..Len(Offered)
  BY DEF Begun, Inv, RequestInv
<1> QED
  BY <1>1, <1>2, <1>3, <1>4, <1>5, <1>6, <1>7 DEF Heard

\* A fragment of a call is heard.
LEMMA HeardCall ==
  ASSUME Inv, NEW k \in Indexes, ToolCall(k)
  PROVE  \E event : Heard(event)
<1>1. /\ None \notin Indexes /\ None \notin Names
      /\ meant \in [Indexes -> 0..(MaxTools + 1)] /\ MaxTools \in Nat
      /\ \A j \in Indexes : Begun(j) => meant[j] \in 1..Len(Offered)
  BY Types, ExchangeAssumption DEF Inv, RequestInv
<1>2. /\ Len(Offered) \in Nat /\ Len(Offered) <= MaxTools + 1
      /\ DOMAIN Offered = 1..Len(Offered)
      /\ \A i \in 1..Len(Offered) : Offered[i] \in Names
  BY OfferedTools, Types DEF Inv, RequestInv
<1>3. CASE \E tool \in DOMAIN Offered :
             /\ meant[k] = 0
             /\ meant' = [meant EXCEPT ![k] = tool]
             /\ Receive([kind |-> "tool", index |-> k, name |-> Offered[tool]])
  <2>1. PICK tool \in 1..Len(Offered) :
             /\ meant[k] = 0
             /\ meant' = [meant EXCEPT ![k] = tool]
             /\ Receive([kind |-> "tool", index |-> k, name |-> Offered[tool]])
    BY <1>2, <1>3
  <2> DEFINE event == [kind |-> "tool", index |-> k, name |-> Offered[tool]]
  <2>2. event \in Event /\ KindOf(event) = "tool" /\ IndexOf(event) = k
        /\ NameOf(event) = Offered[tool] /\ Offered[tool] # None
    BY <1>1, <1>2, CallFields
  <2>3. Receive(event)
    BY <2>1
  <2> HIDE DEF event
  <2>4. status = "open" /\ Len(sent) < MaxEvents /\ (Relay(event) \/ Aggregate(event))
    BY <2>3 DEF Receive
  <2>5. sent' = Append(sent, event) /\ UNCHANGED requestVars
    BY <2>4 DEF Relay, Aggregate
  <2>6. meant' \in [Indexes -> 0..(MaxTools + 1)] /\ meant'[k] = tool /\ ~Begun(k)
    BY <1>1, <1>2, <2>1 DEF Begun
  <2>7. ASSUME NEW j \in Indexes
        PROVE  /\ Begun(j)' <=> Begun(j) \/ IndexOf(event) = j
               /\ Begun(j) => meant'[j] = meant[j]
               /\ Begun(j)' => meant'[j] \in 1..Len(Offered)
    <3>1. CASE j = k
      BY <2>2, <2>6, <3>1 DEF Begun
    <3>2. CASE j # k
      <4>1. meant'[j] = meant[j]
        BY <1>1, <2>1, <3>2
      <4> QED
        BY <1>1, <2>2, <3>2, <4>1 DEF Begun
    <3> QED
      BY <3>1, <3>2
  <2>8. KindOf(event) = "tool" /\ KindOf(event) # "done" /\ IndexOf(event) # None
    BY <1>1, <2>2
  <2>9. NameOf(event) = Offered[meant'[IndexOf(event)]] /\ ~Begun(IndexOf(event))
        /\ NameOf(event) # None
    BY <2>2, <2>6
  <2> QED
    BY <2>2, <2>4, <2>5, <2>6, <2>7, <2>8, <2>9 DEF Heard
<1>4. CASE /\ meant[k] # 0
           /\ Receive([kind |-> "tool", index |-> k, name |-> None])
           /\ UNCHANGED meant
  <2> DEFINE event == [kind |-> "tool", index |-> k, name |-> None]
  <2>2. event \in Event /\ KindOf(event) = "tool" /\ IndexOf(event) = k
        /\ NameOf(event) = None
    BY CallFields
  <2>3. Receive(event)
    BY <1>4
  <2> HIDE DEF event
  <2>4. status = "open" /\ Len(sent) < MaxEvents /\ (Relay(event) \/ Aggregate(event))
    BY <2>3 DEF Receive
  <2>5. sent' = Append(sent, event) /\ UNCHANGED requestVars
    BY <2>4 DEF Relay, Aggregate
  <2>6. meant' = meant /\ Begun(k)
    BY <1>4 DEF Begun
  <2>7. ASSUME NEW j \in Indexes
        PROVE  /\ Begun(j)' <=> Begun(j) \/ IndexOf(event) = j
               /\ Begun(j) => meant'[j] = meant[j]
               /\ Begun(j)' => meant'[j] \in 1..Len(Offered)
    BY <1>1, <2>2, <2>6 DEF Begun
  <2>8. KindOf(event) = "tool" /\ KindOf(event) # "done" /\ IndexOf(event) # None
    BY <1>1, <2>2
  <2> QED
    BY <1>1, <2>2, <2>4, <2>5, <2>6, <2>7, <2>8 DEF Heard
<1> QED
  BY <1>3, <1>4 DEF ToolCall

\* Whatever the upstream sends is heard.
LEMMA EveryPartIsHeard ==
  ASSUME Inv, Part
  PROVE  \E event : Heard(event)
<1>1. CASE Text
  BY <1>1, HeardSimple DEF Text
<1>2. CASE Error
  BY <1>2, HeardSimple DEF Error
<1>3. CASE Done
  BY <1>3, HeardSimple DEF Done
<1>4. CASE \E reason \in FinishReasons : Finish(reason)
  BY <1>4, HeardSimple DEF Finish
<1>5. CASE \E k \in Indexes : ToolCall(k)
  BY <1>5, HeardCall
<1> QED
  BY <1>1, <1>2, <1>3, <1>4, <1>5 DEF Part

\* The stream with the event.
LEMMA HeardPart ==
  ASSUME Inv, NEW event, Heard(event)
  PROVE  /\ event \in Event /\ UNCHANGED requestVars /\ sent' = Append(sent, event)
         /\ sent' \in Seq(Event) /\ Len(sent)' = Len(sent) + 1 /\ Len(sent)' \in Pieces
         /\ sent'[Len(sent) + 1] = event
         /\ \A i \in 1..Len(sent) : sent'[i] = sent[i]
         /\ 1..Len(sent)' = (1..Len(sent)) \cup {Len(sent) + 1}
<1>1. event \in Event /\ UNCHANGED requestVars /\ sent' = Append(sent, event)
      /\ Len(sent) < MaxEvents
  BY DEF Heard
<1>2. sent \in Seq(Event) /\ Len(sent) \in Nat /\ MaxEvents \in Nat
  BY Types, ExchangeAssumption DEF Inv
<1>3. /\ sent' \in Seq(Event) /\ Len(sent)' = Len(sent) + 1
      /\ sent'[Len(sent) + 1] = event
      /\ \A i \in 1..Len(sent) : sent'[i] = sent[i]
  BY <1>1, <1>2, AppendProperties
<1>4. Len(sent)' \in Pieces
  BY <1>1, <1>2, <1>3 DEF Pieces
<1> QED
  BY <1>1, <1>2, <1>3, <1>4

\* The client is told of a failure for a failure only, or for a stream without
\* a chunk, and the name it is given is the one its tool has.
LEMMA RelayedEvent ==
  ASSUME Inv, NEW event \in Event, ~PutTogether,
         KindOf(event) = "tool" <=> IndexOf(event) # None
  PROVE  /\ Relayed(event) \in Event
         /\ Copies => Relayed(event) = event
         /\ KindOf(event) = "tool" => NameOf(Relayed(event)) = Given[NameOf(event)]
         /\ Translates /\ KindOf(event) = "error" => KindOf(Relayed(event)) = "error"
         /\ KindOf(Relayed(event)) = "error" =>
              KindOf(event) = "error" \/ (sent = <<>> /\ KindOf(event) = "done")
<1>1. /\ event = [kind |-> KindOf(event), index |-> IndexOf(event), name |-> NameOf(event)]
      /\ IndexOf(event) \in Indexes \cup {None} /\ NameOf(event) \in Names \cup {None}
      /\ KindOf(event) \in {"text", "tool", "error", "done", "chunk"} \cup FinishReasons
  BY DEF Event, KindOf, IndexOf, NameOf
<1>2. /\ RestoreToolName(NameOf(event)) \in Names \cup {None}
      /\ Given[NameOf(event)] =
           IF Copies THEN NameOf(event) ELSE RestoreToolName(NameOf(event))
  BY <1>1, OfferedTools, Types DEF Inv, RequestInv
<1> DEFINE renamed == [event EXCEPT !.name = RestoreToolName(@)]
<1>3. /\ renamed \in Event /\ KindOf(renamed) = KindOf(event)
      /\ NameOf(renamed) = RestoreToolName(NameOf(event))
  BY <1>1, <1>2 DEF Event, KindOf, NameOf
<1>4. /\ [renamed EXCEPT !.index = None] \in Event
      /\ KindOf([renamed EXCEPT !.index = None]) = KindOf(event)
      /\ NameOf([renamed EXCEPT !.index = None]) = RestoreToolName(NameOf(event))
  BY <1>3 DEF Event, KindOf, NameOf
<1>5. /\ Simple("error") \in Event /\ KindOf(Simple("error")) = "error"
      /\ Simple("chunk") \in Event /\ KindOf(Simple("chunk")) = "chunk"
  BY DEF Simple, Event, KindOf, FinishReasons
<1>6. /\ Copies => ~Restores /\ ~Translates
      /\ Translates => ~Restores /\ ~Copies
      /\ Restores => ~Copies
  BY Modes, Types DEF Inv
<1> HIDE DEF renamed
<1>7. Relayed(event) =
        CASE Copies -> event
          [] Translates /\ KindOf(event) = "done" /\ sent = <<>> -> Simple("error")
          [] Restores /\ KindOf(event) = "error" -> Simple("chunk")
          [] Restores /\ IndexOf(event) = ZeroIndex -> [renamed EXCEPT !.index = None]
          [] OTHER -> renamed
  BY DEF Relayed, renamed, KindOf, IndexOf
<1>8. CASE Copies
  <2>1. Relayed(event) = event
    BY <1>6, <1>7, <1>8
  <2>2. NameOf(Relayed(event)) = Given[NameOf(event)]
    BY <1>2, <1>8, <2>1
  <2> QED
    BY <1>6, <1>8, <2>1, <2>2
<1>9. CASE ~Copies /\ Translates /\ KindOf(event) = "done" /\ sent = <<>>
  <2>1. Relayed(event) = Simple("error")
    BY <1>6, <1>7, <1>9
  <2> QED
    BY <1>5, <1>9, <2>1
<1>10. CASE ~Copies /\ Restores /\ KindOf(event) = "error"
  <2>1. Relayed(event) = Simple("chunk")
    BY <1>6, <1>7, <1>10, ExchangeAssumption
  <2> QED
    BY <1>5, <1>6, <1>10, <2>1
<1>11. CASE ~Copies /\ Restores /\ KindOf(event) # "error" /\ IndexOf(event) = ZeroIndex
  <2>1. Relayed(event) = [renamed EXCEPT !.index = None]
    BY <1>6, <1>7, <1>11
  <2> QED
    BY <1>2, <1>4, <1>6, <1>11, <2>1
<1>12. CASE /\ ~Copies /\ ~(Translates /\ KindOf(event) = "done" /\ sent = <<>>)
            /\ ~(Restores /\ KindOf(event) = "error")
            /\ ~(Restores /\ IndexOf(event) = ZeroIndex)
  <2>1. Relayed(event) = renamed
    BY <1>7, <1>12
  <2> QED
    BY <1>2, <1>3, <1>12, <2>1
<1> QED
  BY <1>6, <1>8, <1>9, <1>10, <1>11, <1>12

\* What an event changes of the completion.
LEMMA AggregatedEvent ==
  ASSUME Inv, NEW event \in Event, NEW piece \in Pieces,
         completion' = Aggregated(event, piece),
         KindOf(event) = "tool" => IndexOf(event) \in Indexes
  PROVE  /\ completion' \in Completions
         /\ Texts' = IF KindOf(event) = "text" THEN Texts \cup {piece} ELSE Texts
         /\ \A k \in Indexes :
              /\ Arguments(k)' = IF KindOf(event) = "tool" /\ IndexOf(event) = k
                                 THEN Arguments(k) \cup {piece} ELSE Arguments(k)
              /\ CallName(k)' =
                   IF KindOf(event) = "tool" /\ IndexOf(event) = k /\ NameOf(event) # None
                   THEN RestoreToolName(NameOf(event)) ELSE CallName(k)
         /\ Order' = IF KindOf(event) = "tool" /\ ~\E i \in 1..Len(Order) : Order[i] = IndexOf(event)
                     THEN Append(Order, IndexOf(event)) ELSE Order
         /\ Reason' = IF KindOf(event) \in FinishReasons THEN KindOf(event) ELSE Reason
<1>1. /\ completion \in Completions
      /\ IndexOf(event) \in Indexes \cup {None} /\ NameOf(event) \in Names \cup {None}
      /\ Order \in Seq(Indexes)
  BY DEF Inv, ExchangeTypeOK, TypeOK, Completions, Event, IndexOf, NameOf, Order
<1>2. /\ RestoreToolName(NameOf(event)) \in Names \cup {None}
  BY <1>1, OfferedTools, Types DEF Inv, RequestInv
<1>3. completion' =
        CASE KindOf(event) = "text" -> [completion EXCEPT !.text = @ \cup {piece}]
          [] KindOf(event) = "tool" ->
               [completion EXCEPT
                  !.toolOrder = IF Contains(@, IndexOf(event)) THEN @ ELSE Append(@, IndexOf(event)),
                  !.name[IndexOf(event)] =
                    IF NameOf(event) = None THEN @ ELSE RestoreToolName(NameOf(event)),
                  !.arguments[IndexOf(event)] = @ \cup {piece}]
          [] KindOf(event) \in FinishReasons ->
               [completion EXCEPT !.finishReason = KindOf(event)]
          [] OTHER -> completion
  BY DEF Aggregated, KindOf, IndexOf, NameOf
<1>4. CASE KindOf(event) = "text"
  <2>1. completion' = [completion EXCEPT !.text = @ \cup {piece}]
    BY <1>3, <1>4 DEF FinishReasons
  <2> QED
    BY <1>1, <1>4, <2>1 DEF Completions, Texts, Arguments, CallName, Order, Reason, FinishReasons
<1>5. CASE KindOf(event) = "tool"
  <2> DEFINE order == IF Contains(completion.toolOrder, IndexOf(event))
                      THEN completion.toolOrder
                      ELSE Append(completion.toolOrder, IndexOf(event))
             restored == IF NameOf(event) = None THEN completion.name[IndexOf(event)]
                         ELSE RestoreToolName(NameOf(event))
             names == [completion.name EXCEPT ![IndexOf(event)] = restored]
             pieces == [completion.arguments EXCEPT ![IndexOf(event)] = @ \cup {piece}]
  <2>1. completion' = [completion EXCEPT
                         !.toolOrder = order, !.name = names, !.arguments = pieces]
    BY <1>3, <1>5 DEF FinishReasons
  <2>2. order \in Seq(Indexes)
    BY <1>1, <1>5, AppendProperties DEF Order
  <2>3. order = IF ~\E i \in 1..Len(Order) : Order[i] = IndexOf(event)
                     THEN Append(Order, IndexOf(event)) ELSE Order
    BY DEF Contains, Order
  <2>4. /\ completion.name \in [Indexes -> Names \cup {None}]
        /\ completion.arguments \in [Indexes -> SUBSET Pieces]
    BY <1>1 DEF Completions
  <2>5. /\ names \in [Indexes -> Names \cup {None}]
        /\ pieces \in [Indexes -> SUBSET Pieces]
    BY <1>2, <1>5, <2>4
  <2>6. ASSUME NEW k \in Indexes
        PROVE  /\ pieces[k] = IF IndexOf(event) = k
                                  THEN Arguments(k) \cup {piece} ELSE Arguments(k)
               /\ names[k] = IF IndexOf(event) = k /\ NameOf(event) # None
                                 THEN RestoreToolName(NameOf(event)) ELSE CallName(k)
    BY <1>5, <2>4 DEF Arguments, CallName
  <2> HIDE DEF order, names, pieces
  <2>7. completion' \in Completions
    BY <1>1, <2>1, <2>2, <2>5 DEF Completions
  <2>8. /\ Texts' = Texts /\ Reason' = Reason /\ Order' = order
        /\ completion'.arguments = pieces /\ completion'.name = names
    BY <1>1, <2>1 DEF Completions, Texts, Reason, Order
  <2>9. ASSUME NEW k \in Indexes
        PROVE  Arguments(k)' = pieces[k] /\ CallName(k)' = names[k]
    BY <2>8 DEF Arguments, CallName
  <2> QED
    BY <1>5, <2>3, <2>6, <2>7, <2>8, <2>9 DEF FinishReasons
<1>6. CASE KindOf(event) \in FinishReasons
  <2>1. completion' = [completion EXCEPT !.finishReason = KindOf(event)]
    BY <1>3, <1>6 DEF FinishReasons
  <2>2. KindOf(event) # "text" /\ KindOf(event) # "tool"
    BY <1>6 DEF FinishReasons
  <2> QED
    BY <1>1, <1>6, <2>1, <2>2 DEF Completions, Texts, Arguments, CallName, Order, Reason
<1>7. CASE KindOf(event) \notin FinishReasons \cup {"text", "tool"}
  <2>1. completion' = completion
    BY <1>3, <1>7
  <2> QED
    BY <1>1, <1>7, <2>1 DEF Texts, Arguments, CallName, Order, Reason
<1> QED
  BY <1>4, <1>5, <1>6, <1>7

-----------------------------------------------------------------------------
(***************************************************************************)
(* An event keeps each part of the invariant.                              *)
(***************************************************************************)
\* The types, and the tools of the calls that have begun.
LEMMA HeardTypes ==
  ASSUME Inv, NEW event, Heard(event)
  PROVE  TypeOK' /\ RequestInv'
<1>1. /\ event \in Event /\ UNCHANGED requestVars /\ sent' \in Seq(Event)
      /\ Len(sent)' \in Pieces
      /\ KindOf(event) = "tool" <=> IndexOf(event) # None
      /\ IndexOf(event) \in Indexes \cup {None}
      /\ meant' \in [Indexes -> 0..(MaxTools + 1)]
      /\ \A k \in Indexes : Begun(k)' => meant'[k] \in 1..Len(Offered)
  BY HeardPart DEF Heard
<1>2. UNCHANGED <<protocol, tools, freeTier, stream>> /\ Offered' = Offered
  BY <1>1, ModesSame DEF requestVars
<1>3. RequestInv'
  BY <1>1, <1>2 DEF Inv, RequestInv
<1>4. TypeOK
  BY DEF Inv, ExchangeTypeOK
<1>5. completion' \in Completions /\ relayed' \in Seq(Event)
      /\ status' \in {"open", "relayed", "completion", "failed"}
  <2>1. CASE Relay(event)
    <3>1. /\ ~PutTogether /\ relayed' = Append(relayed, Relayed(event))
          /\ completion' = completion
          /\ status' \in {"open", "relayed", "failed"}
      BY <2>1 DEF Relay
    <3>2. Relayed(event) \in Event
      BY <1>1, <3>1, RelayedEvent
    <3>3. relayed' \in Seq(Event)
      BY <1>4, <3>1, <3>2, AppendProperties DEF TypeOK
    <3> QED
      BY <1>4, <3>1, <3>3 DEF TypeOK, Completions
  <2>2. CASE Aggregate(event)
    <3>1. /\ completion' = Aggregated(event, Len(sent)') /\ relayed' = relayed
          /\ status' \in {"open", "completion", "failed"}
      BY <2>2 DEF Aggregate
    <3>2. KindOf(event) = "tool" => IndexOf(event) \in Indexes
      BY <1>1
    <3>3. completion' \in Completions
      <4> DEFINE piece == Len(sent)'
      <4>1. piece \in Pieces /\ completion' = Aggregated(event, piece)
        BY <1>1, <3>1
      <4> HIDE DEF piece
      <4> QED
        BY <1>1, <3>2, <4>1, AggregatedEvent
    <3> QED
      BY <1>4, <3>1, <3>3 DEF TypeOK
  <2> QED
    BY <2>1, <2>2 DEF Heard
<1>6. TypeOK'
  BY <1>1, <1>2, <1>4, <1>5 DEF TypeOK, Completions
<1> QED
  BY <1>3, <1>6

\* The handler goes on while the answer is open, and returns when it has ended.
LEMMA EndKeepsTrace ==
  ASSUME Inv, Answering, ReturnAtEnd, sent' \in Seq(Event),
         PutTogether' <=> PutTogether
  PROVE  /\ trace' \in Traces /\ UpstreamStatus = 200 /\ UpstreamStatus' = 200
         /\ ~Failed' /\ header' \in Codes
         /\ \/ pc' = "answering" /\ status' = "open" /\ ~Ended'
            \/ /\ pc' = "returned" /\ status' # "open" /\ Ended'
               /\ header' = IF PutTogether /\ status' # "completion" THEN 502 ELSE 200
         /\ TraceInv'
<1>1. /\ trace \in Traces /\ pc = "answering" /\ UpstreamStatus = 200
      /\ Asked /\ ~Failed /\ (~PutTogether => header = 200) /\ UpstreamBody = <<>>
  BY Types DEF Inv, TraceInv, Answering, UpstreamStatus, Ended
<1>2. header \in Codes /\ 200 \in Codes /\ 502 \in Codes /\ Unset = 0
  BY CodeTypes DEF Inv, ExchangeTypeOK, Codes
<1>3. CASE status' = "open"
  <2>1. UNCHANGED <<pc, header, trace>>
    BY <1>3 DEF ReturnAtEnd
  <2>2. /\ UpstreamStatus' = UpstreamStatus /\ (Asked' <=> Asked) /\ (Failed' <=> Failed)
        /\ UpstreamBody' = UpstreamBody
    BY <2>1 DEF UpstreamStatus, Asked, Failed, UpstreamBody
  <2>3. TraceInv'
    BY <1>1, <1>2, <2>1, <2>2 DEF TraceInv, Ended, Places
  <2> QED
    BY <1>1, <1>2, <1>3, <2>1, <2>2, <2>3 DEF Ended
<1>4. CASE status' # "open"
  <2>1. /\ pc' = "returned"
        /\ header' = CASE ~PutTogether -> header
                       [] PutTogether /\ status' = "completion" -> 200
                       [] OTHER -> 502
        /\ trace' = [trace EXCEPT !.upstreamBody = sent']
    BY <1>4 DEF ReturnAtEnd, Recorded
  <2>2. header' = IF PutTogether /\ status' # "completion" THEN 502 ELSE 200
    BY <1>1, <2>1
  <2>3. /\ trace' \in Traces /\ UpstreamStatus' = 200 /\ (Asked' <=> Asked)
        /\ (Failed' <=> Failed) /\ UpstreamBody' = sent'
    BY <1>1, <2>1, TraceRecorded
  <2>4. TraceInv'
    BY <1>1, <1>2, <2>1, <2>2, <2>3 DEF TraceInv, Ended, Places
  <2> QED
    BY <1>1, <1>2, <1>4, <2>1, <2>2, <2>3, <2>4 DEF Ended
<1> QED
  BY <1>3, <1>4

\* The shape of the stream.
LEMMA ServeKeepsStream ==
  ASSUME Inv, NEW event, Heard(event), ~Ended, UpstreamStatus = 200, UpstreamStatus' = 200,
         ~Ended' => status' = "open", cut' = cut
  PROVE  StreamInv'
<1>1. /\ event \in Event /\ UNCHANGED requestVars /\ status = "open" /\ Len(sent) \in Nat
      /\ sent' \in Seq(Event) /\ Len(sent)' = Len(sent) + 1
      /\ sent'[Len(sent) + 1] = event
      /\ \A i \in 1..Len(sent) : sent'[i] = sent[i]
      /\ 1..Len(sent)' = (1..Len(sent)) \cup {Len(sent) + 1}
  BY HeardPart, Types DEF Heard, Inv
<1>2. Offered' = Offered
  BY <1>1, ModesSame
<1>3. UpstreamStatus' # Unset /\ ~cut /\ None \notin Indexes
  BY ExchangeAssumption DEF Unset, Inv, StreamInv
<1>4. /\ KindOf(event) = "tool" <=> IndexOf(event) # None
      /\ IndexOf(event) \in Indexes \cup {None}
      /\ NameOf(event) # None => /\ KindOf(event) = "tool" /\ ~Begun(IndexOf(event))
                                 /\ NameOf(event) = Offered[meant'[IndexOf(event)]]
      /\ KindOf(event) = "tool" => Begun(IndexOf(event)) \/ NameOf(event) # None
      /\ \A k \in Indexes :
           /\ Begun(k)' <=> Begun(k) \/ IndexOf(event) = k
           /\ Begun(k) => meant'[k] = meant[k]
  BY DEF Heard
<1>5. status' = "open" => KindOf(event) # "done"
  <2>1. CASE Relay(event)
    BY <2>1, Modes, Types DEF Relay, KindOf, Inv
  <2>2. CASE Aggregate(event)
    BY <2>2 DEF Aggregate, KindOf
  <2> QED
    BY <2>1, <2>2 DEF Heard
<1>6. ASSUME NEW i \in 1..Len(sent)'
      PROVE  /\ status' = "open" => KindOf(sent'[i]) # "done"
             /\ KindOf(sent'[i]) = "tool" <=> IndexOf(sent'[i]) # None
             /\ IndexOf(sent'[i]) \in Indexes \cup {None}
             /\ KindOf(sent'[i]) = "tool" => meant'[IndexOf(sent'[i])] # 0
             /\ NameOf(sent'[i]) # None =>
                  /\ KindOf(sent'[i]) = "tool"
                  /\ NameOf(sent'[i]) = Offered[meant'[IndexOf(sent'[i])]]
  <2>1. CASE i \in 1..Len(sent)
    <3>1. /\ sent'[i] = sent[i]
          /\ KindOf(sent[i]) # "done"
          /\ KindOf(sent[i]) = "tool" <=> IndexOf(sent[i]) # None
          /\ KindOf(sent[i]) = "tool" => Begun(IndexOf(sent[i]))
          /\ NameOf(sent[i]) # None =>
               /\ KindOf(sent[i]) = "tool"
               /\ NameOf(sent[i]) = Offered[meant[IndexOf(sent[i])]]
      BY <1>1, <2>1 DEF Inv, StreamInv
    <3>2. IndexOf(sent[i]) \in Indexes \cup {None}
      <4>1. sent[i] \in Event
        BY <2>1, Types DEF Inv
      <4> QED
        BY <4>1 DEF Event, IndexOf
    <3>3. KindOf(sent[i]) = "tool" => /\ meant'[IndexOf(sent[i])] # 0
                                      /\ meant'[IndexOf(sent[i])] = meant[IndexOf(sent[i])]
      <4> DEFINE k == IndexOf(sent[i])
      <4>1. KindOf(sent[i]) = "tool" => k \in Indexes /\ Begun(k)
        BY <3>1, <3>2
      <4> HIDE DEF k
      <4>2. KindOf(sent[i]) = "tool" => meant'[k] # 0 /\ meant'[k] = meant[k]
        BY <1>4, <4>1 DEF Begun
      <4> QED
        BY <4>2 DEF k
    <3> QED
      BY <3>1, <3>2, <3>3
  <2>2. CASE i = Len(sent) + 1
    <3>1. KindOf(event) = "tool" => meant'[IndexOf(event)] # 0
      BY <1>4 DEF Begun
    <3> QED
      BY <1>1, <1>4, <1>5, <2>2, <3>1
  <2> QED
    BY <1>1, <2>1, <2>2
<1>7. ASSUME NEW k \in Indexes, Begun(k)'
      PROVE  \E i \in 1..Len(sent)' : IndexOf(sent'[i]) = k /\ NameOf(sent'[i]) # None
  <2>1. CASE Begun(k)
    <3>1. PICK i \in 1..Len(sent) : IndexOf(sent[i]) = k /\ NameOf(sent[i]) # None
      BY <2>1 DEF Inv, StreamInv
    <3> QED
      BY <1>1, <3>1
  <2>2. CASE ~Begun(k)
    <3>1. IndexOf(event) = k /\ NameOf(event) # None
      BY <1>3, <1>4, <1>7, <2>2
    <3> QED
      BY <1>1, <3>1
  <2> QED
    BY <2>1, <2>2
<1>8. ~Ended' => status' = "open" /\ ~cut'
  BY <1>3
<1>9. ~(UpstreamStatus' = Unset \/ (pc' = "answering" /\ UpstreamStatus' # 200))
  BY <1>3
<1> QED
  BY <1>2, <1>6, <1>7, <1>8, <1>9 DEF StreamInv, Begun

\* What is relayed.
LEMMA ServeKeepsRelay ==
  ASSUME Inv, NEW event, Heard(event), ~Ended, UpstreamStatus = 200, UpstreamStatus' = 200,
         cut' = cut
  PROVE  RelayInv'
<1>1. /\ event \in Event /\ UNCHANGED requestVars /\ status = "open" /\ Len(sent) \in Nat
      /\ sent' \in Seq(Event) /\ Len(sent)' = Len(sent) + 1
      /\ sent'[Len(sent) + 1] = event
      /\ \A i \in 1..Len(sent) : sent'[i] = sent[i]
      /\ 1..Len(sent)' = (1..Len(sent)) \cup {Len(sent) + 1}
      /\ sent \in Seq(Event) /\ relayed \in Seq(Event)
      /\ sent' = Append(sent, event)
  BY HeardPart, Types DEF Heard, Inv
<1>2. /\ (PutTogether' <=> PutTogether) /\ (Copies' <=> Copies) /\ (Translates' <=> Translates)
      /\ Given' = Given
  BY <1>1, ModesSame
<1>3. /\ ~cut /\ 200 \notin Rejections
      /\ \A i \in 1..Len(sent) : KindOf(sent[i]) # "done"
  BY <1>1, CodeTypes DEF Inv, StreamInv
<1>4. KindOf(event) = "tool" <=> IndexOf(event) # None
  BY DEF Heard
<1>5. CASE PutTogether
  <2>1. relayed' = relayed
    BY <1>5 DEF Heard, Relay, Aggregate
  <2>2. relayed = <<>>
    BY <1>3, <1>5 DEF Inv, RelayInv
  <2> QED
    BY <1>2, <1>5, <2>1, <2>2 DEF RelayInv
<1>6. CASE ~PutTogether
  <2>1. relayed' = Append(relayed, Relayed(event))
    BY <1>6 DEF Heard, Relay, Aggregate
  <2>2. /\ Relayed(event) \in Event
        /\ Copies => Relayed(event) = event
        /\ KindOf(event) = "tool" => NameOf(Relayed(event)) = Given[NameOf(event)]
        /\ Translates /\ KindOf(event) = "error" => KindOf(Relayed(event)) = "error"
        /\ KindOf(Relayed(event)) = "error" =>
             KindOf(event) = "error" \/ (sent = <<>> /\ KindOf(event) = "done")
    BY <1>1, <1>4, <1>6, RelayedEvent
  <2>3. Len(relayed) = Len(sent)
    BY <1>1, <1>6 DEF Inv, RelayInv
  <2>4. /\ Len(relayed)' = Len(sent)' /\ relayed'[Len(sent) + 1] = Relayed(event)
        /\ \A i \in 1..Len(sent) : relayed'[i] = relayed[i]
    BY <1>1, <2>1, <2>2, <2>3, AppendProperties
  <2>5. sent = <<>> /\ KindOf(event) = "done" => sent' = <<Simple("done")>>
    BY <1>1 DEF Heard
  <2>6. ASSUME NEW i \in 1..Len(sent)'
        PROVE  /\ Copies => relayed'[i] = sent'[i]
               /\ KindOf(sent'[i]) = "tool" => NameOf(relayed'[i]) = Given[NameOf(sent'[i])]
               /\ Translates /\ KindOf(sent'[i]) = "error" => KindOf(relayed'[i]) = "error"
               /\ KindOf(relayed'[i]) = "error" =>
                    KindOf(sent'[i]) = "error" \/ sent' = <<Simple("done")>>
    <3>1. CASE i \in 1..Len(sent)
      <4>1. sent # <<Simple("done")>>
        <5>1. KindOf(sent[i]) # "done"
          BY <1>3, <3>1
        <5>2. KindOf(Simple("done")) = "done"
          BY SimpleFields
        <5> QED
          BY <1>1, <3>1, <5>1, <5>2
      <4> QED
        BY <1>1, <1>6, <2>4, <3>1, <4>1 DEF Inv, RelayInv
    <3>2. CASE i = Len(sent) + 1
      BY <1>1, <2>2, <2>4, <2>5, <3>2
    <3> QED
      BY <1>1, <3>1, <3>2
  <2>7. ~cut' /\ Len(sent)' <= Len(relayed)'
    BY <1>1, <1>3, <2>4
  <2>8. \A i \in 1..Len(relayed)' : ~(i > Len(sent)')
    BY <1>1, <2>4
  <2> QED
    BY <1>2, <1>6, <2>4, <2>6, <2>7, <2>8 DEF RelayInv
<1> QED
  BY <1>5, <1>6

\* The outcome.
LEMMA ServeKeepsOutcome ==
  ASSUME Inv, NEW event, Heard(event), Answering, ReturnAtEnd, ~Ended, cut' = cut
  PROVE  OutcomeInv'
<1>1. /\ event \in Event /\ UNCHANGED requestVars /\ status = "open" /\ Len(sent) \in Nat
      /\ sent' \in Seq(Event) /\ Len(sent)' = Len(sent) + 1
      /\ sent'[Len(sent) + 1] = event
      /\ \A i \in 1..Len(sent) : sent'[i] = sent[i]
      /\ 1..Len(sent)' = (1..Len(sent)) \cup {Len(sent) + 1}
  BY HeardPart, Types DEF Heard, Inv
<1>2. PutTogether' <=> PutTogether
  BY <1>1, ModesSame
<1>3. /\ ~cut' /\ 200 \notin Rejections
  BY <1>1, CodeTypes DEF Inv, StreamInv
<1>4. /\ UpstreamStatus' = 200 /\ ~Failed'
      /\ \/ pc' = "answering" /\ status' = "open" /\ ~Ended'
         \/ /\ pc' = "returned" /\ status' # "open" /\ Ended'
            /\ header' = IF PutTogether /\ status' # "completion" THEN 502 ELSE 200
  BY <1>1, <1>2, EndKeepsTrace
<1>5. PutTogether => status' = CASE KindOf(event) = "error" -> "failed"
                                 [] KindOf(event) = "done" -> "completion"
                                 [] OTHER -> "open"
  BY DEF Heard, Relay, Aggregate, KindOf
<1>6. PutTogether => \/ KindOf(event) = "error" /\ status' = "failed"
                     \/ KindOf(event) # "error" /\ status' \in {"open", "completion"}
  BY <1>5
<1>7. PutTogether /\ status' \in {"open", "completion"} =>
        \A i \in 1..Len(sent)' : KindOf(sent'[i]) # "error"
  BY <1>1, <1>6 DEF Inv, OutcomeInv
<1>8. Ended' /\ PutTogether =>
        \/ status' = "completion" /\ header' = 200
        \/ /\ status' = "failed" /\ header' = 502
           /\ \E i \in 1..Len(sent)' : KindOf(sent'[i]) = "error"
  <2>1. PutTogether /\ status' = "failed" => \E i \in 1..Len(sent)' : KindOf(sent'[i]) = "error"
    BY <1>1, <1>6
  <2> QED
    BY <1>4, <1>6, <2>1
<1>9. Ended' /\ ~PutTogether => header' = 200
  BY <1>4
<1> QED
  BY <1>2, <1>3, <1>4, <1>7, <1>8, <1>9 DEF OutcomeInv

\* The pieces and the first fragments of the stream with the event.
LEMMA SentGrows ==
  ASSUME Inv, NEW event, Heard(event)
  PROVE  /\ \A kind, k : Sent(kind, k)' =
              IF KindOf(event) = kind /\ IndexOf(event) = k
              THEN Sent(kind, k) \cup {Len(sent) + 1} ELSE Sent(kind, k)
         /\ \A k : \A m \in 1..Len(sent) : First(sent', k, m) <=> First(sent, k, m)
         /\ \A k : First(sent', k, Len(sent) + 1) <=>
              /\ KindOf(event) = "tool" /\ IndexOf(event) = k
              /\ \A x \in 1..Len(sent) : ~(KindOf(sent[x]) = "tool" /\ IndexOf(sent[x]) = k)
<1>1. /\ Len(sent) \in Nat /\ Len(sent)' = Len(sent) + 1
      /\ sent'[Len(sent) + 1] = event
      /\ \A i \in 1..Len(sent) : sent'[i] = sent[i]
      /\ 1..Len(sent)' = (1..Len(sent)) \cup {Len(sent) + 1}
      /\ DOMAIN sent = 1..Len(sent) /\ DOMAIN sent' = 1..Len(sent)'
  BY HeardPart, Types, LenProperties DEF Inv
<1>2. ASSUME NEW kind, NEW k
      PROVE  Sent(kind, k)' = IF KindOf(event) = kind /\ IndexOf(event) = k
                              THEN Sent(kind, k) \cup {Len(sent) + 1} ELSE Sent(kind, k)
  BY <1>1 DEF Sent, KindOf, IndexOf
<1>3. ASSUME NEW k, NEW m \in 1..Len(sent)
      PROVE  First(sent', k, m) <=> First(sent, k, m)
  <2>1. /\ sent'[m] = sent[m] /\ m \in 1..Len(sent)' /\ m <= Len(sent) + 1
        /\ \A x \in 1..Len(sent)' : x \in 1..Len(sent) \/ x = Len(sent) + 1
    BY <1>1
  <2> QED
    BY <1>1, <2>1 DEF First
<1>4. ASSUME NEW k
      PROVE  First(sent', k, Len(sent) + 1) <=>
              /\ KindOf(event) = "tool" /\ IndexOf(event) = k
              /\ \A x \in 1..Len(sent) : ~(KindOf(sent[x]) = "tool" /\ IndexOf(sent[x]) = k)
  <2>1. \A x \in 1..Len(sent) : ~(Len(sent) + 1 <= x)
    BY <1>1
  <2> QED
    BY <1>1, <2>1 DEF First
<1> QED
  BY <1>2, <1>3, <1>4

\* The completion.  The first fragment of a call comes after those of all calls
\* in the order, which is where the call is appended.
LEMMA ServeKeepsCompletion ==
  ASSUME Inv, NEW event, Heard(event), ~Ended
  PROVE  CompletionInv'
<1> DEFINE n == Len(sent) + 1
<1>1. /\ event \in Event /\ UNCHANGED requestVars /\ Len(sent) \in Nat
      /\ sent' \in Seq(Event) /\ Len(sent)' = n /\ n \in Pieces
      /\ sent'[n] = event
      /\ \A i \in 1..Len(sent) : sent'[i] = sent[i]
      /\ 1..Len(sent)' = (1..Len(sent)) \cup {n}
  BY HeardPart, Types DEF Inv
<1>2. /\ (PutTogether' <=> PutTogether) /\ Offered' = Offered /\ Original' = Original
  BY <1>1, ModesSame
<1>3. /\ KindOf(event) = "tool" <=> IndexOf(event) # None
      /\ IndexOf(event) \in Indexes \cup {None}
      /\ NameOf(event) # None => /\ KindOf(event) = "tool" /\ ~Begun(IndexOf(event))
                                 /\ NameOf(event) = Offered[meant'[IndexOf(event)]]
      /\ KindOf(event) = "tool" => Begun(IndexOf(event)) \/ NameOf(event) # None
      /\ \A k \in Indexes :
           /\ Begun(k)' <=> Begun(k) \/ IndexOf(event) = k
           /\ Begun(k) => meant'[k] = meant[k]
           /\ Begun(k)' => meant'[k] \in 1..Len(Offered)
  BY DEF Heard
<1>4. SUFFICES ASSUME PutTogether'
               PROVE  CompletionInv'
  BY DEF CompletionInv
<1>5. PutTogether /\ completion' = Aggregated(event, n)
  BY <1>1, <1>2, <1>4 DEF Heard, Relay, Aggregate
<1>6. /\ Texts = Sent("text", None)
      /\ \A k \in Indexes : Arguments(k) = Sent("tool", k)
      /\ \A k \in Indexes : Begun(k) => CallName(k) = Original[Offered[meant[k]]]
      /\ \A k \in Indexes : Begun(k) <=> \E i \in 1..Len(Order) : Order[i] = k
      /\ \A i \in 1..Len(Order) : \E m \in 1..Len(sent) : First(sent, Order[i], m)
      /\ \A i, j \in 1..Len(Order) : i < j =>
           \A m, x \in 1..Len(sent) : First(sent, Order[i], m) /\ First(sent, Order[j], x) => m < x
      /\ Reason # None => \E i \in 1..Len(sent) : KindOf(sent[i]) = Reason
  BY <1>5 DEF Inv, CompletionInv
<1>7. /\ Texts' = IF KindOf(event) = "text" THEN Texts \cup {n} ELSE Texts
      /\ \A k \in Indexes :
           /\ Arguments(k)' = IF KindOf(event) = "tool" /\ IndexOf(event) = k
                              THEN Arguments(k) \cup {n} ELSE Arguments(k)
           /\ CallName(k)' =
                IF KindOf(event) = "tool" /\ IndexOf(event) = k /\ NameOf(event) # None
                THEN RestoreToolName(NameOf(event)) ELSE CallName(k)
      /\ Order' = IF KindOf(event) = "tool" /\ ~\E i \in 1..Len(Order) : Order[i] = IndexOf(event)
                  THEN Append(Order, IndexOf(event)) ELSE Order
      /\ Reason' = IF KindOf(event) \in FinishReasons THEN KindOf(event) ELSE Reason
  <2>1. KindOf(event) = "tool" => IndexOf(event) \in Indexes
    BY <1>3
  <2> HIDE DEF n
  <2> QED
    BY <1>1, <1>5, <2>1, AggregatedEvent
<1>8. /\ \A kind, k : Sent(kind, k)' =
           IF KindOf(event) = kind /\ IndexOf(event) = k
           THEN Sent(kind, k) \cup {n} ELSE Sent(kind, k)
      /\ \A k : \A m \in 1..Len(sent) : First(sent', k, m) <=> First(sent, k, m)
      /\ \A k : First(sent', k, n) <=>
           /\ KindOf(event) = "tool" /\ IndexOf(event) = k
           /\ \A x \in 1..Len(sent) : ~(KindOf(sent[x]) = "tool" /\ IndexOf(sent[x]) = k)
  BY SentGrows
<1>9. /\ Order \in Seq(Indexes) /\ Len(Order) \in Nat
      /\ \A i \in 1..Len(Order) : Order[i] \in Indexes
  <2>1. Order \in Seq(Indexes)
    BY DEF Inv, ExchangeTypeOK, TypeOK, Order
  <2> QED
    BY <2>1, LenProperties, ElementOfSeq
<1> HIDE DEF n
<1>10. Texts' = Sent("text", None)'
  BY <1>3, <1>6, <1>7, <1>8
<1>11. ASSUME NEW k \in Indexes
       PROVE  Arguments(k)' = Sent("tool", k)'
  BY <1>6, <1>7, <1>8
<1>12. ASSUME NEW k \in Indexes, Begun(k)'
       PROVE  CallName(k)' = Original[Offered[meant'[k]]]
  <2>1. CASE IndexOf(event) = k /\ NameOf(event) # None
    <3>1. /\ CallName(k)' = RestoreToolName(NameOf(event))
          /\ NameOf(event) = Offered[meant'[k]]
      BY <1>3, <1>7, <2>1
    <3>2. NameOf(event) \in Names \cup {None}
      BY <1>1 DEF Event, NameOf
    <3>3. Original[NameOf(event)] = RestoreToolName(NameOf(event))
      BY <3>2, OfferedTools, Types DEF Inv, RequestInv
    <3> QED
      BY <3>1, <3>3
  <2>2. CASE ~(IndexOf(event) = k /\ NameOf(event) # None)
    <3>1. Begun(k)
      BY <1>3, <1>12, <2>2, ExchangeAssumption
    <3> QED
      BY <1>3, <1>6, <1>7, <2>2, <3>1
  <2> QED
    BY <2>1, <2>2
<1>14. ASSUME NEW i \in 1..Len(Order), NEW m \in 1..Len(sent)'
      PROVE  First(sent', Order[i], m) => m \in 1..Len(sent) /\ First(sent, Order[i], m)
  <2>1. CASE m \in 1..Len(sent)
    BY <1>8, <2>1
  <2>2. CASE m = n
    <3>1. \E x \in 1..Len(sent) : KindOf(sent[x]) = "tool" /\ IndexOf(sent[x]) = Order[i]
      BY <1>6 DEF First
    <3> QED
      BY <1>8, <2>2, <3>1
  <2> QED
    BY <1>1, <2>1, <2>2
<1>15. ASSUME NEW i \in 1..Len(Order)
       PROVE  \E m \in 1..Len(sent)' : First(sent', Order[i], m)
  <2>1. PICK m \in 1..Len(sent) : First(sent, Order[i], m)
    BY <1>6
  <2> QED
    BY <1>1, <1>8, <2>1
<1>16. Reason' # None => \E i \in 1..Len(sent)' : KindOf(sent'[i]) = Reason'
  <2>1. CASE KindOf(event) \in FinishReasons
    BY <1>1, <1>7, <2>1
  <2>2. CASE KindOf(event) \notin FinishReasons
    BY <1>1, <1>6, <1>7, <2>2
  <2> QED
    BY <2>1, <2>2
<1>13. CASE KindOf(event) = "tool" /\ ~\E i \in 1..Len(Order) : Order[i] = IndexOf(event)
  <2> DEFINE k == IndexOf(event)
  <2>1. k \in Indexes /\ ~Begun(k) /\ Order' = Append(Order, k)
    BY <1>3, <1>6, <1>7, <1>13
  <2>2. /\ Len(Order)' = Len(Order) + 1 /\ Order'[Len(Order) + 1] = k
        /\ \A i \in 1..Len(Order) : Order'[i] = Order[i]
        /\ 1..Len(Order)' = (1..Len(Order)) \cup {Len(Order) + 1}
    BY <1>9, <2>1, AppendProperties
  <2>3. \A x \in 1..Len(sent) : ~(KindOf(sent[x]) = "tool" /\ IndexOf(sent[x]) = k)
    BY <2>1 DEF Inv, StreamInv
  <2>4. First(sent', k, n) /\ \A x \in 1..Len(sent) : ~First(sent', k, x)
    BY <1>8, <1>13, <2>3 DEF First
  <2> HIDE DEF k
  <2>5. ASSUME NEW j \in Indexes
        PROVE  Begun(j)' <=> \E i \in 1..Len(Order)' : Order'[i] = j
    <3>1. Begun(j)' <=> Begun(j) \/ j = k
      BY <1>3 DEF k
    <3>2. (\E i \in 1..Len(Order)' : Order'[i] = j) <=>
            (\E i \in 1..Len(Order) : Order[i] = j) \/ j = k
      BY <1>9, <2>2
    <3> QED
      BY <1>6, <3>1, <3>2
  <2>7. ASSUME NEW i \in 1..Len(Order)'
        PROVE  \E m \in 1..Len(sent)' : First(sent', Order'[i], m)
    <3>1. CASE i \in 1..Len(Order)
      BY <1>15, <2>2, <3>1
    <3>2. CASE i = Len(Order) + 1
      BY <1>1, <2>2, <2>4, <3>2
    <3> QED
      BY <2>2, <3>1, <3>2
  <2>8. ASSUME NEW i \in 1..Len(Order)', NEW j \in 1..Len(Order)', i < j,
               NEW m \in 1..Len(sent)', NEW x \in 1..Len(sent)',
               First(sent', Order'[i], m), First(sent', Order'[j], x)
        PROVE  m < x
    <3>1. i \in 1..Len(Order) /\ Order'[i] = Order[i]
      BY <1>9, <2>2, <2>8
    <3>2. m \in 1..Len(sent) /\ First(sent, Order[i], m)
      BY <1>14, <2>8, <3>1
    <3>3. CASE j \in 1..Len(Order)
      <4>1. x \in 1..Len(sent) /\ First(sent, Order[j], x)
        BY <1>14, <2>2, <2>8, <3>3
      <4> QED
        BY <1>6, <2>8, <3>1, <3>2, <3>3, <4>1
    <3>4. CASE j = Len(Order) + 1
      <4>1. x = n
        BY <1>1, <2>2, <2>4, <2>8, <3>4
      <4> QED
        BY <1>1, <3>2, <4>1 DEF n
    <3> QED
      BY <2>2, <3>3, <3>4
  <2> QED
    BY <1>2, <1>10, <1>11, <1>12, <1>16, <2>5, <2>7, <2>8 DEF CompletionInv
<1>17. CASE ~(KindOf(event) = "tool" /\ ~\E i \in 1..Len(Order) : Order[i] = IndexOf(event))
  <2>1. Order' = Order
    BY <1>7, <1>17
  <2>2. ASSUME NEW j \in Indexes
        PROVE  Begun(j)' <=> \E i \in 1..Len(Order)' : Order'[i] = j
    <3>1. IndexOf(event) = j => Begun(j)
      BY <1>3, <1>6, <1>17, ExchangeAssumption
    <3> QED
      BY <1>3, <1>6, <2>1, <3>1
  <2>3. ASSUME NEW i \in 1..Len(Order)'
        PROVE  \E m \in 1..Len(sent)' : First(sent', Order'[i], m)
    BY <1>15, <2>1
  <2>4. ASSUME NEW i \in 1..Len(Order)', NEW j \in 1..Len(Order)', i < j,
               NEW m \in 1..Len(sent)', NEW x \in 1..Len(sent)',
               First(sent', Order'[i], m), First(sent', Order'[j], x)
        PROVE  m < x
    <3>1. /\ m \in 1..Len(sent) /\ First(sent, Order[i], m)
          /\ x \in 1..Len(sent) /\ First(sent, Order[j], x)
      BY <1>14, <2>1, <2>4
    <3> QED
      BY <1>6, <2>1, <2>4, <3>1
  <2> QED
    BY <1>2, <1>10, <1>11, <1>12, <1>16, <2>2, <2>3, <2>4 DEF CompletionInv
<1> QED
  BY <1>13, <1>17

\* An event keeps the invariant.
LEMMA ServeKeepsInv ==
  ASSUME Inv, Serve
  PROVE  Inv'
<1>1. PICK event : Heard(event)
  BY EveryPartIsHeard DEF Serve
<1>2. Answering /\ ReturnAtEnd /\ UNCHANGED <<cut, client, watched>>
  BY DEF Serve
<1>3. /\ sent' \in Seq(Event) /\ (PutTogether' <=> PutTogether)
  BY <1>1, HeardPart, ModesSame
<1>4. /\ trace' \in Traces /\ UpstreamStatus = 200 /\ UpstreamStatus' = 200
      /\ header' \in Codes
      /\ \/ pc' = "answering" /\ status' = "open" /\ ~Ended'
         \/ pc' = "returned" /\ status' # "open" /\ Ended'
      /\ TraceInv'
  BY <1>2, <1>3, EndKeepsTrace
<1>5. ~Ended
  BY <1>2 DEF Answering, Ended
<1>6. TypeOK' /\ RequestInv'
  BY <1>1, HeardTypes
<1>7. StreamInv' /\ RelayInv' /\ CompletionInv'
  BY <1>1, <1>2, <1>4, <1>5, ServeKeepsStream, ServeKeepsRelay, ServeKeepsCompletion
<1>8. OutcomeInv'
  BY <1>1, <1>2, <1>5, ServeKeepsOutcome
<1>9. ExchangeTypeOK'
  BY <1>2, <1>4, <1>6 DEF Inv, ExchangeTypeOK, Traces, Codes
<1> QED
  BY <1>4, <1>6, <1>7, <1>8, <1>9 DEF Inv

\* The answer has ended without a further event.
LEMMA EndingKeepsCompletion ==
  ASSUME Inv, UNCHANGED requestVars, UNCHANGED <<meant, sent, completion>>
  PROVE  RequestInv' /\ CompletionInv'
<1>1. /\ Offered' = Offered /\ (PutTogether' <=> PutTogether) /\ Original' = Original
      /\ tools' = tools
  BY ModesSame DEF requestVars
<1>2. RequestInv'
  BY <1>1 DEF Inv, RequestInv, Begun
<1>3. /\ Texts' = Texts /\ Order' = Order /\ Reason' = Reason
      /\ \A k \in Indexes : Arguments(k)' = Arguments(k) /\ CallName(k)' = CallName(k)
      /\ \A kind, k : Sent(kind, k)' = Sent(kind, k)
  BY DEF Texts, Order, Reason, Arguments, CallName, Sent
<1>4. CompletionInv'
  BY <1>1, <1>3 DEF Inv, CompletionInv, Begun
<1> QED
  BY <1>2, <1>4

\* The end of the body, whole or broken, keeps the invariant.
LEMMA ServeEndKeepsInv ==
  ASSUME Inv, NEW broken \in BOOLEAN, ServeEnd(broken)
  PROVE  Inv'
<1>1. /\ Answering /\ ReturnAtEnd /\ cut' = broken
      /\ UNCHANGED <<client, watched>>
      /\ status = "open"
      /\ UNCHANGED requestVars /\ UNCHANGED <<meant, sent, completion>>
      /\ status' = CASE Aggregates -> IF broken THEN "failed" ELSE "completion"
                     [] Decodes -> "failed"
                     [] Translates -> IF broken \/ sent = <<>> THEN "failed" ELSE "relayed"
                     [] OTHER -> "relayed"
      /\ relayed' = IF ~Translates THEN relayed
                    ELSE Append(relayed, Simple(IF status' = "failed" THEN "error" ELSE "done"))
  BY DEF ServeEnd, BodyEnds
<1>2. /\ (PutTogether' <=> PutTogether) /\ Offered' = Offered
      /\ (Copies' <=> Copies) /\ (Translates' <=> Translates) /\ Given' = Given
      /\ UNCHANGED <<protocol, tools, freeTier, stream>>
  BY <1>1, ModesSame DEF requestVars
<1>3. /\ sent \in Seq(Event) /\ relayed \in Seq(Event)
      /\ Len(sent) \in Nat /\ Len(relayed) \in Nat
      /\ PutTogether => ~Copies /\ ~Restores /\ ~Translates
      /\ ~PutTogether => ~Aggregates /\ ~Decodes
      /\ Aggregates => PutTogether /\ ~Decodes
      /\ PutTogether => Aggregates \/ Decodes
  BY Types, Modes DEF Inv, PutTogether
<1>4. /\ PutTogether /\ Aggregates => status' = IF broken THEN "failed" ELSE "completion"
      /\ PutTogether /\ Decodes => status' = "failed"
      /\ Translates => status' = IF broken \/ sent = <<>> THEN "failed" ELSE "relayed"
      /\ ~PutTogether /\ ~Translates => status' = "relayed"
  BY <1>1, <1>3
<1>5. /\ status' \in {"relayed", "completion", "failed"} /\ status' # "open"
      /\ PutTogether => status' \in {"completion", "failed"}
  BY <1>3, <1>4
<1>6. /\ trace' \in Traces /\ UpstreamStatus = 200 /\ UpstreamStatus' = 200
      /\ ~Failed' /\ header' \in Codes
      /\ pc' = "returned" /\ Ended'
      /\ header' = IF PutTogether /\ status' # "completion" THEN 502 ELSE 200
      /\ TraceInv'
  BY <1>1, <1>2, <1>3, <1>5, EndKeepsTrace
<1>7. RequestInv' /\ CompletionInv'
  BY <1>1, EndingKeepsCompletion
<1> DEFINE last == Simple(IF status' = "failed" THEN "error" ELSE "done")
<1>8. /\ last \in Event
      /\ KindOf(last) = IF status' = "failed" THEN "error" ELSE "done"
  BY SimpleFields
<1>9. /\ Translates => relayed' = Append(relayed, last)
      /\ ~Translates => relayed' = relayed
  BY <1>1
<1> HIDE DEF last
<1>10. /\ relayed' \in Seq(Event)
       /\ Translates => /\ Len(relayed)' = Len(relayed) + 1
                        /\ relayed'[Len(relayed) + 1] = last
                        /\ \A i \in 1..Len(relayed) : relayed'[i] = relayed[i]
  BY SMTT(30), <1>3, <1>8, <1>9, AppendProperties
<1>11. TypeOK'
  BY <1>1, <1>2, <1>5, <1>10 DEF Inv, ExchangeTypeOK, TypeOK
<1>12. ExchangeTypeOK'
  BY <1>1, <1>6, <1>11 DEF Inv, ExchangeTypeOK, Traces, Codes
<1>13. /\ ~cut /\ UpstreamStatus' # Unset /\ 200 \notin Rejections
       /\ \A i \in 1..Len(sent) : KindOf(sent[i]) # "done"
  <2>1. ~Ended
    BY <1>1 DEF Answering, Ended
  <2> QED
    BY <1>1, <1>6, <2>1, CodeTypes DEF Inv, StreamInv, Unset
<1>14. StreamInv'
  BY <1>1, <1>2, <1>5, <1>6, <1>13 DEF Inv, StreamInv, Begun
<1>15. RelayInv'
  <2>1. CASE PutTogether
    BY <1>2, <1>3, <1>6, <1>9, <1>13, <2>1 DEF Inv, RelayInv
  <2>2. CASE ~PutTogether /\ ~Translates
    BY <1>1, <1>2, <1>5, <1>9, <1>13, <2>2 DEF Inv, RelayInv
  <2>3. CASE ~PutTogether /\ Translates
    <3>1. Len(relayed) = Len(sent)
      BY <1>1, <2>3 DEF Inv, RelayInv
    <3>2. ASSUME NEW i \in 1..Len(sent)'
          PROVE  /\ Copies => relayed'[i] = sent'[i]
                 /\ KindOf(sent'[i]) = "tool" => NameOf(relayed'[i]) = Given[NameOf(sent'[i])]
                 /\ KindOf(sent'[i]) = "error" => KindOf(relayed'[i]) = "error"
                 /\ KindOf(relayed'[i]) = "error" =>
                      KindOf(sent'[i]) = "error" \/ sent' = <<Simple("done")>>
      <4>1. sent' = sent /\ i \in 1..Len(sent) /\ relayed'[i] = relayed[i]
        BY <1>1, <1>10, <2>3, <3>1
      <4> QED
        BY <2>3, <4>1 DEF Inv, RelayInv
    <3>3. Len(sent)' <= Len(relayed)'
      BY <1>1, <1>3, <1>10, <2>3, <3>1
    <3>4. \A j \in 1..Len(sent)' : KindOf(sent'[j]) # "done"
      BY <1>1, <1>13
    <3>5. cut' => \E i \in 1..Len(relayed)' : KindOf(relayed'[i]) = "error"
      <4>1. cut' => status' = "failed"
        BY <1>1, <1>4, <2>3
      <4>2. Len(relayed) + 1 \in 1..Len(relayed)'
        BY <1>3, <1>10, <2>3
      <4> QED
        BY <1>8, <1>10, <2>3, <4>1, <4>2
    <3> QED
      BY <1>2, <1>5, <2>3, <3>2, <3>3, <3>4, <3>5 DEF RelayInv
  <2> QED
    BY <2>1, <2>2, <2>3
<1>16. OutcomeInv'
  <2>1. PutTogether /\ status' = "completion" =>
          ~cut' /\ \A i \in 1..Len(sent)' : KindOf(sent'[i]) # "error"
    BY <1>1, <1>3, <1>4, <1>5 DEF Inv, OutcomeInv
  <2>2. \A i \in 1..Len(sent)' : KindOf(sent'[i]) # "done"
    BY <1>1, <1>13
  <2> QED
    BY <1>2, <1>5, <1>6, <1>13, <2>1, <2>2 DEF OutcomeInv
<1> QED
  BY <1>6, <1>7, <1>12, <1>14, <1>15, <1>16 DEF Inv

\* The answer to a refusal keeps the invariant.
LEMMA RejectKeepsInv ==
  ASSUME Inv, NEW body \in {<<>>, <<Simple("error")>>}, Reject(body)
  PROVE  Inv'
<1>1. /\ pc = "answering" /\ UpstreamStatus # 200 /\ sent' = body /\ relayed' = body
      /\ status' = "failed" /\ header' = UpstreamStatus /\ pc' = "returned"
      /\ trace' = [trace EXCEPT !.upstreamBody = sent']
      /\ UNCHANGED requestVars /\ UNCHANGED <<meant, completion, client, watched, cut>>
  BY DEF Reject, Refuse, Recorded, UpstreamStatus
<1>2. /\ (PutTogether' <=> PutTogether) /\ Offered' = Offered /\ Original' = Original
      /\ (Copies' <=> Copies) /\ (Translates' <=> Translates) /\ Given' = Given
      /\ UNCHANGED <<protocol, tools, freeTier, stream>>
  BY <1>1, ModesSame DEF requestVars
<1>3. /\ trace \in Traces /\ UpstreamStatus \in Rejections /\ Asked /\ ~Failed
      /\ NothingSent /\ UpstreamStatus # Unset
  <2>1. trace \in Traces /\ UpstreamStatus # Unset
    BY <1>1, Types DEF Inv, TraceInv
  <2>2. UpstreamStatus \in {Unset, 200} \cup Rejections
    BY <2>1 DEF Traces, UpstreamStatus
  <2> QED
    BY <1>1, <2>1, <2>2 DEF Inv, TraceInv, StreamInv
<1>4. /\ Simple("error") \in Event /\ KindOf(Simple("error")) = "error"
      /\ IndexOf(Simple("error")) = None /\ NameOf(Simple("error")) = None
  BY SimpleFields
<1>5. body \in Seq(Event) /\ \A i \in 1..Len(body) : body[i] = Simple("error")
  <2>1. CASE body = <<>>
    BY <2>1
  <2>2. CASE body = <<Simple("error")>>
    BY <1>4, <2>2
  <2> QED
    BY <2>1, <2>2
<1>6. /\ trace' \in Traces /\ UpstreamStatus' = UpstreamStatus /\ UpstreamBody' = sent'
      /\ Asked' /\ ~Failed'
  BY <1>1, <1>3, <1>5, TraceRecorded
<1>7. header' \in Codes /\ Ended' /\ 200 \notin Rejections
  BY <1>1, <1>3, CodeTypes DEF Codes, Ended
<1>8. TypeOK'
  BY <1>1, <1>2, <1>5 DEF Inv, ExchangeTypeOK, TypeOK
<1>9. ExchangeTypeOK'
  BY <1>1, <1>6, <1>7, <1>8 DEF Inv, ExchangeTypeOK, Traces, Codes
<1>10. RequestInv'
  BY <1>1, <1>2 DEF Inv, RequestInv, Begun
<1>11. TraceInv'
  BY <1>1, <1>3, <1>6, <1>7 DEF TraceInv, Places
<1>12. \A k \in Indexes : ~Begun(k)'
  BY <1>1, <1>3 DEF NothingSent, Begun
<1>13. StreamInv'
  BY <1>1, <1>3, <1>4, <1>5, <1>6, <1>7, <1>12 DEF StreamInv
<1>14. RelayInv'
  <2>1. \A i \in 1..Len(body) : KindOf(body[i]) = "error"
    BY <1>4, <1>5
  <2>2. Len(body) \in Nat /\ ~cut'
    BY <1>1, <1>3, <1>5, LenProperties DEF NothingSent
  <2>3. \A i \in 1..Len(body) : ~(i > Len(body))
    BY <2>2
  <2> QED
    BY <1>1, <1>2, <1>3, <1>6, <2>1, <2>2, <2>3 DEF RelayInv
<1>15. CompletionInv'
  <2>1. /\ Texts' = Texts /\ Order' = Order /\ Reason' = Reason
        /\ \A k \in Indexes : Arguments(k)' = Arguments(k) /\ CallName(k)' = CallName(k)
    BY <1>1 DEF Texts, Order, Reason, Arguments, CallName
  <2>2. /\ Sent("text", None) = {} /\ Sent("text", None)' = {}
        /\ \A k \in Indexes : Sent("tool", k) = {} /\ Sent("tool", k)' = {}
    <3>1. DOMAIN body = 1..Len(body) /\ DOMAIN sent = {}
      BY <1>3, <1>5 DEF NothingSent
    <3>2. \A i \in 1..Len(body) : KindOf(body[i]) # "text" /\ KindOf(body[i]) # "tool"
      BY <1>4, <1>5
    <3> QED
      BY <1>1, <3>1, <3>2 DEF Sent, KindOf
  <2>3. /\ 1..Len(sent) = {} /\ \A k \in Indexes : ~Begun(k)
    BY <1>3 DEF NothingSent
  <2>4. PutTogether => 1..Len(Order) = {} /\ Reason = None
    BY <2>3 DEF Inv, CompletionInv
  <2> QED
    BY <1>2, <1>12, <2>1, <2>2, <2>3, <2>4 DEF Inv, CompletionInv
<1>16. OutcomeInv'
  BY <1>1, <1>3, <1>6, <1>7 DEF OutcomeInv, NothingSent
<1> QED
  BY <1>9, <1>10, <1>11, <1>13, <1>14, <1>15, <1>16 DEF Inv

-----------------------------------------------------------------------------
(***************************************************************************)
(* The invariant, and what follows from it.                                *)
(***************************************************************************)
\* A new request satisfies the invariant.
LEMMA InitIsInv == ExchangeInit => Inv
<1> SUFFICES ASSUME ExchangeInit
             PROVE  Inv
  OBVIOUS
<1>1. /\ protocol \in Protocols /\ tools \in SeqOf(Names, MaxTools) /\ IsInjective(tools)
      /\ freeTier \in BOOLEAN /\ stream \in BOOLEAN
      /\ meant = [k \in Indexes |-> 0] /\ sent = <<>> /\ relayed = <<>>
      /\ status = "open"
      /\ completion = [text |-> {}, toolOrder |-> <<>>,
                       name |-> [k \in Indexes |-> None],
                       arguments |-> [k \in Indexes |-> {}],
                       finishReason |-> None]
      /\ pc = "reading" /\ client = "here" /\ watched = FALSE /\ header = Unset /\ cut = FALSE
      /\ trace = [upstream |-> FALSE, error |-> FALSE, upstreamStatus |-> Unset,
                  upstreamBody |-> <<>>, inbound |-> FALSE, status |-> Unset]
  BY DEF ExchangeInit, Init
<1>2. tools \in Seq(Names) /\ Len(tools) <= MaxTools /\ MaxTools \in Nat
  <2>1. PICK m \in 0..MaxTools : tools \in [1..m -> Names]
    BY <1>1 DEF SeqOf
  <2>2. tools \in Seq(Names) /\ Len(tools) = m
    BY <2>1, ExchangeAssumption, SeqDef
  <2> QED
    BY <2>1, <2>2, ExchangeAssumption
<1>3. \A k \in Indexes : ~Begun(k)
  BY <1>1 DEF Begun
<1>4. /\ ~Asked /\ ~Failed /\ ~Told /\ UpstreamStatus = Unset /\ UpstreamBody = <<>>
      /\ trace \in Traces
  <2>1. /\ trace.upstream = FALSE /\ trace.error = FALSE /\ trace.inbound = FALSE
        /\ trace.upstreamStatus = Unset /\ trace.upstreamBody = <<>>
    BY <1>1
  <2>2. <<>> \in Seq(Event) /\ Unset \in Nat
    BY DEF Unset
  <2>3. trace \in Traces
    BY <1>1, <2>2 DEF Traces
  <2> QED
    BY <2>1, <2>3 DEF Asked, Failed, Told, UpstreamStatus, UpstreamBody
<1>5. /\ completion \in Completions
      /\ Texts = {} /\ Order = <<>> /\ Reason = None
      /\ \A k \in Indexes : Arguments(k) = {}
  BY <1>1 DEF Completions, Texts, Order, Reason, Arguments
<1>6. TypeOK
  <2>1. meant \in [Indexes -> 0..(MaxTools + 1)]
    BY <1>1, <1>2
  <2>2. sent \in Seq(Event) /\ relayed \in Seq(Event)
    BY <1>1
  <2> QED
    BY <1>1, <1>2, <1>5, <2>1, <2>2 DEF TypeOK, Completions
<1>7. ExchangeTypeOK
  BY <1>1, <1>4, <1>6 DEF ExchangeTypeOK, Traces
<1>8. RequestInv
  BY <1>2, <1>3 DEF RequestInv
<1>9. TraceInv
  BY <1>1, <1>4 DEF TraceInv, Ended, Places
<1>10. NothingSent
  BY <1>1, <1>3 DEF NothingSent
<1>11. 1..Len(sent) = {} /\ 1..Len(relayed) = {} /\ Len(sent) = 0 /\ Len(relayed) = 0
  BY <1>1
<1>12. StreamInv
  BY <1>1, <1>3, <1>10, <1>11 DEF StreamInv
<1>13. RelayInv
  BY <1>1, <1>11 DEF RelayInv
<1>14. CompletionInv
  <2>1. Sent("text", None) = {} /\ \A k \in Indexes : Sent("tool", k) = {}
    BY <1>1 DEF Sent
  <2>2. 1..Len(Order) = {}
    BY <1>5
  <2> QED
    BY <1>3, <1>5, <2>1, <2>2 DEF CompletionInv
<1>15. OutcomeInv
  BY <1>1, <1>4, <1>11, CodeTypes DEF OutcomeInv, Ended
<1> QED
  BY <1>7, <1>8, <1>9, <1>12, <1>13, <1>14, <1>15 DEF Inv

\* Every step keeps the invariant.
LEMMA KeepsInv == Inv /\ [ExchangeNext]_exchangeVars => Inv'
<1> SUFFICES ASSUME Inv, [ExchangeNext]_exchangeVars
             PROVE  Inv'
  OBVIOUS
<1>1. ASSUME NEW code \in LocalStatus, AnswerAlone(code)
      PROVE  Inv'
  BY <1>1, AnswerAloneKeepsInv
<1>2. CASE Ask
  BY <1>2, AskKeepsInv
<1>3. CASE Unreachable
  BY <1>3, UnreachableKeepsInv
<1>4. ASSUME NEW code \in Rejections \cup {200}, Answered(code)
      PROVE  Inv'
  BY <1>4, AnsweredKeepsInv
<1>5. CASE Serve
  BY <1>5, ServeKeepsInv
<1>6. ASSUME NEW broken \in BOOLEAN, ServeEnd(broken)
      PROVE  Inv'
  BY <1>6, ServeEndKeepsInv
<1>7. ASSUME NEW body \in {<<>>, <<Simple("error")>>}, Reject(body)
      PROVE  Inv'
  BY <1>7, RejectKeepsInv
<1>8. CASE FinishTrace
  BY <1>8, FinishTraceKeepsInv
<1>9. CASE ClientLeaves
  <2>1. UNCHANGED <<vars, pc, watched, header, trace, cut>> /\ client' \in {"here", "gone"}
    BY <1>9 DEF ClientLeaves
  <2> QED
    BY <2>1, ClientKeepsInv
<1>10. CASE UNCHANGED exchangeVars
  <2>1. UNCHANGED <<vars, pc, watched, header, trace, cut>> /\ client' \in {"here", "gone"}
    BY <1>10 DEF exchangeVars, pathVars, Inv, ExchangeTypeOK
  <2> QED
    BY <2>1, ClientKeepsInv
<1>11. CASE Acquired \/ Refused \/ Restarted
  <2>1. pc \in Places /\ pc' \in Places /\ UNCHANGED <<vars, client, watched, header, trace, cut>>
    BY <1>11 DEF Acquired, Refused, Restarted, Places
  <2> QED
    BY <2>1, PlaceKeepsInv
<1> QED
  BY <1>1, <1>2, <1>3, <1>4, <1>5, <1>6, <1>7, <1>8, <1>9, <1>10, <1>11 DEF ExchangeNext

\* The invariant holds in every state of a request.
LEMMA Invariance == ExchangeSpec => []Inv
BY InitIsInv, KeepsInv, PTL DEF ExchangeSpec

\* The variables of a request have their types.
THEOREM TypeCorrect == ExchangeSpec => []ExchangeTypeOK
<1>1. Inv => ExchangeTypeOK
  BY DEF Inv
<1> QED
  BY <1>1, Invariance, PTL

\* A set with at most one element has no two.
LEMMA OneOnly ==
  ASSUME NEW S, IsFiniteSet(S), Cardinality(S) <= 1, NEW a \in S, NEW b \in S
  PROVE  a = b
<1>1. SUFFICES ASSUME a # b
               PROVE  FALSE
  OBVIOUS
<1>2. IsFiniteSet(S \ {a}) /\ Cardinality(S \ {a}) = Cardinality(S) - 1
  BY FS_RemoveElement
<1>3. Cardinality(S) \in Nat /\ Cardinality(S \ {a}) \in Nat
  BY <1>2, FS_CardinalityType
<1>4. Cardinality(S \ {a}) = 0
  BY <1>2, <1>3
<1>5. S \ {a} = {}
  BY <1>2, <1>4, FS_EmptySet
<1> QED
  BY <1>1, <1>5

\* The name is restored on whichever way the answer takes: once for each event
\* relayed, and once for each first fragment put together.
LEMMA InvRestoresNames == Inv => NamesRestored
<1> SUFFICES ASSUME Inv, Cardinality({i \in DOMAIN tools : tools[i] \in ReadLike}) <= 1,
                    NEW k \in Indexes, Begun(k)
             PROVE  NameGiven(k) = ToolMeant(k)
  BY DEF NamesRestored
<1>1. /\ tools \in Seq(Names) /\ Len(tools) <= MaxTools /\ protocol \in Protocols
      /\ meant[k] \in 1..Len(Offered)
      /\ DOMAIN tools = 1..Len(tools) /\ Len(tools) \in Nat
  BY Types, LenProperties DEF Inv, RequestInv
<1>2. \A i, j \in 1..Len(tools) : tools[i] \in ReadLike /\ tools[j] \in ReadLike => i = j
  <2> DEFINE S == {i \in DOMAIN tools : tools[i] \in ReadLike}
  <2>1. IsFiniteSet(S)
    <3>1. IsFiniteSet(1..Len(tools))
      BY <1>1, FS_Interval
    <3>2. S \subseteq 1..Len(tools)
      BY <1>1
    <3> HIDE DEF S
    <3> QED
      BY <3>1, <3>2, FS_Subset
  <2>2. \A i, j \in S : i = j
    <3> HIDE DEF S
    <3> SUFFICES Cardinality(S) <= 1
      BY <2>1, OneOnly
    <3> QED
      BY DEF S
  <2> QED
    BY <1>1, <2>2
<1>3. /\ Given[Offered[meant[k]]] = ToolMeant(k)
      /\ Original[Offered[meant[k]]] = ToolMeant(k)
  BY <1>1, <1>2, NameOffered DEF ToolMeant
<1>4. CASE PutTogether
  <2>1. CallName(k) = Original[Offered[meant[k]]]
    BY <1>4 DEF Inv, CompletionInv
  <2> QED
    BY <1>3, <1>4, <2>1 DEF NameGiven, CallName
<1>5. CASE ~PutTogether
  <2> DEFINE i == CHOOSE i \in DOMAIN sent : sent[i].index = k /\ sent[i].name # None
  <2>1. DOMAIN sent = 1..Len(sent)
    BY Types, LenProperties DEF Inv
  <2>2. \E j \in DOMAIN sent : sent[j].index = k /\ sent[j].name # None
    BY <2>1 DEF Inv, StreamInv, IndexOf, NameOf
  <2>3. i \in DOMAIN sent /\ sent[i].index = k /\ sent[i].name # None
    BY <2>2
  <2>4. NameGiven(k) = relayed[i].name
    BY <1>5 DEF NameGiven
  <2> HIDE DEF i
  <2>5. /\ KindOf(sent[i]) = "tool" /\ i \in 1..Len(sent)
        /\ NameOf(sent[i]) = Offered[meant[k]]
    BY <2>1, <2>3 DEF Inv, StreamInv, IndexOf, NameOf
  <2>6. NameOf(relayed[i]) = Given[NameOf(sent[i])]
    BY <1>5, <2>5 DEF Inv, RelayInv
  <2> QED
    BY <1>3, <2>4, <2>5, <2>6 DEF NameOf
<1> QED
  BY <1>4, <1>5

\* A client that has at most one tool to read files with is given the names of
\* its own tools, whatever they are and however many calls there are
\* (restoreToolName, copyStreamWithToolRenames).
THEOREM NamesAreRestored == ExchangeSpec => []NamesRestored
BY Invariance, InvRestoresNames, PTL

\* The first fragment of a call is the least of its pieces.
LEMMA FirstIsLeast ==
  ASSUME NEW k \in Indexes, NEW m, sent \in Seq(Event), First(sent, k, m)
  PROVE  FirstSent(k) = m
<1>1. /\ DOMAIN sent = 1..Len(sent) /\ Len(sent) \in Nat
  BY LenProperties
<1>2. m \in Sent("tool", k) /\ \A x \in Sent("tool", k) : m <= x
  BY <1>1 DEF First, Sent, KindOf, IndexOf
<1>3. Sent("tool", k) \subseteq Nat
  BY <1>1 DEF Sent
<1>4. FirstSent(k) \in Sent("tool", k) /\ \A x \in Sent("tool", k) : FirstSent(k) <= x
  BY <1>2, <1>3, Least DEF FirstSent
<1> QED
  BY <1>2, <1>3, <1>4

\* Every call of a completion is in the answer made of it.
LEMMA AnswerHasCalls ==
  ASSUME Inv, NEW k \in Indexes
  PROVE  Contains(AnswerItems, k) <=> \E i \in 1..Len(Order) : Order[i] = k
<1> DEFINE texts == IF completion.text = {} THEN <<>> ELSE <<"text">>
           items == texts \o Order
<1>1. Order \in Seq(Indexes) /\ "text" \notin Indexes
  BY ExchangeAssumption DEF Inv, ExchangeTypeOK, TypeOK, Order
<1>2. texts \in Seq({"text"}) /\ \A i \in 1..Len(texts) : texts[i] = "text"
  <2>1. CASE completion.text = {}
    BY <2>1
  <2>2. CASE completion.text # {}
    <3>1. texts = <<"text">>
      BY <2>2
    <3>2. \A word : <<word>> \in Seq({word}) /\ \A i \in 1..Len(<<word>>) : <<word>>[i] = word
      OBVIOUS
    <3> QED
      BY <3>1, <3>2
  <2> QED
    BY <2>1, <2>2
<1> HIDE DEF texts
<1>3. /\ texts \in Seq(Indexes \cup {"text"}) /\ Order \in Seq(Indexes \cup {"text"})
      /\ Len(texts) \in Nat /\ Len(Order) \in Nat
  BY <1>1, <1>2, SeqMonotonic, LenProperties
<1>4. /\ items \in Seq(Indexes \cup {"text"}) /\ Len(items) = Len(texts) + Len(Order)
      /\ \A i \in 1..Len(items) :
           items[i] = IF i <= Len(texts) THEN texts[i] ELSE Order[i - Len(texts)]
  BY <1>3, ConcatProperties
<1> HIDE DEF items
<1>5. (\E i \in 1..Len(items) : items[i] = k) <=> \E i \in 1..Len(Order) : Order[i] = k
  <2>1. ASSUME NEW i \in 1..Len(items), items[i] = k
        PROVE  \E j \in 1..Len(Order) : Order[j] = k
    <3>1. ~(i <= Len(texts))
      BY <1>1, <1>2, <1>3, <1>4, <2>1
    <3>2. i - Len(texts) \in 1..Len(Order) /\ Order[i - Len(texts)] = k
      BY <1>3, <1>4, <2>1, <3>1
    <3> QED
      BY <3>2
  <2>2. ASSUME NEW j \in 1..Len(Order), Order[j] = k
        PROVE  \E i \in 1..Len(items) : items[i] = k
    <3>1. /\ j + Len(texts) \in 1..Len(items) /\ ~(j + Len(texts) <= Len(texts))
          /\ (j + Len(texts)) - Len(texts) = j
      BY <1>3, <1>4
    <3>2. items[j + Len(texts)] = k
      BY <1>4, <2>2, <3>1
    <3> QED
      BY <3>1, <3>2
  <2> QED
    BY <2>1, <2>2
<1>6. AnswerItems = IF protocol = "anthropic" /\ items = <<>> THEN <<"text">> ELSE items
  BY DEF AnswerItems, items, texts, Order
<1>7. CASE protocol = "anthropic" /\ items = <<>>
  <2>1. AnswerItems = <<"text">> /\ 1..Len(items) = {}
    BY <1>6, <1>7
  <2>2. ~Contains(AnswerItems, k)
    BY <1>1, <2>1 DEF Contains
  <2> QED
    BY <1>5, <2>1, <2>2
<1>8. CASE ~(protocol = "anthropic" /\ items = <<>>)
  BY <1>5, <1>6, <1>8 DEF Contains
<1> QED
  BY <1>7, <1>8

\* A completion that has every piece so far is the stream so far.
LEMMA InvPutsStreamTogether == Inv => CompletionIsStream
<1> SUFFICES ASSUME Inv, PutTogether
             PROVE  CompletionIsStream
  BY DEF CompletionIsStream
<1>1. /\ Texts = Sent("text", None)
      /\ \A k \in Indexes : Arguments(k) = Sent("tool", k)
      /\ \A k \in Indexes : Begun(k) <=> \E i \in 1..Len(Order) : Order[i] = k
      /\ \A i \in 1..Len(Order) : \E m \in 1..Len(sent) : First(sent, Order[i], m)
      /\ \A i, j \in 1..Len(Order) : i < j =>
           \A m, x \in 1..Len(sent) : First(sent, Order[i], m) /\ First(sent, Order[j], x) => m < x
      /\ Reason # None => \E i \in 1..Len(sent) : KindOf(sent[i]) = Reason
  BY DEF Inv, CompletionInv
<1>2. /\ Order \in Seq(Indexes) /\ Len(Order) \in Nat /\ DOMAIN Order = 1..Len(Order)
      /\ \A i \in 1..Len(Order) : Order[i] \in Indexes
      /\ sent \in Seq(Event) /\ DOMAIN sent = 1..Len(sent)
  <2>1. Order \in Seq(Indexes) /\ sent \in Seq(Event)
    BY DEF Inv, ExchangeTypeOK, TypeOK, Order
  <2> QED
    BY <2>1, LenProperties, ElementOfSeq
<1>3. completion.text = Sent("text", None)
  BY <1>1 DEF Texts
<1>4. ASSUME NEW k \in Indexes
      PROVE  completion.arguments[k] = Sent("tool", k)
  BY <1>1 DEF Arguments
<1>5. Range(Order) = {k \in Indexes : Begun(k)}
  BY <1>1, <1>2 DEF Range
<1>6. ASSUME NEW i \in DOMAIN Order, NEW j \in DOMAIN Order, i < j
      PROVE  FirstSent(Order[i]) < FirstSent(Order[j])
  <2>1. i \in 1..Len(Order) /\ j \in 1..Len(Order)
    BY <1>2
  <2>2. PICK m \in 1..Len(sent) : First(sent, Order[i], m)
    BY <1>1, <2>1
  <2>3. PICK x \in 1..Len(sent) : First(sent, Order[j], x)
    BY <1>1, <2>1
  <2>4. FirstSent(Order[i]) = m /\ FirstSent(Order[j]) = x
    BY <1>2, <2>1, <2>2, <2>3, FirstIsLeast
  <2> QED
    BY <1>1, <1>6, <2>1, <2>2, <2>3, <2>4
<1>7. {k \in Indexes : Contains(AnswerItems, k)} = {k \in Indexes : Begun(k)}
  BY <1>1, AnswerHasCalls
<1>8. ASSUME ReasonIsLast
      PROVE  FinishReason = "tool_calls" <=> \E k \in Indexes : Begun(k)
  <2>1. FinishReason = IF Reason # None THEN Reason
                       ELSE IF Order # <<>> THEN "tool_calls" ELSE "stop"
    BY DEF FinishReason, Reason, Order
  <2>2. Reason \in {"stop", "tool_calls", None}
    BY DEF Inv, ExchangeTypeOK, TypeOK, Reason, FinishReasons
  <2>3. CASE Reason # None
    <3>1. PICK i \in 1..Len(sent) : KindOf(sent[i]) = Reason
      BY <1>1, <2>3
    <3>2. /\ sent[i].kind = Reason /\ i \in DOMAIN sent /\ Reason \in FinishReasons
      BY <1>2, <2>2, <2>3, <3>1 DEF KindOf, FinishReasons
    <3>3. Reason = "tool_calls" <=> \E k \in Indexes : Begun(k)
      BY <1>8, <3>2 DEF ReasonIsLast
    <3>4. FinishReason = Reason
      BY <2>1, <2>3
    <3> QED
      BY <3>3, <3>4
  <2>4. CASE Reason = None
    <3>1. Order # <<>> <=> \E k \in Indexes : Begun(k)
      <4>1. Order # <<>> => 1 \in 1..Len(Order)
        BY <1>2, EmptySeq
      <4>2. Order = <<>> => 1..Len(Order) = {}
        OBVIOUS
      <4> QED
        BY <1>1, <1>2, <4>1, <4>2
    <3>2. FinishReason = IF Order # <<>> THEN "tool_calls" ELSE "stop"
      BY <2>1, <2>4
    <3> QED
      BY <3>1, <3>2
  <2> QED
    BY <2>3, <2>4
<1> QED
  BY <1>3, <1>4, <1>5, <1>6, <1>7, <1>8 DEF CompletionIsStream, Order

\* An answer put together from a stream is the stream, however its calls are
\* interleaved (aggregateSSECompletion and the answers made of a completion).
THEOREM CompletionIsTheStream == ExchangeSpec => []CompletionIsStream
BY Invariance, InvPutsStreamTogether, PTL

\* The trace of a finished request is whole, whichever way it took
\* (withDebug, executeUpstream).
THEOREM TracesAreWhole == ExchangeSpec => []FinishedTraceIsWhole
<1>1. Inv => FinishedTraceIsWhole
  <2> SUFFICES ASSUME Inv, pc = "done"
               PROVE  FinishedTraceIsWhole
    BY DEF FinishedTraceIsWhole
  <2>1. /\ Told /\ TraceStatus = header /\ header # Unset /\ UpstreamBody = sent
        /\ Asked /\ ~Failed => UpstreamStatus # Unset
        /\ Failed => Asked /\ UpstreamStatus = Unset
    BY DEF Inv, TraceInv, Ended
  <2>2. /\ trace.upstream \in BOOLEAN /\ trace.error \in BOOLEAN /\ trace.inbound \in BOOLEAN
    BY Types DEF Inv, Traces
  <2>3. /\ trace.inbound /\ trace.status = header /\ trace.upstreamBody = sent
    BY <2>1, <2>2 DEF Told, TraceStatus, UpstreamBody
  <2>4. /\ trace.upstream /\ ~trace.error => trace.upstreamStatus # Unset
    BY <2>1, <2>2 DEF Asked, Failed, UpstreamStatus
  <2>5. trace.error => trace.upstream /\ trace.upstreamStatus = Unset
    BY <2>1, <2>2 DEF Asked, Failed, UpstreamStatus
  <2> QED
    BY <2>1, <2>3, <2>4, <2>5 DEF FinishedTraceIsWhole
<1> QED
  BY <1>1, Invariance, PTL

\* By how the upstream has answered, and then by the way of the answer.
LEMMA InvTellsFailure == Inv => AnswerTellsFailure
<1> SUFFICES ASSUME Inv, pc = "done"
             PROVE  /\ ToldOfFailure => UpstreamFailed \/ Unfinished
                    /\ UpstreamFailed /\ ~Restores /\ ~(Copies /\ cut) => ToldOfFailure
  BY DEF AnswerTellsFailure
<1>1. /\ DOMAIN sent = 1..Len(sent) /\ DOMAIN relayed = 1..Len(relayed)
      /\ Len(sent) \in Nat /\ Len(relayed) \in Nat
      /\ trace \in Traces /\ Ended /\ Unset = 0
      /\ PutTogether => ~Copies /\ ~Restores /\ ~Translates
      /\ ~PutTogether => Copies \/ Restores \/ Translates
  BY Types, Modes, LenProperties DEF Inv, Ended, Unset
<1>2. /\ ToldOfFailure <=> header # 200 \/ \E i \in 1..Len(relayed) : KindOf(relayed[i]) = "error"
      /\ UpstreamFailed <=> \/ Failed \/ UpstreamStatus \in Rejections
                            \/ \E i \in 1..Len(sent) : KindOf(sent[i]) = "error"
                            \/ cut
      /\ Unfinished <=> \/ \A i \in 1..Len(sent) : KindOf(sent[i]) # "done"
                        \/ sent = <<Simple("done")>>
  <2>1. trace.error <=> Failed
    BY <1>1 DEF Traces, Failed
  <2> QED
    BY <1>1, <2>1 DEF ToldOfFailure, UpstreamFailed, Unfinished, KindOf, UpstreamStatus
<1>3. UpstreamStatus \in {Unset, 200} \cup Rejections /\ 200 \notin Rejections
  BY <1>1, CodeTypes DEF Traces, UpstreamStatus
<1>4. CASE UpstreamStatus = Unset
  <2>1. NothingSent /\ ~cut /\ 1..Len(sent) = {} /\ 1..Len(relayed) = {}
    BY <1>4 DEF Inv, StreamInv, NothingSent
  <2>2. Failed => header = 502
    BY <1>1 DEF Inv, OutcomeInv
  <2> QED
    BY <1>2, <1>4, <2>1, <2>2, CodeTypes
<1>5. CASE UpstreamStatus \in Rejections
  <2>1. header = UpstreamStatus
    BY <1>1, <1>5 DEF Inv, OutcomeInv
  <2> QED
    BY <1>2, <1>3, <1>5, <2>1
<1>6. CASE UpstreamStatus = 200
  <2>1. ~Failed
    BY <1>6, <1>1 DEF Inv, TraceInv
  <2>2. CASE PutTogether
    <3>1. relayed = <<>> /\ 1..Len(relayed) = {}
      BY <1>3, <1>6, <2>2 DEF Inv, RelayInv
    <3>2. \/ status = "completion" /\ header = 200
          \/ /\ status = "failed" /\ header = 502
             /\ \/ cut \/ \E i \in 1..Len(sent) : KindOf(sent[i]) = "error"
                \/ \A i \in 1..Len(sent) : KindOf(sent[i]) # "done"
      BY <1>1, <1>6, <2>2 DEF Inv, OutcomeInv
    <3>3. status = "completion" => ~cut /\ \A i \in 1..Len(sent) : KindOf(sent[i]) # "error"
      BY <2>2 DEF Inv, OutcomeInv
    <3> QED
      BY <1>2, <1>3, <1>6, <2>1, <3>1, <3>2, <3>3
  <2>3. CASE ~PutTogether
    <3>1. header = 200 /\ Len(sent) <= Len(relayed)
      BY ZenonT(60), <1>1, <1>6, <2>3 DEF Inv, OutcomeInv, RelayInv
    <3>2. ASSUME NEW i \in 1..Len(relayed), KindOf(relayed[i]) = "error"
          PROVE  UpstreamFailed \/ Unfinished
      <4>1. CASE i \in 1..Len(sent)
        BY <1>2, <2>3, <3>2, <4>1 DEF Inv, RelayInv
      <4>2. CASE i > Len(sent)
        <5>1. cut \/ \A j \in 1..Len(sent) : KindOf(sent[j]) # "done"
          BY <2>3, <3>2, <4>2 DEF Inv, RelayInv
        <5> QED
          BY <1>2, <5>1
      <4> QED
        BY <1>1, <4>1, <4>2
    <3>3. ASSUME NEW i \in 1..Len(sent), KindOf(sent[i]) = "error", ~Restores
          PROVE  ToldOfFailure
      <4>1. KindOf(relayed[i]) = "error"
        BY <1>1, <2>3, <3>3 DEF Inv, RelayInv
      <4>2. i \in 1..Len(relayed)
        BY SMTT(30), <1>1, <3>1
      <4> QED
        BY <1>2, <4>1, <4>2
    <3>4. ASSUME cut, ~Restores, ~Copies
          PROVE  ToldOfFailure
      BY <1>1, <1>2, <2>3, <3>4 DEF Inv, RelayInv
    <3> QED
      BY SMTT(30), <1>2, <1>3, <1>6, <2>1, <3>1, <3>2, <3>3, <3>4
  <2> QED
    BY <2>2, <2>3
<1> QED
  BY <1>3, <1>4, <1>5, <1>6

\* A client that stays is told of a failure of the upstream, and of a failure
\* only if there was one, but for the passthrough streams that hide it.
THEOREM AnswersTellFailure == ExchangeSpec => []AnswerTellsFailure
BY Invariance, InvTellsFailure, PTL

=============================================================================
