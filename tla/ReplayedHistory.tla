-------------------------- MODULE ReplayedHistory --------------------------
(***************************************************************************)
(* A client replays its conversation with every request, over one of the   *)
(* two translated protocols.  Whichever it is, the upstream is sent a Chat *)
(* Completions history, of which it requires the same.                     *)
(***************************************************************************)
EXTENDS Naturals, Sequences, ChatHistory

CONSTANTS
  MaxAnswers,    \* bound: answers of the model in the conversation
  MaxCalls,      \* bound: tool calls in one answer
  MaxMessages    \* bound: no text of a Responses conversation is added behind
                 \* so many messages

ASSUME HistoryAssumption ==
  MaxAnswers \in Nat /\ MaxCalls \in Nat /\ MaxMessages \in Nat

VARIABLES
  protocol,                                    \* of the client
  messages, answer, unanswered, reasoned,      \* of both translations
  pendingReasoning, last, called,              \* of ResponsesHistory
  grouped, textFirst,                          \* of ResponsesHistory
  speaker                                      \* of AnthropicHistory

Responses == INSTANCE ResponsesHistory
Anthropic == INSTANCE AnthropicHistory

vars == <<protocol, messages, answer, unanswered, reasoned,
          pendingReasoning, last, called, grouped, textFirst, speaker>>

Init ==
  /\ protocol \in {"responses", "anthropic"}
  /\ Responses!Init
  /\ Anthropic!Init

Next ==
  \/ protocol = "responses" /\ Responses!Next /\ UNCHANGED <<protocol, speaker>>
  \/ protocol = "anthropic" /\ Anthropic!Next
       /\ UNCHANGED <<protocol, pendingReasoning, last, called, grouped, textFirst>>

Spec == Init /\ [][Next]_vars

-----------------------------------------------------------------------------
\* The reasoning an answer began with reaches its calls: each stands in the
\* message that carries it or behind it, in whatever order the answer's items
\* were streamed, as long as a Responses client records the outputs behind the
\* answer; where the text came first, in that message itself
\* (responses.go:521-550, anthropic.go:416-423).  Where text was streamed behind
\* a call, the calls that join it are left without (responses.go:536-541).
CallsCarryReasoning ==
  grouped => /\ FollowReasoning(messages, reasoned)
             /\ textFirst => CarryReasoning(messages, reasoned)

\* No message carries the reasoning of an answer other than its own: what is
\* pending is dropped when the conversation goes on without using it.
ReasoningIsOwn == OwnReasoning(messages)

\* What may stand between a call and its output: other outputs; from an Anthropic
\* client the text the user sent along with the results (anthropic.go:398-403);
\* from a Responses client what the same answer said behind the call.
MayStandBetween(message, call) ==
  \/ message.role = "tool"
  \/ protocol = "anthropic" /\ message.role = "user"
  \/ ~textFirst /\ message.role = "assistant" /\ call[1] \in AnswersIn(message)

\* Tool messages stand behind the message that made their calls, parallel calls
\* included, and no other answer, nor in a Responses conversation the user,
\* comes in between.
OutputsFollowCalls ==
  \A i \in DOMAIN messages :
    messages[i].role = "tool" =>
      \E j \in 1..(i - 1) :
        /\ messages[i].answer \in messages[j].calls
        /\ \A k \in (j + 1)..(i - 1) : MayStandBetween(messages[k], messages[i].answer)

\* The calls of an answer, parallel ones included, are all answered before the
\* model's next answer, in whatever order the items of the answer were streamed
\* and the outputs recorded.
CallsAreAnswered ==
  \A i, j \in DOMAIN messages : \A call \in messages[i].calls :
    i < j /\ messages[j].role = "assistant" /\ call[1] \notin AnswersIn(messages[j]) =>
      \E k \in i..j : messages[k].answer = call
=============================================================================
